---------------------------- MODULE SqlPreparation ----------------------------
(***************************************************************************)
(* What prepare_windows_748_sql does to the text of one dump: which parts of   *)
(* it count as code (sql_audit.py), what is replaced there, and what must hold *)
(* for the result to be staged (restore_prepare.py).  A dump is a sequence of  *)
(* tokens: the marks that switch between code, literals and comments, and the  *)
(* words the checks look for.  The backticks of a schema's or an account's own *)
(* name belong to its word.                                                    *)
(***************************************************************************)
EXTENDS Naturals, Sequences, FiniteSets

\* A quote, the escape in literals, the quote of identifiers, the begin of an executable or
\* of an inert comment, the end of both, the begin of a comment to the end of the line, that
\* end, and a character that ends a line for str.splitlines only (a vertical tab, a form
\* feed, a file separator, NEL, U+2028).
Mark == {"quote", "backslash", "backtick", "executable", "open", "close", "hash", "newline",
         "separator"}

\* The schema under its Windows name and under its own, another schema, a definer the
\* code knows, another one, the one it writes, a forbidden construct, the history table.
Word == {"windows", "linux", "foreign", "definer", "owner", "current", "forbidden", "history"}

Token == Mark \cup Word

-----------------------------------------------------------------------------
(* One pass over a dump.                                                     *)

\* The code starts again after a literal, an identifier or a comment; an escape takes one
\* token along.
LiteralTurns == {<<"code", "quote", "literal">>, <<"literal", "quote", "code">>,
                 <<"literal", "backslash", "escape">>}
NameTurns    == {<<"code", "backtick", "identifier">>, <<"identifier", "backtick", "code">>}
CommentTurns == {<<"code", "open", "comment">>, <<"comment", "close", "code">>,
                 <<"code", "hash", "line">>, <<"line", "newline", "code">>}
AllTurns     == LiteralTurns \cup NameTurns \cup CommentTurns

Turned(turns, mode, token) ==
    IF \E t \in turns : t[1] = mode /\ t[2] = token
    THEN (CHOOSE t \in turns : t[1] = mode /\ t[2] = token)[3]
    ELSE IF mode = "escape" THEN "literal" ELSE mode

Start == [mode |-> "code", inside |-> FALSE]

\* "inside" an executable comment, which ends at the first end mark, wherever that
\* stands (first), or only at one that is code, as in the server.
After(s, token, turns, first) ==
    IF s.inside /\ token = "close" /\ (first \/ s.mode = "code") THEN Start
    ELSE [mode |-> Turned(turns, s.mode, token),
          inside |-> s.inside \/ (s.mode = "code" /\ token = "executable")]

\* Where the pass is before each token.
Pass(sql, turns, first) ==
    LET states[i \in 0 .. Len(sql)] ==
            IF i = 0 THEN <<Start>>
            ELSE LET past == states[i - 1] IN Append(past, After(past[i], sql[i], turns, first))
    IN  states[Len(sql)]

InMode(sql, turns, first, modes) ==
    LET pass == Pass(sql, turns, first) IN {i \in DOMAIN sql : pass[i].mode \in modes}

-----------------------------------------------------------------------------
(* The code's passes, the replacement and the checks.                        *)

\* Fault: comments are not recognised.
VisibleInComments(sql) ==
    InMode(sql, LiteralTurns \cup NameTurns, TRUE, {"code", "identifier"})

\* _lexically_mask: what is neither in a literal nor in an inert comment.
Visible(sql) == InMode(sql, AllTurns, TRUE, {"code", "identifier"})

\* _without_backtick_identifiers: the mask without what stands between one backtick of the
\* mask and the next; a last backtick without a partner hides nothing.
Keywords(sql) ==
    LET ticks == {i \in Visible(sql) : sql[i] = "backtick"}
    IN  {i \in Visible(sql) : \/ Cardinality({j \in ticks : j < i}) % 2 = 0
                              \/ \A j \in ticks : j < i}

\* _literal_digest: a pass of its own, which knows neither comments nor identifiers.
Literals(sql) == [i \in InMode(sql, LiteralTurns, FALSE, {"literal", "escape"}) |-> sql[i]]

\* The lines of a text: _blank keeps only the newlines of what the mask hides.
Breaks(sql)     == {i \in DOMAIN sql : sql[i] \in {"newline", "separator"}}
MaskBreaks(sql) == {i \in Breaks(sql) : sql[i] = "newline" \/ i \in Visible(sql)}
Line(breaks, i) == Cardinality({j \in breaks : j < i})

\* _history_digest: the lines of the dump that have the numbers of the lines of the mask on
\* which the history table is visible.
History(sql) ==
    LET seen  == {i \in Visible(sql) : sql[i] = "history"}
        lines == {Line(MaskBreaks(sql), i) : i \in seen}
    IN  [i \in {j \in DOMAIN sql : Line(Breaks(sql), j) \in lines} |-> sql[i]]

\* _replacement_spans and _apply_replacements: identifiers are searched as well.
Staged(sql) ==
    LET visible == Visible(sql)
    IN  [i \in DOMAIN sql |->
            IF i \notin visible THEN sql[i]
            ELSE IF sql[i] = "windows" THEN "linux"
            ELSE IF sql[i] = "definer" THEN "current" ELSE sql[i]]

Count(sql, places, words) == Cardinality({i \in places : sql[i] \in words})

\* audit_sql with _validate_audit: no other schema, nothing forbidden, and as many
\* definers as the database is known to have.
Audited(sql, definers) ==
    /\ Count(sql, Visible(sql), {"foreign"}) = 0
    /\ Count(sql, Keywords(sql), {"forbidden"}) = 0
    /\ Count(sql, Keywords(sql), {"definer", "owner", "current"}) = definers

\* Fault: the literals are not compared.
AcceptedUncompared(sql, definers, history) ==
    /\ Audited(sql, definers) /\ Count(sql, Visible(sql), {"definer"}) = definers
    /\ history => DOMAIN History(sql) # {} /\ History(Staged(sql)) = History(sql)
    /\ Audited(Staged(sql), definers)

\* Everything that is checked before a dump is staged; "history" tells whether the
\* database has a history table.
Accepted(sql, definers, history) ==
    /\ Audited(sql, definers) /\ Count(sql, Visible(sql), {"definer"}) = definers
    /\ Literals(Staged(sql)) = Literals(sql)
    /\ history => DOMAIN History(sql) # {} /\ History(Staged(sql)) = History(sql)
    /\ Audited(Staged(sql), definers)

-----------------------------------------------------------------------------
(* What the server makes of the same text.                                   *)

Server(sql, modes) == InMode(sql, AllTurns, FALSE, modes)

\* An end mark in a literal, an identifier or a comment of an executable comment: there the
\* code's pass and the server part.
EndsEarly(sql) ==
    LET pass == Pass(sql, AllTurns, FALSE)
    IN  \E i \in DOMAIN sql : sql[i] = "close" /\ pass[i].inside /\ pass[i].mode # "code"

\* A quote in a comment or an identifier: after it the literals of _literal_digest are not
\* the server's.
StrayQuote(sql) == \E i \in Server(sql, {"comment", "line", "identifier"}) : sql[i] = "quote"

\* The text of the known definer in an identifier: it is replaced, but not counted.
DefinerInName(sql) == \E i \in Server(sql, {"identifier"}) : sql[i] = "definer"

\* A line the mask does not know before a place: _history_digest takes another line for its.
LinesShift(sql, i) ==
    \E j \in Server(sql, {"literal", "escape", "comment", "line"}) : j < i /\ sql[j] = "separator"

SameLine(sql, i) == {j \in DOMAIN sql : Line(Breaks(sql), j) = Line(Breaks(sql), i)}

\* What is staged holds the literals of the backup as the server reads them: where one
\* of the two passes over the dump is wrong the other one is right.
LiteralsKept(sql) ==
    \/ EndsEarly(sql) /\ StrayQuote(sql)
    \/ \A i \in Server(sql, {"literal", "escape"}) : Staged(sql)[i] = sql[i]

\* A line of the history is the backup's; "shifted" tells whether that is said of the lines
\* behind one the mask does not know as well.
HistoryKept(sql, shifted) ==
    \A i \in Server(sql, {"code", "identifier"}) : sql[i] = "history"
        => \/ ~shifted /\ LinesShift(sql, i)
           \/ \A j \in SameLine(sql, i) : Staged(sql)[j] = sql[j]

\* And the code in it, as the server reads it, names only the schema it is for, by the
\* name it has on Linux, has no other user's definer and nothing forbidden; the
\* comments and the lines of the history are those of the backup.
CodeIsNormalised(sql, history) ==
    \/ EndsEarly(sql)
    \/ /\ \A i \in Server(sql, {"code", "identifier"}) :
              Staged(sql)[i] \notin {"windows", "foreign", "definer"}
       /\ \A i \in Server(sql, {"code"}) :
              /\ Staged(sql)[i] # "forbidden"
              /\ Staged(sql)[i] # "owner" \/ DefinerInName(sql)
       /\ \A i \in Server(sql, {"comment", "line"}) : Staged(sql)[i] = sql[i]
       /\ history => HistoryKept(sql, FALSE)
=============================================================================
