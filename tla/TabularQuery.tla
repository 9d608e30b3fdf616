---------------------------- MODULE TabularQuery ----------------------------
(***************************************************************************)
(* search/tabular_engine.py: a question about a table is turned into SQL   *)
(* by a language model, checked, and run by MindsDB, with a retry on an    *)
(* empty answer and two repairs of a statement that fails.                 *)
(*                                                                         *)
(* The model is one that answers anything; its answers are told apart by   *)
(* what the code does with them: "good" and "bad" pass _validate_sql and   *)
(* run or fail, "write" does not pass, "empty" is no answer, "error" is a  *)
(* call that raises.                                                       *)
(***************************************************************************)
EXTENDS DocumentIndex

CONSTANTS
  Clients,
  Replies,      \* what the language model may answer
  MaxRetries    \* MAX_RETRIES, 2 in the code

ASSUME ReplyAssumption ==
  Replies \subseteq {"good", "bad", "write", "empty", "error"} /\ MaxRetries \in Nat

VARIABLE tq     \* [Clients -> [Tabular -> Query]], the queries of a search in flight

QuerySteps == {"off", "generate", "regenerate", "execute", "fix", "done"}
Query == [pc : QuerySteps, sql : {"none", "good", "bad", "write"}, attempt : 0 .. MaxRetries]

NoQuery  == [pc |-> "off", sql |-> "none", attempt |-> 0]
NewQuery == [NoQuery EXCEPT !.pc = "generate"]

SetQuery(c, d, q) == tq' = [tq EXCEPT ![c][d] = q]

\* query_tabular returns: the rows as a table, or a text that says what failed.  It
\* never raises; which of the two it was is not told apart any more.
Returned == [NoQuery EXCEPT !.pc = "done"]

\* _validate_sql: one SELECT or WITH, without a word that writes.
Accepts(sql) == sql \in {"good", "bad"}

\* A statement just generated: rejected, or to be run.
Validated(q, sql) == IF Accepts(sql) THEN [q EXCEPT !.pc = "execute", !.sql = sql]
                     ELSE Returned

\* _generate_sql, first call; an empty answer is asked for once more.
Generate(c, d) ==
  /\ tq[c][d].pc = "generate"
  /\ \E r \in Replies :
       SetQuery(c, d, IF r = "error" THEN Returned
                      ELSE IF r = "empty" THEN [tq[c][d] EXCEPT !.pc = "regenerate"]
                      ELSE Validated(tq[c][d], r))

\* _generate_sql, second call.
Regenerate(c, d) ==
  /\ tq[c][d].pc = "regenerate"
  /\ \E r \in Replies :
       SetQuery(c, d, IF r \in {"error", "empty"} THEN Returned
                      ELSE Validated(tq[c][d], r))

\* sql_query: a good statement may still fail, as the table may be missing or
\* MindsDB away.  After the last attempt the failure is the answer.
Execute(c, d) ==
  LET q == tq[c][d]
      Failed == IF q.attempt < MaxRetries THEN [q EXCEPT !.pc = "fix"] ELSE Returned
  IN /\ q.pc = "execute"
     /\ \/ q.sql = "good" /\ d \in Tables /\ SetQuery(c, d, Returned)
        \/ SetQuery(c, d, Failed)

\* Mutants: repairs are not counted; a repair is not checked.
FixUncounted(c, d) ==
  /\ tq[c][d].pc = "fix"
  /\ \E r \in Replies :
       SetQuery(c, d, IF Accepts(r) THEN [tq[c][d] EXCEPT !.pc = "execute", !.sql = r]
                      ELSE Returned)

FixUnchecked(c, d) ==
  /\ tq[c][d].pc = "fix"
  /\ \E r \in Replies :
       SetQuery(c, d, IF r \in {"good", "bad", "write"}
                      THEN [tq[c][d] EXCEPT !.pc = "execute", !.sql = r, !.attempt = @ + 1]
                      ELSE Returned)

\* _fix_sql and the check of what it returns; when either raises, the loop ends
\* with the failure of the statement before.
Fix(c, d) ==
  /\ tq[c][d].pc = "fix"
  /\ \E r \in Replies :
       SetQuery(c, d, IF Accepts(r)
                      THEN [tq[c][d] EXCEPT !.pc = "execute", !.sql = r, !.attempt = @ + 1]
                      ELSE Returned)

QueryStep(c, d) == Generate(c, d) \/ Regenerate(c, d) \/ Execute(c, d) \/ Fix(c, d)
=============================================================================
