-------------------------- MODULE MCLanguageClient --------------------------
(***************************************************************************)
(* LanguageClient for TLC, in two parts of one run: "any", a server that   *)
(* may die and has nothing to say to some requests; "good", one that lives *)
(* and always has a result, from which the program may expect that it gets *)
(* its answers and comes to its end.                                       *)
(***************************************************************************)
EXTENDS LanguageClient

VARIABLE part

Tokens == <<"semanticTokens">>
Completion == <<"completion">>
NullSkips == {"completion", "semanticTokens"}
AnyNull == {"completion", "semanticTokens", "formatting"}

Good == INSTANCE LanguageClient WITH OnChar <- << >>, Nulls <- {}, Crashes <- FALSE

PartsInit == part \in {"any", "good"} /\ Init

PartsNext == /\ UNCHANGED part
             /\ \/ part = "any" /\ Next
                \/ part = "good" /\ Good!Next

PartsSpec ==
  /\ PartsInit /\ [][PartsNext]_<<vars, part>>
  /\ WF_vars(part = "good" /\ Good!Start)
  /\ WF_vars(part = "good" /\ Good!ContentChange)
  /\ WF_vars(part = "good" /\ Good!Finished)
  /\ WF_vars(part = "good" /\ Good!Parser)
  /\ WF_vars(part = "good" /\ Good!Take)
  /\ WF_vars(part = "good" /\ Good!Answer)

(* A good server's answers all find their handler, however its output is   *)
(* cut into chunks, unless the program ends first; and when the program    *)
(* waits for the answer to shutdown it does end (parser, shutdown).        *)
GoodServerServes ==
  /\ (part = "good" /\ DOMAIN methods # {}) ~> DOMAIN methods = {} \/ phase \in {"exit", "closed"}
  /\ (part = "good" /\ phase = "shutdown") ~> phase = "closed"
=============================================================================
