---------------------------- MODULE SessionSeqMC ----------------------------
(***************************************************************************)
(* SessionSeq for an acceptor and for an initiator, and beside them         *)
(* ResendCases: a record of sent messages answered over every range, with   *)
(* no await between two operations, which allows longer records.  part says *)
(* which of the three a behaviour is about.                                 *)
(***************************************************************************)
EXTENDS SessionSeq

VARIABLES part,                                         \* what the behaviour is about
          log, since, next, used, request, answer       \* of ResendCases

Initiator == INSTANCE SessionSeq WITH Acceptor <- FALSE

Cases == INSTANCE ResendCases WITH
    MaxRows <- 4, Begins <- 0 .. 3, Ends <- {0, 1, 2, 3, 99}, TxNumbers <- {1, 3},
    rows <- log, epoch <- since, tx <- next, sent <- used

ASSUME CasesAssumption == Cases!CasesAssumption

casesVars == << log, since, next, used, request, answer >>

MCInit ==
    /\ Cases!Init
    /\ \/ part \in {"acceptor", "cases"} /\ Init
       \/ part = "initiator" /\ Initiator!Init

MCNext ==
    \/ part = "acceptor" /\ Next /\ UNCHANGED << part, casesVars >>
    \/ part = "initiator" /\ Initiator!Next /\ UNCHANGED << part, casesVars >>
    \/ part = "cases" /\ Cases!Next /\ UNCHANGED << part, vars >>

MCSpec == MCInit /\ [][MCNext]_<< vars, part, casesVars >>

-----------------------------------------------------------------------------
\* A counterparty that processes an answer in order never meets a gap or a number
\* it already has, and ends just past the range it asked for
\* (FixSession._answer_resend_request).
AnswerCoversRange == part = "cases" => Cases!AnswerCoversRange

\* Exactly the application messages sent since the last sequence reset go out
\* again, each under its number (FixSession._answer_resend_request).
AnswerReplaysApps == part = "cases" => Cases!AnswerReplaysApps
=============================================================================
