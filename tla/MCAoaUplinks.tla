----------------------------- MODULE MCAoaUplinks -----------------------------
(***************************************************************************)
(* AoaUplinks for TLC.  Its parts share no variable, so that one run       *)
(* checks them one at a time: subject says which one moves, the others     *)
(* stay in their initial states.                                           *)
(***************************************************************************)
EXTENDS AoaUplinks

VARIABLE subject

\* Two bridges in networks of their own.
Found(rate, n) == [data_rate |-> rate, adr_enable |-> FALSE, net |-> n]

ASSUME ConstantsAssumption /\ U!ConstantsAssumption /\ B!ConstantsAssumption

MCvars == <<subject, avars>>

MCInit ==
  /\ subject \in {"queues", "confirmed", "parameters"} /\ AoaInit
  /\ bridge = [entrance |-> Found(0, "entrance"), roof |-> Found(4, "roof")]
  /\ g_ip = "entrance"
  /\ subject # "confirmed" => joined

MCNext ==
  \/ subject = "queues" /\ Queues /\ UNCHANGED subject
  \/ subject = "confirmed" /\ Uplinks /\ UNCHANGED subject
  \/ subject = "parameters" /\ Parameters /\ UNCHANGED subject

MCSpec == MCInit /\ [][MCNext]_MCvars

\* The fairness of each part, as it is justified there.  The health thread reads the
\* parameters in every cycle and is answered again and again.
QDrain == subject = "queues" /\ Drain /\ UNCHANGED <<subject, uvars, bvars>>
QTime == subject = "queues" /\ RetryTimeReached /\ UNCHANGED <<subject, uvars, bvars>>
QAccepted == subject = "queues" /\ B100_Send_Bytes(TRUE) /\ UNCHANGED <<subject, uvars, bvars>>
UHealth == subject = "confirmed" /\ U!Health_Monitor_Thread /\ UNCHANGED <<subject, vars, bvars>>
UTime == subject = "confirmed" /\ U!TimePasses /\ UNCHANGED <<subject, vars, bvars>>
BAnswered(t) == B!Remember(t) \/ \E outcome \in {"answered", "refused"} : B!Lan_Html(t, outcome)
BHealth ==
  /\ subject = "parameters" /\ UNCHANGED <<subject, vars, uvars>>
  /\ B!Get("Health_Monitor_Thread") \/ BAnswered("Health_Monitor_Thread")
BPages == subject = "parameters" /\ BAnswered("pages") /\ UNCHANGED <<subject, vars, uvars>>
MCFairSpec ==
  /\ MCSpec
  /\ WF_MCvars(QDrain) /\ WF_MCvars(QTime) /\ SF_MCvars(QAccepted)
  /\ WF_MCvars(UHealth) /\ WF_MCvars(UTime)
  /\ WF_MCvars(BHealth) /\ WF_MCvars(BPages)
-----------------------------------------------------------------------------
\* The properties about liveness, commented where they are stated, together; the others are
\* those of OtaQueue and AoaUplinks.
QueuesDrain == ResponsesDelivered /\ ConfigsApplied
HealthThreadSettles == U!WaitEnds /\ (subject = "parameters" => B!AnswersCatchUp)
=============================================================================
