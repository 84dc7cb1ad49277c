----------------------------- MODULE OtaFrames ------------------------------
(***************************************************************************)
(* The frames in which aoa is asked and answers, OtaTranslator, and those  *)
(* in which it tells of itself, OtaInformation, side by side: they share   *)
(* no state.                                                               *)
(***************************************************************************)
EXTENDS Integers, Sequences

CONSTANTS
  OtaRequest, OtaStored, MaxEdits, \* of OtaTranslator
  DeviceFacts, MaxFactChanges      \* of OtaInformation

VARIABLES
  message, received, page_refused, port, stored, answers, known, edits,
  facts, told, facts_known, facts_changes

T == INSTANCE OtaTranslator WITH
  Request <- OtaRequest, Stored <- OtaStored, refused <- page_refused
I == INSTANCE OtaInformation WITH
  Facts <- DeviceFacts, MaxChanges <- MaxFactChanges,
  answers <- told, known <- facts_known, changes <- facts_changes

tvars == <<message, received, page_refused, port, stored, answers, known, edits>>
ivars == <<facts, told, facts_known, facts_changes>>
-----------------------------------------------------------------------------
\* What encoder, app and decoder make of each other's frames, and what a device tells of
\* itself in pages (ota_translator.c, aoa/app/main.c), commented where it is stated; with
\* the types.
FramesRead ==
  /\ T!TypeOK /\ T!FramesUnderstood
  /\ I!TypeOK /\ I!InformationTold
=============================================================================
