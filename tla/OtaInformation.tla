--------------------------- MODULE OtaInformation ---------------------------
(***************************************************************************)
(* What a device tells of itself over LoRaWAN: Handle_Information_OTA of   *)
(* aoa/app/main.c and its reader in the generated decoder                  *)
(* (aoa/app/ota_translator.c).  If all of it fits a frame it is sent in    *)
(* one, with the lengths of its strings; if not, it is a text with commas, *)
(* of which every GET sends a page.  The text is built anew for each page: *)
(* the hours of uptime, the temperature and the restarts go on counting    *)
(* between them, and the text gets longer when a number does.              *)
(*                                                                         *)
(* A text is a sequence of characters; those of a field are told apart by  *)
(* the field, its value and their place in it.  Names hold no commas and   *)
(* no slashes.  A device sends a frame or the text, never both, so that    *)
(* the value of a number is the number as that form has it: a temperature  *)
(* in tenths of a degree in a frame and rounded to degrees in the text.    *)
(* Restarts beyond 65535, which a frame cuts to two bytes, and degrees     *)
(* below zero are left out.                                                *)
(*                                                                         *)
(* known is a history variable.                                            *)
(***************************************************************************)
EXTENDS Integers, FiniteSets, SequencesExt

CONSTANTS Facts,     \* what it may be like: a field is [value, length], in the order of the text
          MaxChanges \* bound: changes while an operator asks

OTA_MAX_BODY_SIZE == 47
max_chunk_length == 43

VARIABLES
  facts,   \* the device and the bridge as they are now
  answers, \* the answers to GET of each page, by number from 1
  known,   \* what was so since the first of them
  changes

vars == <<facts, answers, known, changes>>
-----------------------------------------------------------------------------
\* Of the camera: model, serial, firmware, uptime and version; of the bridge: hardware,
\* its version, firmware, power, temperature, restarts and address.
Fields(type) == IF type = "camera" THEN 5 ELSE 7
Numbers(type) == IF type = "camera" THEN {4} ELSE {5, 6}
Strings(type) == (1 .. Fields(type)) \ Numbers(type)
FixedLength(type) == IF type = "camera" THEN 10 ELSE 11

Characters(f, i) == [k \in 1 .. f.fields[i].length |-> <<i, f.fields[i].value, k>>]
Comma == <<0, 0, 0>>

\* How many characters come before a field, with the separator after every field but the last.
Before(f, i) ==
  LET with(j) == IF j < i THEN f.fields[j].length + 1 ELSE 0
  IN with(1) + with(2) + with(3) + with(4) + with(5) + with(6) + with(7)
TextLength(f) == Before(f, Fields(f.type) + 1) - 1

\* Build_Camera_Info, Build_Bridge_Info: the characters of the fields with their units, and
\* the separators, in a buffer of 256 with the zero at the end.
Info_Size == 256
Text(f) ==
  [k \in 1 .. IF TextLength(f) < Info_Size THEN TextLength(f) ELSE Info_Size - 1 |->
     LET i == CHOOSE i \in 1 .. Fields(f.type) : Before(f, i) < k /\ k <= Before(f, i + 1)
     IN IF k = Before(f, i + 1) THEN Comma ELSE Characters(f, i)[k - Before(f, i)]]

\* Names have a character or more, "?" if they are not known, and leave room in the buffer.
ConstantsAssumption ==
  /\ \A f \in Facts :
       /\ f.type \in {"camera", "bridge"} /\ DOMAIN f.fields = 1 .. Fields(f.type)
       /\ \A i \in DOMAIN f.fields : f.fields[i].length \in Nat \ {0}
       /\ TextLength(f) < Info_Size
  /\ MaxChanges \in Nat

\* Append_Information_String: is there room for all strings?
StructuredLength(f) ==
  FoldLeft(LAMBDA n, i : IF i \in Strings(f.type) THEN n + f.fields[i].length ELSE n,
           FixedLength(f.type), [i \in 1 .. Fields(f.type) |-> i])
OneTooLong(f) == StructuredLength(f) <= OTA_MAX_BODY_SIZE + 1
Fits(f) == StructuredLength(f) <= OTA_MAX_BODY_SIZE

PageCount(f) == (Len(Text(f)) + max_chunk_length - 1) \div max_chunk_length

\* A page of the text.  (Overlapping: it begins with the last character of the one before.)
To(text, page) ==
  IF (page + 1) * max_chunk_length > Len(text) THEN Len(text) ELSE (page + 1) * max_chunk_length
Overlapping(text, page) ==
  SubSeq(text, page * max_chunk_length + (IF page = 0 THEN 1 ELSE 0), To(text, page))
Chunk(text, page) == SubSeq(text, page * max_chunk_length + 1, To(text, page))

\* Handle_Information_OTA: <<>> if there is no such page.
Answer(f, page) ==
  IF Fits(f)
  THEN IF page # 0 THEN <<>> ELSE <<[structured |-> TRUE, length |-> StructuredLength(f), facts |-> f]>>
  ELSE IF page >= PageCount(f) THEN <<>>
       ELSE <<[structured |-> FALSE, length |-> 4 + Len(Chunk(Text(f), page)), page |-> page,
               pageCount |-> PageCount(f), text |-> Chunk(Text(f), page)]>>
-----------------------------------------------------------------------------
Init == facts \in Facts /\ answers = <<>> /\ known = {} /\ changes = 0

\* The operator asks for a page, and gets it, or is told that it does not exist.
Handle_Information_OTA(page) ==
  /\ page + 1 \notin DOMAIN answers /\ Answer(facts, page) # <<>>
  /\ answers' = [p \in DOMAIN answers \cup {page + 1} |->
                   IF p = page + 1 THEN Answer(facts, page)[1] ELSE answers[p]]
  /\ known' = known \cup {facts}
  /\ UNCHANGED <<facts, changes>>

\* An hour goes by, or the bridge gets warmer or restarts.
Change(later) ==
  /\ changes < MaxChanges
  /\ later # facts /\ later.type = facts.type
  /\ \A i \in Strings(facts.type) : later.fields[i] = facts.fields[i]
  /\ facts' = later /\ known' = IF answers = <<>> THEN {} ELSE known \cup {later}
  /\ changes' = changes + 1 /\ UNCHANGED answers

Next ==
  \/ \E page \in 0 .. 5 : Handle_Information_OTA(page)
  \/ \E later \in Facts : Change(later)

Spec == Init /\ [][Next]_vars
-----------------------------------------------------------------------------
\* parseInformation: the text between separators, as long as there are enough of them.
Separators(text) == {k \in DOMAIN text : text[k] = Comma}
Nth(set, n) == CHOOSE k \in set : Cardinality({j \in set : j <= k}) = n
Cut(text, n) ==
  IF n = 0 THEN 0
  ELSE IF n > Cardinality(Separators(text)) THEN Len(text) + 1 ELSE Nth(Separators(text), n)
Part(text, n) == SubSeq(text, Cut(text, n - 1) + 1, Cut(text, n) - 1)
parseInformation(type, text) ==
  IF Cardinality(Separators(text)) + 1 >= Fields(type)
  THEN [n \in 1 .. Fields(type) |-> Part(text, n)] ELSE <<>>

\* Decode: a structured answer by itself, or all pages of a text that agree how many.
Any_Count(pages) == TRUE
Same_Count(pages) == \A i \in DOMAIN pages : pages[i].pageCount = Len(pages)
Whole(pages) ==
  /\ \A i \in DOMAIN pages : ~pages[i].structured
  /\ \A i \in DOMAIN pages : pages[i].page = i - 1
  /\ Same_Count(pages)

Complete == answers # <<>> /\ DOMAIN answers = 1 .. Cardinality(DOMAIN answers)
Decode(type) ==
  IF Len(answers) = 1 /\ answers[1].structured
  THEN [i \in 1 .. Fields(type) |-> Characters(answers[1].facts, i)]
  ELSE IF Whole(answers)
       THEN parseInformation(type, FlattenSeq([i \in DOMAIN answers |-> answers[i].text]))
  ELSE <<>>
-----------------------------------------------------------------------------
TypeOK ==
  /\ facts \in Facts /\ known \subseteq Facts /\ changes \in 0 .. MaxChanges
  /\ DOMAIN answers \subseteq 1 .. 6

\* No answer is longer than a frame takes.
AnswersFit == \A i \in DOMAIN answers : answers[i].length <= OTA_MAX_BODY_SIZE

\* What is read in one answer was so when it was sent.  What is merged of several has
\* every name right, and every number of a time since the first page, unless a number got
\* longer or shorter between pages, or lies on two of them.
Straddles(f, i) ==
  Before(f, i) \div max_chunk_length
    # (Before(f, i) + f.fields[i].length - 1) \div max_chunk_length
ToldAsItIs ==
  (Complete /\ Decode(facts.type) # <<>>) =>
    LET told == Decode(facts.type)
        steady == \A f, g \in known : \A i \in DOMAIN f.fields : f.fields[i].length = g.fields[i].length
    IN /\ Len(answers) = 1 => \E f \in known : told = [i \in DOMAIN told |-> Characters(f, i)]
       /\ steady => \A i \in 1 .. Fields(facts.type) :
                      Straddles(facts, i) \/ \E f \in known : told[i] = Characters(f, i)
       /\ Cardinality(known) = 1 => told = [i \in DOMAIN told |-> Characters(facts, i)]

\* Whoever asks for all pages while nothing changes is told.
AlwaysTold ==
  /\ Cardinality(known) = 1
  /\ Complete /\ (Fits(facts) \/ Len(answers) = PageCount(facts))
  => Decode(facts.type) # <<>>

InformationTold == AnswersFit /\ ToldAsItIs /\ AlwaysTold
=============================================================================
