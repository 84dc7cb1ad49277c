--------------------------- MODULE OtaTranslator ---------------------------
(***************************************************************************)
(* Three readers and writers of the same bytes: the encoder and decoder    *)
(* that the app generates in JavaScript for the operator's network server  *)
(* (aoa/app/ota_translator.c), and the app itself (aoa/app/ota_scene.c,    *)
(* ota_protocol.c, and the handlers of aoa/app/main.c).                    *)
(*                                                                         *)
(* An operator asks for something, the encoder makes frames of it, the app *)
(* takes them in any order and puts it into effect; the operator gets it   *)
(* back in pages, which the decoder merges.  Scenes may change between two *)
(* pages.  Older senders use config version 1.  A frame is its command,    *)
(* port and body; that it fits 51 bytes with its overhead is part of the   *)
(* model, its CRC, with no bytes damaged, is not.  Transfers that fail or  *)
(* meet others are those of OtaScene.                                      *)
(*                                                                         *)
(* known is a history variable.                                            *)
(***************************************************************************)
EXTENDS Integers, FiniteSets, SequencesExt

CONSTANTS Request,  \* [sender, port, config]: what operators ask for
          Stored,   \* per port: what may be there, as the app is asked and as users change it
          MaxEdits  \* bound: changes by users

OTA_MAX_BODY_SIZE == 47
Scenes == {131, 132, 133}

VARIABLES
  message,  \* the request on its way: <<>> or <<request>>
  received, \* its pages that the app has taken, as the app read them
  refused,  \* the app has refused one
  port,     \* the port that all this is about
  stored,   \* what the app has at that port
  answers,  \* pages of GET, by number
  known,    \* what was stored since the first of them
  edits

vars == <<message, received, refused, port, stored, answers, known, edits>>
-----------------------------------------------------------------------------
\* byte and bit layout, the same in C and JavaScript.
Ceiling(a, b) == (a + b - 1) \div b
Low(n) == n % 256
High(n) == (n \div 256) % 256
U16(n) == <<Low(n), High(n)>>
Read_U16(body, offset) == body[offset + 1] + 256 * body[offset + 2]
Signed(n) == IF n >= 32768 THEN n - 65536 ELSE n
Bit(mask, i) == (mask \div 2 ^ i) % 2 = 1
Classes(mask) == {i \in 0 .. 5 : Bit(mask, i)}
Mask(classes) ==
  LET bit(i) == IF i \in classes THEN 2 ^ i ELSE 0
  IN bit(0) + bit(1) + bit(2) + bit(3) + bit(4) + bit(5)

\* lround(a / b) for a positive b.
Rounded_Down(a, b) == a \div b
Rounded(a, b) == IF a >= 0 THEN (2 * a + b) \div (2 * b) ELSE -((b - 2 * a) \div (2 * b))

Encode_Truncated(q) == Rounded_Down((q + 32767) * 500, 32767)

\* AOA's coordinates from -1 to 1 are counted in 32767ths, as in Q15.
Integer_Coordinate_To_Q15(n) == Rounded((n - 500) * 32767, 500)
Encode_Integer_Coordinate(q) == Rounded((q + 32767) * 500, 32767)

Write_Integer_Point(x, y) ==
  LET packed == x + 1024 * y
  IN <<packed % 256, (packed \div 256) % 256, (packed \div 65536) % 16>>
Read_Integer_Point(body, offset) ==
  LET packed == Read_U16(body, offset) + 65536 * body[offset + 3]
  IN <<packed % 1024, packed \div 1024>>
-----------------------------------------------------------------------------
\* Use cases, the bridge's parameters, actions, and what the device tells of itself.
\* encodeSceneSet: the fields of a scene.
Fields(p, c) ==
  CASE p = 131 -> <<IF c.rightToLeft THEN 1 ELSE 0, Mask(c.classes), 0>>
    [] p = 132 -> <<Mask(c.classes), c.value, 0>>
    [] p = 133 -> <<Mask(c.classes), c.threshold, Low(c.delay), High(c.delay),
                    IF c.schedule[1] THEN 1 ELSE 0, Low(c.schedule[2]), High(c.schedule[2]),
                    Low(c.schedule[3]), High(c.schedule[3])>>

\* What an older sender puts there, which knew no schedules.
Legacy_Fields(p, c) == SubSeq(Fields(p, c), 1, IF p = 133 THEN 4 ELSE 3)

Point(version, q) ==
  IF version = 2 THEN Write_Integer_Point(q[1], q[2])
  ELSE U16(Integer_Coordinate_To_Q15(q[1]) % 65536)
       \o U16(Integer_Coordinate_To_Q15(q[2]) % 65536)
Coordinate_Bytes(version) == IF version = 2 THEN 3 ELSE 4

Static_Field_Length(p) == IF p = 133 THEN 9 ELSE 3
Legacy_Static_Field_Length(p) == IF p = 133 THEN 4 ELSE 3
Points_Per_Page(length, version) ==
  (OTA_MAX_BODY_SIZE - 13 - length) \div Coordinate_Bytes(version)
Pages(total, length, version) == Ceiling(total, Points_Per_Page(length, version))
Count(total, page, per) == IF total - page * per > per THEN per ELSE total - page * per

\* The bytes of so many corners, after so many others.
Corner_Bytes(version, points, start, count) ==
  LET size == Coordinate_Bytes(version)
  IN [k \in 1 .. count * size |->
        Point(version, points[start + 1 + (k - 1) \div size])[1 + ((k - 1) % size)]]

\* A page: config version, which scene (its number, id and fingerprints, all the same
\* here), which page of how many, which corners of how many, the fields and the corners.
Page(version, fields, points, page) ==
  LET per == Points_Per_Page(Len(fields), version)
      count == Count(Len(points), page, per)
  IN <<version, 1, 1, 0, 1, 0, 1, 0, page, Pages(Len(points), Len(fields), version),
       page * per, count, Len(points)>> \o fields
     \o Corner_Bytes(version, points, page * per, count)

\* Encode: the frames for a request, page 0 first.
encodeSceneSet(request) ==
  LET version == IF request.sender = "encoder" THEN 2 ELSE 1
      fields == IF request.sender = "encoder" THEN Fields(request.port, request.config)
                ELSE Legacy_Fields(request.port, request.config)
      points == request.config.points
  IN [i \in 1 .. Pages(Len(points), Len(fields), version) |->
        Page(version, fields, points, i - 1)]

Bridge_Frame(c) ==
  <<(IF c.dataRate # <<>> THEN 1 ELSE 0) + (IF c.adr # <<>> THEN 2 ELSE 0),
    IF c.dataRate # <<>> THEN c.dataRate[1] ELSE 0, IF c.adr = <<TRUE>> THEN 1 ELSE 0>>
Transmission_Frame(c) ==
  <<c.useCase, IF c.enabled THEN 1 ELSE 0>> \o (IF c.useCase = 3 THEN <<>> ELSE <<c.interval>>)

Encode(request) ==
  LET c == request.config
  IN CASE request.port \in Scenes -> encodeSceneSet(request)
       [] request.port = 100 -> << <<c.action>> >>
       [] request.port = 110 -> <<Bridge_Frame(c)>>
       [] request.port = 130 -> <<Transmission_Frame(c)>>

-----------------------------------------------------------------------------
\* The app.  An area of presence has nine bytes of fields, or the four of an older sender.
NewOnly(p) == {Static_Field_Length(p)}
Tried(p) == {Static_Field_Length(p), Legacy_Static_Field_Length(p)}
Expected(body, length) ==
  LET per == Points_Per_Page(length, body[1])
  IN /\ body[10] = Pages(body[13], length, body[1]) /\ body[9] < body[10]
     /\ body[11] = body[9] * per /\ body[12] = Count(body[13], body[9], per)
     /\ Len(body) = 13 + length + body[12] * Coordinate_Bytes(body[1])

Ranges(p, body, length) ==
  CASE p = 131 -> body[14] <= 1 /\ body[15] <= 63 /\ body[16] = 0
    [] p = 132 -> body[14] <= 63 /\ body[15] <= 2 /\ body[16] = 0
    [] p = 133 -> /\ body[14] \in 1 .. 63 /\ body[15] \in 1 .. 101 /\ Read_U16(body, 15) <= 7200
                  /\ length = 9 => /\ body[18] <= 1
                                   /\ Read_U16(body, 18) <= 1439 /\ Read_U16(body, 20) <= 1439

Static_Length(p, body) ==
  CHOOSE length \in Tried(p) :
    /\ Expected(body, length)
    /\ \A other \in Tried(p) : Expected(body, other) => other <= length

Read_Points(body, length) ==
  [i \in 1 .. body[12] |->
     LET offset == 13 + length + (i - 1) * Coordinate_Bytes(body[1])
         integer == Read_Integer_Point(body, offset)
     IN IF body[1] = 2
        THEN <<Integer_Coordinate_To_Q15(integer[1]), Integer_Coordinate_To_Q15(integer[2])>>
        ELSE <<Signed(Read_U16(body, offset)), Signed(Read_U16(body, offset + 2))>>]

Valid_Set_Page(p, body) ==
  /\ Len(body) >= 13 + Static_Field_Length(p)
  /\ body[1] \in {1, 2} /\ body[13] \in (IF p = 131 THEN 2 ELSE 3) .. 10
  /\ \E length \in Tried(p) : Expected(body, length)
  /\ Ranges(p, body, Static_Length(p, body))
  /\ body[1] = 2 =>
       \A i \in 1 .. body[12] :
         LET point == Read_Integer_Point(body, 13 + Static_Length(p, body) + (i - 1) * 3)
         IN point[1] <= 1000 /\ point[2] <= 1000

\* Ensure_Presence_Schedule_Defaults: not enabled, 18:00 to 06:00.
Schedule_Zero(f) == IF Len(f) = 4 THEN f \o <<0, 0, 0, 0, 0>> ELSE f
Ensure_Presence_Schedule_Defaults(f) ==
  IF Len(f) = 4 THEN f \o <<0, Low(1080), High(1080), Low(360), High(360)>> ELSE f

\* Apply_Pending: what a scene is like with these fields and corners.
Applied(p, body, points) ==
  LET length == Static_Length(p, body)
      f == Ensure_Presence_Schedule_Defaults([i \in 1 .. length |-> body[13 + i]])
  IN CASE p = 131 -> [rightToLeft |-> f[1] = 1, classes |-> Classes(f[2]), points |-> points]
       [] p = 132 -> [classes |-> Classes(f[1]), value |-> f[2], points |-> points]
       [] p = 133 -> [classes |-> Classes(f[1]), threshold |-> f[2], delay |-> Read_U16(f, 2),
                      schedule |-> <<f[5] = 1, Read_U16(f, 5), Read_U16(f, 7)>>,
                      points |-> points]

\* Ports of one frame: is it accepted, and what does it make of what is there?
Handle_Action_OTA(body) == Len(body) = 1 /\ body[1] \in {1, 2}
Handle_Bridge_Config_OTA(body) ==
  Len(body) = 3 /\ body[1] \in 1 .. 3 /\ body[3] <= 1 /\ (Bit(body[1], 0) => body[2] <= 5)
Handle_Transmission_OTA(body) ==
  /\ Len(body) >= 2 /\ body[1] \in 1 .. 3 /\ Len(body) = (IF body[1] = 3 THEN 2 ELSE 3)
  /\ body[2] <= 1 /\ (body[1] # 3 => body[3] \in 1 .. 60)

Accepted(p, body) ==
  CASE p \in Scenes -> Valid_Set_Page(p, body)
    [] p = 100 -> Handle_Action_OTA(body)
    [] p = 110 -> Handle_Bridge_Config_OTA(body)
    [] p = 130 -> Handle_Transmission_OTA(body)

Changed(body, before) ==
  [dataRate |-> IF Bit(body[1], 0) THEN body[2] ELSE before.dataRate,
   adr |-> IF Bit(body[1], 1) THEN body[3] = 1 ELSE before.adr]
Effect(p, body, before) ==
  CASE p = 100 -> [action |-> body[1]]
    [] p = 110 -> Changed(body, before)
    [] p = 130 -> [useCase |-> body[1], enabled |-> body[2] = 1,
                   interval |-> IF body[1] = 3 THEN 0 ELSE body[3]]

\* Build_Config_Page and the answers to GET of the ports of one frame.
Shown(points) ==
  [i \in DOMAIN points |->
     <<Encode_Integer_Coordinate(points[i][1]), Encode_Integer_Coordinate(points[i][2])>>]
Bridge_Answer(c) == <<3, c.dataRate, IF c.adr THEN 1 ELSE 0>>
Answer_Pages(p, c) ==
  IF p \in Scenes THEN Pages(Len(c.points), Static_Field_Length(p), 2) ELSE 1
Build_Config_Page(p, c, page) ==
  CASE p \in Scenes -> Page(2, Fields(p, c), Shown(c.points), page)
    [] p = 110 -> Bridge_Answer(c)
    [] p = 130 -> Transmission_Frame(c)
-----------------------------------------------------------------------------
\* The decoder.  It tells by the length of a page whether it has a schedule.
Field_Length(p, body) ==
  IF p # 133 THEN 3
  ELSE IF body[1] = 2 /\ Len(body) >= 22 + 3 * body[12] THEN 9 ELSE 4

Coordinate(version, value) ==
  IF version = 2 THEN value ELSE Rounded((Signed(value) + 32767) * 500, 32767)
Decoded_Points(body, length) ==
  [i \in 1 .. body[12] |->
     LET offset == 13 + length + (i - 1) * Coordinate_Bytes(body[1])
         integer == Read_Integer_Point(body, offset)
     IN IF body[1] = 2 THEN <<Coordinate(2, integer[1]), Coordinate(2, integer[2])>>
        ELSE <<Coordinate(1, Read_U16(body, offset)), Coordinate(1, Read_U16(body, offset + 2))>>]

\* A page, and what is merged of pages, that says nothing.
Mismatched == [config |-> <<>>]

\* parseFrame: a SET or a GET response, <<>> for its config if it is refused.
parseFrame(p, body) ==
  LET length == Field_Length(p, body)
      points == Decoded_Points(body, length)
      config ==
        CASE p = 131 -> [rightToLeft |-> body[14] # 0, classes |-> Classes(body[15]),
                         points |-> points]
          [] p = 132 -> [classes |-> Classes(body[14]), value |-> body[15], points |-> points]
          [] p = 133 -> [classes |-> Classes(body[14]), threshold |-> body[15],
                         delay |-> Read_U16(body, 15),
                         schedule |-> IF length = 9
                                      THEN <<body[18] # 0, Read_U16(body, 18), Read_U16(body, 20)>>
                                      ELSE <<FALSE, 1080, 360>>,
                         points |-> points]
          [] p = 100 -> [action |-> body[1]]
          [] p = 110 -> [dataRate |-> IF Bit(body[1], 0) THEN <<body[2]>> ELSE <<>>,
                         adr |-> IF Bit(body[1], 1) THEN <<body[3] # 0>> ELSE <<>>]
          [] p = 130 -> [useCase |-> body[1], enabled |-> body[2] # 0,
                         interval |-> IF body[1] = 3 THEN 0 ELSE body[3]]
  IN IF p \notin Scenes THEN [config |-> config]
     ELSE IF /\ Len(body) = 13 + length + body[12] * Coordinate_Bytes(body[1])
             /\ length = 9 => Read_U16(body, 18) <= 1439 /\ Read_U16(body, 20) <= 1439
          THEN [config |-> config, page |-> body[9], pageCount |-> body[10],
                pointStart |-> body[11], total |-> body[13]]
          ELSE Mismatched

\* Scene pages in the order of their numbers, with the same fields.
AnyFields(item, first) == TRUE
Same_Fields(item, first) ==
  [item.config EXCEPT !.points = <<>>] = [first.config EXCEPT !.points = <<>>]
Merge(items) ==
  LET first == items[1]
      Upto(i) == FlattenSeq([j \in 1 .. i |-> items[j].config.points])
      points == Upto(Len(items))
  IN IF /\ Len(items) = first.pageCount /\ Len(points) = first.total
        /\ \A i \in DOMAIN items :
             /\ items[i].page = i - 1 /\ items[i].pageCount = first.pageCount
             /\ items[i].pointStart = Len(Upto(i - 1)) /\ Same_Fields(items[i], first)
     THEN [first.config EXCEPT !.points = points] ELSE <<>>

Decode(p, bodies) ==
  LET items == [i \in DOMAIN bodies |-> parseFrame(p, bodies[i])]
  IN IF \E i \in DOMAIN items : items[i] = Mismatched THEN <<>>
     ELSE IF Len(items) = 1 THEN items[1].config ELSE Merge(items)
-----------------------------------------------------------------------------
Init ==
  /\ message = <<>> /\ received = <<>> /\ refused = FALSE
  /\ port \in DOMAIN Stored /\ stored \in Stored[port]
  /\ answers = <<>> /\ known = {} /\ edits = 0

Frames == Encode(message[1])
With(pages, number, page) ==
  [i \in DOMAIN pages \cup {number} |-> IF i = number THEN page ELSE pages[i]]
All_Received == message # <<>> /\ DOMAIN received = DOMAIN Frames
Seen(version) == IF answers = <<>> THEN {} ELSE known \cup {version}

\* The operator asks for a setting, which goes out in frames.
Ask(request) ==
  /\ message = <<>> /\ request.port = port
  /\ port = 130 => request.config.useCase = stored.useCase
  /\ message' = <<request>>
  /\ UNCHANGED <<received, refused, port, stored, answers, known, edits>>

\* OTA_Scene_Handle: a page of it comes in; the last one of them puts all into effect.
Page_Received(page) ==
  /\ message # <<>> /\ ~refused /\ page \in DOMAIN Frames \ DOMAIN received
  /\ LET body == Frames[page]
         length == Static_Length(port, body)
         all == With(received, page, IF port \in Scenes THEN Read_Points(body, length) ELSE <<>>)
         points == FlattenSeq([i \in 1 .. Cardinality(DOMAIN all) |-> all[i]])
     IN IF ~Accepted(port, body) THEN refused' = TRUE /\ UNCHANGED <<received, stored>>
        ELSE /\ received' = all
             /\ stored' = IF DOMAIN all # DOMAIN Frames THEN stored
                          ELSE IF port \in Scenes THEN Applied(port, body, points)
                          ELSE Effect(port, body, stored)
             /\ UNCHANGED refused
  /\ known' = Seen(stored')
  /\ UNCHANGED <<message, port, answers, edits>>

\* The operator asks for what is there now, page by page.
Get(page) ==
  /\ port # 100 /\ page \notin DOMAIN answers /\ page \in 1 .. Answer_Pages(port, stored)
  /\ answers' = With(answers, page, Build_Config_Page(port, stored, page - 1))
  /\ known' = known \cup {stored}
  /\ UNCHANGED <<message, received, refused, port, stored, edits>>

\* Somebody changes it in AOA, at the bridge or on the web page.
Edit(version) ==
  /\ edits < MaxEdits /\ version \in Stored[port] \ {stored} /\ port # 100
  /\ port = 130 => version.useCase = stored.useCase
  /\ stored' = version /\ known' = Seen(version)
  /\ IF All_Received THEN message' = <<>> /\ received' = <<>>
     ELSE UNCHANGED <<message, received>>
  /\ edits' = edits + 1
  /\ UNCHANGED <<refused, port, answers>>

Next ==
  \/ \E request \in Request : Ask(request)
  \/ \E page \in 1 .. 2 : Page_Received(page) \/ Get(page)
  \/ \E version \in UNION {Stored[p] : p \in DOMAIN Stored} : Edit(version)

Spec == Init /\ [][Next]_vars
-----------------------------------------------------------------------------
\* Coordinates in thousandths, and as AOA has them; what two bytes hold; times of day
\* and delays, in tenths of a second.
Thousandth == 0 .. 1000
Vertex == {q \in Int : -32767 <= q /\ q <= 32767}
Word == {n \in Nat : n <= 65535}
Minute == 0 .. 1439
Delay == 0 .. 7200

\* Scenes of so many corners with coordinates on these sides.
Corners(p, side) ==
  {points \in Seq(side \X side) : Len(points) \in (IF p = 131 THEN 2 ELSE 3) .. 10}
Scene(p, side, thresholds, delays) ==
  CASE p = 131 -> [rightToLeft : BOOLEAN, classes : SUBSET (0 .. 5), points : Corners(p, side)]
    [] p = 132 -> [classes : SUBSET (0 .. 5), value : 0 .. 2, points : Corners(p, side)]
    [] p = 133 -> [classes : SUBSET (0 .. 5), threshold : thresholds, delay : delays,
                   schedule : BOOLEAN \X Minute \X Minute, points : Corners(p, side)]
Streams == {c \in [useCase : 1 .. 3, enabled : BOOLEAN, interval : 0 .. 60] :
              c.interval = 0 <=> c.useCase = 3}

\* The ranges that are documented for a request, and what may be found at a port.
Documented_Scenes(p) ==
  {c \in Scene(p, Thousandth, 1 .. 101, Delay) : p = 133 => c.classes # {}}
Documented_Bridge ==
  [dataRate : {<<>>} \cup {<<rate>> : rate \in 0 .. 5}, adr : {<<>>, <<TRUE>>, <<FALSE>>}]
    \ {[dataRate |-> <<>>, adr |-> <<>>]}
Documented(p) ==
  CASE p \in Scenes -> Documented_Scenes(p)
    [] p = 100 -> [action : {1, 2}]
    [] p = 110 -> Documented_Bridge
    [] p = 130 -> Streams
Bridge_Version == [dataRate : 0 .. 255, adr : BOOLEAN]
Version(p) ==
  CASE p \in Scenes -> Scene(p, Vertex, 0 .. 255, Word)
    [] p = 100 -> [action : 0 .. 2]
    [] p = 110 -> Bridge_Version
    [] p = 130 -> Streams

ConstantsAssumption ==
  /\ \A request \in Request :
       /\ request.port \in DOMAIN Stored /\ request.config \in Documented(request.port)
       /\ request.sender = "encoder" \/ (request.sender = "older" /\ request.port \in Scenes)
  /\ \A p \in DOMAIN Stored : p \in Scenes \cup {100, 110, 130} /\ Stored[p] \subseteq Version(p)
  /\ MaxEdits \in Nat

TypeOK ==
  /\ message = <<>> \/ \E request \in Request : message = <<request>>
  /\ port \in DOMAIN Stored /\ stored \in Version(port) /\ known \subseteq Version(port)
  /\ refused \in BOOLEAN /\ edits \in 0 .. MaxEdits

\* What the bytes of a scene can say of a version of it: coordinates in thousandths.
Readable(version) ==
  IF port \in Scenes THEN [version EXCEPT !.points = Shown(version.points)]
  ELSE IF port = 110 THEN [dataRate |-> <<version.dataRate>>, adr |-> <<version.adr>>]
  ELSE version

\* What a request asks for, when applied to what is there.
As_Sent(c) ==
  [c EXCEPT !.points =
     [i \in DOMAIN c.points |-> <<Integer_Coordinate_To_Q15(c.points[i][1]),
                                  Integer_Coordinate_To_Q15(c.points[i][2])>>]]
Asked ==
  IF port = 133 /\ message[1].sender = "older"
  THEN [As_Sent(message[1].config) EXCEPT !.schedule = <<FALSE, 1080, 360>>]
  ELSE As_Sent(message[1].config)

\* What all frames of a request have put into effect is what the operator wrote: no field
\* or corner is lost or moved on its way through the encoder, a page, the app and the
\* order in which pages came, and what the request left out is as it was.
TakenAsMeant ==
  All_Received =>
    CASE port \in Scenes -> stored = Asked
      [] port = 110 -> /\ message[1].config.dataRate \in {<<>>, <<stored.dataRate>>}
                       /\ message[1].config.adr \in {<<>>, <<stored.adr>>}
      [] OTHER -> stored = message[1].config

\* No request within the documented ranges is refused, but one page of an older sender:
\* too short for the first test of the app, which knows the new fields only.
NothingRefused ==
  refused => \E page \in DOMAIN Frames : Len(Frames[page]) < 13 + Static_Field_Length(port)

\* Every frame fits a downlink, and the decoder reads from a SET what the encoder was
\* told; an older sender's schedule is the default that the app takes it for.
EncoderDecoded ==
  message # <<>> =>
    /\ \A page \in DOMAIN Frames : Len(Frames[page]) <= OTA_MAX_BODY_SIZE
    /\ Decode(port, Frames) =
         IF port = 133 /\ message[1].sender = "older"
         THEN [message[1].config EXCEPT !.schedule = <<FALSE, 1080, 360>>]
         ELSE message[1].config

\* Pages of GET merge to a version that was there, or to nothing: corners of two versions
\* may meet in one answer only where both have the same fields and as many corners, which
\* nothing on the pages tells apart.
Answered ==
  (answers # <<>> /\ DOMAIN answers = 1 .. Cardinality(DOMAIN answers)) =>
    LET decoded == Decode(port, answers)
    IN decoded # <<>> /\ (port \in Scenes => Len(answers) = answers[1][10]) =>
         IF port \in Scenes
         THEN \A i \in DOMAIN decoded.points :
                \E version \in known :
                  /\ Len(version.points) = Len(decoded.points)
                  /\ [decoded EXCEPT !.points = Readable(version).points] = Readable(version)
                  /\ decoded.points[i] = Readable(version).points[i]
         ELSE \E version \in known : decoded = Readable(version)

\* Sending back what was read moves no corner by more than half a thousandth, however
\* often it is done.
ReadBackStays ==
  port \in Scenes =>
    \A i \in DOMAIN stored.points :
      \A axis \in {1, 2} :
        LET q == stored.points[i][axis]
            again == Integer_Coordinate_To_Q15(Encode_Integer_Coordinate(q))
        IN /\ 1000 * (again - q) <= 32767 + 500 /\ 1000 * (q - again) <= 32767 + 500
           /\ Integer_Coordinate_To_Q15(Encode_Integer_Coordinate(again)) = again

FramesUnderstood ==
  TakenAsMeant /\ NothingRefused /\ EncoderDecoded /\ Answered /\ ReadBackStays
=============================================================================
