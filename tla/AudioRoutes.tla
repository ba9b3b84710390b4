----------------------------- MODULE AudioRoutes -----------------------------
(***************************************************************************)
(* A recording served to the browser: by /api/audio from the archive, in   *)
(* ranges, and by /api/node-audio from the node that made it, with the     *)
(* archive in its place when the node does not answer.                     *)
(*                                                                         *)
(* Bytes are their positions.  The time limit of the request to the node   *)
(* goes on while its answer is passed through.                             *)
(***************************************************************************)
EXTENDS Integers, FiniteSets

CONSTANT MaxBytes  \* bound: size of a recording, and of the numbers of a range

VARIABLES
    size,      \* bytes of the recording
    archived,  \* what the archive has of it: no row, a row, or row and file
    request,   \* the route, and the two numbers of its range
    serving,   \* how far the request is
    passed,    \* bytes of the node's answer passed through
    response   \* status, bytes and Content-Length

audioVars == <<size, archived, request, serving, passed, response>>
Rests == UNCHANGED audioVars

-----------------------------------------------------------------------------
Number == 0 .. MaxBytes
Absent == {}
Optional == {Absent} \union {{n} : n \in Number}
All == {p \in Number : p < size}
NoRequest == [route |-> "none", first |-> Absent, last |-> Absent]
NoResponse == [status |-> 0, bytes |-> {}, length |-> 0]

AudioTypeOK ==
    /\ size \in Number /\ archived \in {"no", "row", "file"}
    /\ request \in [route : {"none", "audio", "range", "node"},
                    first : Optional, last : Optional]
    /\ serving \in {"none", "upstream", "body", "over"} /\ passed \in 0 .. size
    /\ response.status \in {0, 200, 206, 404, 416} /\ response.bytes \subseteq Number
    /\ response.length \in 0 .. size

Init ==
    /\ size \in Number /\ archived \in {"no", "row", "file"}
    /\ request = NoRequest /\ serving = "none" /\ passed = 0
    /\ response = NoResponse

-----------------------------------------------------------------------------
Answer(status, bytes) ==
    response' = [status |-> status, bytes |-> bytes, length |-> Cardinality(bytes)]

(* getAudioAsset has no row; readFile does not find the file of the row. *)
NotFound == archived = "no" /\ Answer(404, {})
FileMissing == archived = "row" /\ Answer(404, {})

(* What getAudioAsset and readFile give: the whole file. *)
Whole(status) ==
    NotFound \/ FileMissing \/ (archived = "file" /\ Answer(status, All))

Given(number, default) == IF number = Absent THEN default ELSE CHOOSE n \in number : TRUE
Start == Given(request.first, 0)

\* Mutant: the end is not cut to the file.
End_Uncut == Given(request.last, size - 1)

End ==
    LET last == Given(request.last, size - 1) IN
    IF last < size - 1 THEN last ELSE size - 1

(* GET /api/audio/:id, without a range that it understands. *)
GetAudio ==
    /\ serving = "none" /\ serving' = "over"
    /\ request' = [NoRequest EXCEPT !.route = "audio"]
    /\ Whole(200)
    /\ UNCHANGED <<size, archived, passed>>

AskRange(first, last) ==
    /\ serving = "none" /\ serving' = "upstream"
    /\ request' = [route |-> "range", first |-> first, last |-> last]
    /\ UNCHANGED <<size, archived, passed, response>>

(* The same with bytes=first-last, either of which may be left out. *)
GetRange ==
    /\ request.route = "range" /\ serving = "upstream" /\ serving' = "over"
    /\ \/ NotFound \/ FileMissing
       \/ archived = "file" /\ (Start >= size \/ Start > End) /\ Answer(416, {})
       \/ archived = "file" /\ Start < size /\ Start <= End /\ Answer(206, Start .. End)
    /\ UNCHANGED <<size, archived, request, passed>>

(* GET /api/node-audio: the node is asked first. *)
AskNodeAudio ==
    /\ serving = "none" /\ serving' = "upstream"
    /\ request' = [NoRequest EXCEPT !.route = "node"]
    /\ UNCHANGED <<size, archived, passed, response>>

(* The node answers; its headers are passed on at once. *)
NodeAudioBegins ==
    /\ request.route = "node" /\ serving = "upstream" /\ serving' = "body"
    /\ response' = [status |-> 200, bytes |-> {}, length |-> size]
    /\ UNCHANGED <<size, archived, request, passed>>

(* A byte of the body. *)
NodeAudioFlows ==
    /\ serving = "body" /\ passed < size /\ passed' = passed + 1
    /\ response' = [response EXCEPT !.bytes = @ \union {passed}]
    /\ UNCHANGED <<size, archived, request, serving>>

(* The body has ended, or the time is up: the response breaks off. *)
NodeAudioEnds ==
    /\ serving = "body" /\ serving' = "over"
    /\ UNCHANGED <<size, archived, request, passed, response>>

\* Mutant: the archive is not asked.
NodeAudioFails_NoArchive ==
    /\ request.route = "node" /\ serving = "upstream" /\ serving' = "over"
    /\ Answer(404, {})
    /\ UNCHANGED <<size, archived, request, passed>>

(* No address, an error or the time limit before the headers. *)
NodeAudioFails ==
    /\ request.route = "node" /\ serving = "upstream" /\ serving' = "over"
    /\ Whole(200)
    /\ UNCHANGED <<size, archived, request, passed>>

(* The collector archives the recording, its file before its row; of       *)
(* interest while a request is under way.                                  *)
RecordingArchived ==
    /\ serving # "over" /\ archived = "no" /\ archived' = "file"
    /\ UNCHANGED <<size, request, serving, passed, response>>

(* The file is taken away, by other hands, and its row stays. *)
FileLost ==
    /\ serving # "over" /\ archived = "file" /\ archived' = "row"
    /\ UNCHANGED <<size, request, serving, passed, response>>

Next ==
    \/ GetAudio \/ GetRange \/ AskNodeAudio \/ NodeAudioBegins
    \/ NodeAudioFlows \/ NodeAudioEnds \/ NodeAudioFails \/ RecordingArchived \/ FileLost
    \/ \E first, last \in Optional : AskRange(first, last)

Spec == Init /\ [][Next]_audioVars

-----------------------------------------------------------------------------
(* A range is answered with the bytes of the file that lie in it, or with  *)
(* 416 when there are none; a recording is missing only when neither the   *)
(* node nor the archive, row and file, had it; and a response breaks off   *)
(* only while the node's answer is passed through.  The exception is a     *)
(* range with only a last number: the code reads it as "up to", HTTP as    *)
(* "the last so many".                                                     *)
ServedIsAsked ==
    serving = "over" =>
        /\ response.status = 404 => archived # "file"
        /\ request.route = "range" /\ archived = "file"
           /\ (request.first = Absent => request.last = Absent)
           => /\ response.bytes = {p \in All : /\ \A n \in request.first : n <= p
                                              /\ \A n \in request.last : p <= n}
              /\ response.status = IF response.bytes = {} THEN 416 ELSE 206
        /\ Cardinality(response.bytes) < response.length =>
              request.route = "node" /\ passed < size
        /\ response.bytes \subseteq All
===============================================================================
