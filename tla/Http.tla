-------------------------------- MODULE Http --------------------------------
(***************************************************************************)
(* Http11Get: the request it builds (src/load/http.cpp), and the framing   *)
(* of the responses perform_request reads for it (src/load/http11_get.cpp),*)
(* over every way a response can be cut into reads.                        *)
(*                                                                         *)
(* Text is a sequence of pieces: a CR, an LF, a status line, a header line *)
(* up to its end, or another byte.  A head is looked at only when it is    *)
(* whole, so a cut inside a line is no different from one before it, while *)
(* a cut inside the blank line is.  Lengths count pieces.                  *)
(***************************************************************************)
EXTENDS Accounts, Sequences, SequencesExt

CONSTANTS
  Places,     \* the pairs of host and path the generator may be asked for
  Responses,  \* what the target may answer a request with
  MaxHead,    \* kMaxHeaderBytes
  Chunk,      \* what one read takes at most
  SizeMax,    \* the largest size_t, and uint64_t
  Requests    \* bound: requests made

(* The limit on a head leaves room for a read below the largest size_t.     *)
ASSUME SizesAssumption ==
  /\ MaxHead \in Nat /\ Chunk \in Nat \ {0} /\ SizeMax \in Nat \ 0 .. 9
  /\ MaxHead + Chunk <= SizeMax
ASSUME RequestsAssumption == Requests \in Nat

-----------------------------------------------------------------------------
(* Text.                                                                    *)

Cr == [kind |-> "cr"]
Lf == [kind |-> "lf"]
CrLf == <<Cr, Lf>>
Byte == [kind |-> "byte"]
Slash == [kind |-> "slash"]
NotADigit == 10
StatusLine(version, digits) ==
  [kind |-> "status", version |-> version, digits |-> digits]
Field(name, value) == [kind |-> "field", name |-> name, value |-> value]

Filler == Field("other", <<>>)  \* a header line that says nothing

Digits == 0 .. NotADigit
Fields == [kind : {"field"}, name : STRING, value : Seq(Digits)]
StatusLines == [kind : {"status"}, version : STRING, digits : Seq(Digits)]
Piece == {Cr, Lf, Byte, Slash, Filler} \cup Fields \cup StatusLines
Text == Seq(Piece)

ASSUME PlacesAssumption == Places \subseteq Text \X Text
ASSUME ResponsesAssumption ==
  Responses \subseteq [status : StatusLines, fields : Seq(Fields), body : Text]

BlankAt(text, i) == SubSeq(text, i, i + 3) = CrLf \o CrLf
Blanks(text) == {i \in 1 .. Len(text) - 3 : BlankAt(text, i)}
Least(S) == CHOOSE i \in S : \A j \in S : i <= j

(* A response, and a head that never ends, as the target writes them.       *)
ResponseOf(status, fields, body) ==
  [status |-> status, fields |-> fields, body |-> body]
Rendered(r) ==
  <<r.status>> \o CrLf
    \o FlattenSeq([i \in DOMAIN r.fields |-> <<r.fields[i]>> \o CrLf])
    \o CrLf \o r.body
Babble == <<Filler>> \o CrLf

-----------------------------------------------------------------------------
(* http.cpp.                                                                *)

(* A slip: only the host is looked at for line ends.                        *)
RefusedByHost(host, path) ==
  \/ host = <<>> \/ path = <<>> \/ Head(path) # Slash
  \/ {Cr, Lf} \cap ToSet(host) # {}

(* The UsageErrors of build_get.                                            *)
Refused(host, path) ==
  \/ host = <<>> \/ path = <<>> \/ Head(path) # Slash
  \/ {Cr, Lf} \cap (ToSet(host) \cup ToSet(path)) # {}

(* build_get.                                                               *)
RequestOf(host, path) ==
  <<Byte>> \o path \o <<Byte>> \o CrLf \o <<Byte>> \o host \o CrLf
    \o <<Byte>> \o CrLf \o <<Byte>> \o CrLf \o CrLf

Absent == -1

(* status_code.                                                             *)
StatusOf(text) ==
  IF /\ text # <<>> /\ text[1].kind = "status"
     /\ text[1].version \in {"HTTP/1.1", "HTTP/1.0"}
     /\ Len(text[1].digits) >= 3
     /\ \A i \in 1 .. 3 : text[1].digits[i] # NotADigit
     /\ Len(text[1].digits) > 3 => text[1].digits[4] = NotADigit
  THEN LET d == text[1].digits IN 100 * d[1] + 10 * d[2] + d[3]
  ELSE Absent

LinesNamed(headers, name) ==
  {i \in 3 .. Len(headers) : /\ headers[i].kind = "field" /\ headers[i].name = name
                             /\ SubSeq(headers, i - 2, i - 1) = CrLf}

(* A slip: the last line of a name is taken instead of the first.           *)
HeaderValueLast(headers, name) ==
  LET lines == LinesNamed(headers, name)
  IN  IF lines = {} THEN {}
      ELSE {headers[CHOOSE i \in lines : \A j \in lines : i >= j].value}

(* header_value: the first line of that name, below the first line of all;  *)
(* a set of one value, or of none.                                          *)
HeaderValue(headers, name) ==
  LET lines == LinesNamed(headers, name)
  IN  IF lines = {} THEN {} ELSE {headers[Least(lines)].value}

(* One turn of the loop of content_length.                                  *)
WithDigit(length, digit) ==
  IF \/ length = Absent \/ digit = NotADigit
     \/ length > (SizeMax - digit) \div 10
  THEN Absent ELSE length * 10 + digit

(* content_length.                                                          *)
ContentLength(headers) ==
  LET values == HeaderValue(headers, "content-length") \ {<<>>}
  IN  IF values = {} THEN Absent
      ELSE FoldLeft(WithDigit, 0, CHOOSE v \in values : TRUE)

-----------------------------------------------------------------------------
(* http11_get.cpp.                                                          *)

CarriesNoBody(status) == status \in {204, 304} \cup 100 .. 199

(* Pieces in the head, its blank line included.                             *)
BodyBegins(text) == Least(Blanks(text)) + 3

(* A head this long without a blank line.                                   *)
TooLong(text) == Len(text) > MaxHead

(* Http11Get::consume.  The sum is of the width of a size_t.                *)
Consume(text) ==
  LET headers == SubSeq(text, 1, BodyBegins(text) - 4)
      declared == ContentLength(headers)
      total == IF declared = Absent THEN BodyBegins(text)
               ELSE (BodyBegins(text) + declared) % (SizeMax + 1)
  IN  IF Blanks(text) = {} THEN IF TooLong(text) THEN "Malformed" ELSE "NeedMore"
      ELSE IF HeaderValue(headers, "transfer-encoding") # {} THEN "Malformed"
      ELSE IF declared = Absent /\ ~CarriesNoBody(StatusOf(text)) THEN "Malformed"
      ELSE IF Len(text) < total THEN "NeedMore"
      ELSE IF Len(text) = total THEN "Complete" ELSE "Malformed"

(* Http11Get::succeeded, of a complete response.                            *)
Succeeded(text) == StatusOf(text) \in 200 .. 299

-----------------------------------------------------------------------------
VARIABLES
  request,   \* request_, <<>> before it is built and when it is refused
  req,       \* requests made
  doing,     \* "starting", "between", "reading", "refused"
  open,      \* whether the worker holds a connection
  down,      \* what the target has answered and the worker has not read
  babbling,  \* whether the target goes on writing header lines for ever
  received,  \* what perform_request has gathered
  outcome,   \* what the latest exchange came to
  reply,     \* history: the latest answer
  clean      \* history: whether the stream was empty when it was asked for

httpVars == <<request, req, doing, open, down, babbling, received, outcome, reply, clean>>

HttpInit ==
  /\ request = <<>> /\ req = 0 /\ doing = "starting" /\ open = FALSE
  /\ down = <<>> /\ babbling = FALSE /\ received = <<>> /\ outcome = "none"
  /\ reply = <<>> /\ clean = TRUE

(* The constructor, once for a run.                                         *)
Construct ==
  /\ doing = "starting"
  /\ \E place \in Places :
       LET host == place[1]
           path == place[2]
       IN  \/ Refused(host, path) /\ doing' = "refused" /\ UNCHANGED request
           \/ /\ ~Refused(host, path) /\ doing' = "between"
              /\ request' = RequestOf(host, path)
  /\ UNCHANGED <<req, open, down, babbling, received, outcome, reply, clean>>

(* The worker connects if it has to and sends the request; how a write may  *)
(* fail is told in Exchange.  The target answers every head it finds in it, *)
(* or begins one that has no end.                                           *)
Ask ==
  /\ doing = "between" /\ req < Requests
  /\ req' = req + 1 /\ doing' = "reading" /\ open' = TRUE
  /\ received' = <<>> /\ outcome' = "none"
  /\ clean' = (open => down = <<>>)
  /\ \E r \in Responses :
       /\ reply' = r
       /\ \/ /\ babbling' = FALSE
             /\ down' = (IF open THEN down ELSE <<>>) \o
                  FlattenSeq([i \in 1 .. Cardinality(Blanks(request)) |-> Rendered(r)])
          \/ /\ clean' /\ babbling' = TRUE
             /\ down' = <<r.status>> \o CrLf
  /\ UNCHANGED request

BabbleOn ==
  /\ doing = "reading" /\ babbling /\ Len(down) < Chunk
  /\ down' = down \o Babble
  /\ UNCHANGED <<request, req, doing, open, babbling, received, outcome, reply, clean>>

(* The exchange returns; the worker keeps the connection if it may.         *)
End(result) ==
  /\ outcome' = result /\ doing' = "between"
  /\ open' = Usable(result)

(* One turn of perform_request's loop that received something.              *)
ReadSome ==
  /\ doing = "reading"
  /\ \E n \in 1 .. Chunk :
       LET got == received \o SubSeq(down, 1, n)
       IN  /\ n <= Len(down)
           /\ received' = got
           /\ down' = SubSeq(down, n + 1, Len(down))
           /\ \/ Consume(got) = "NeedMore" /\ UNCHANGED <<doing, open, outcome>>
              \/ Consume(got) = "Malformed" /\ End("ProtocolError")
              \/ /\ Consume(got) = "Complete"
                 /\ End(IF Succeeded(got) THEN "Succeeded" ELSE "Rejected")
  /\ UNCHANGED <<request, req, babbling, reply, clean>>

(* A slip: zero bytes are read again, and a silence is never timed.         *)
ReadEndsByReset ==
  /\ doing = "reading" /\ down # <<>> /\ End("ReadFailed")
  /\ UNCHANGED <<request, req, down, babbling, received, reply, clean>>

(* The read timeout, a reset, the end of the stream.                        *)
ReadEnds ==
  /\ doing = "reading"
  /\ \E result \in {"TimedOut", "ReadFailed"} : End(result)
  /\ UNCHANGED <<request, req, down, babbling, received, reply, clean>>

WorkerStep == Construct \/ Ask \/ ReadSome \/ ReadEnds

HttpNext == WorkerStep \/ BabbleOn

(* The worker runs.  Nothing is promised of the target; a read that gets    *)
(* nothing is ended by its timeout, one that gets something goes on.        *)
HttpSpec == HttpInit /\ [][HttpNext]_httpVars /\ WF_httpVars(WorkerStep)

-----------------------------------------------------------------------------
(* Properties.  What an answer should come to is said of the answer alone,  *)
(* without a look at the text.                                              *)

Values(r, name) == {i \in DOMAIN r.fields : r.fields[i].name = name}

(* What a number is worth, of any length; Absent if it is not one.          *)
Worth(digits) ==
  IF digits = <<>> \/ NotADigit \in ToSet(digits) THEN Absent
  ELSE FoldLeft(LAMBDA n, d : 10 * n + d, 0, digits)

HeadLength(r) == 3 + 3 * Len(r.fields) + 2

(* The body an answer promises; Absent if nothing says where it ends.       *)
Promised(r) ==
  LET lengths == Values(r, "content-length")
      said == IF lengths = {} THEN Absent ELSE Worth(r.fields[Least(lengths)].value)
      code == StatusOf(<<r.status>>)
  IN  IF Values(r, "transfer-encoding") # {} THEN Absent
      ELSE IF said # Absent /\ said <= SizeMax THEN said
      ELSE IF code \in {204, 304} \/ code \in 100 .. 199 THEN 0 ELSE Absent

(* What a whole answer comes to by its code.  One without a code is no      *)
(* success; whether it is a protocol error, as http.hpp:40-43 has it, or a  *)
(* rejection, as http11_get.cpp has it, is left open.                       *)
Judged(code) ==
  IF code = Absent THEN {"Rejected", "ProtocolError"}
  ELSE IF code \in 200 .. 299 THEN {"Succeeded"} ELSE {"Rejected"}

(* What an answer that has arrived as far as it will may come to.           *)
Verdicts(r) ==
  LET promised == Promised(r)
  IN  IF promised = Absent \/ HeadLength(r) + promised > SizeMax THEN {"ProtocolError"}
      ELSE IF promised > Len(r.body) THEN {}
      ELSE Judged(StatusOf(<<r.status>>))
             \cup (IF promised < Len(r.body) THEN {"ProtocolError"} ELSE {})

(* A head that is longer than the limit passes if its end comes with the    *)
(* piece that is over.                                                      *)
MayComeTo(r) ==
  IF babbling THEN {"ProtocolError"}
  ELSE Verdicts(r) \cup (IF HeadLength(r) > MaxHead THEN {"ProtocolError"} ELSE {})

(* An exchange comes to what the target answered, not to how the answer was *)
(* cut up: not to where a read ended inside the blank line, to blank lines in*)
(* the body, or to lines that look like the one that counts                 *)
(* (http11_get.cpp:31-72, http.cpp:45-148).                                 *)
OutcomeIsTheAnswers ==
  doing = "between" /\ clean /\ outcome \in {"Succeeded", "Rejected", "ProtocolError"} =>
    outcome \in MayComeTo(reply)

(* An answer that is whole is never waited for: a worker that reads on with *)
(* nothing under way was promised more (http11_get.cpp:62-68).              *)
NothingAwaitedInVain ==
  doing = "reading" /\ clean /\ down = <<>> /\ ~babbling => Verdicts(reply) = {}

(* A target that babbles headers does not grow the buffer past the limit    *)
(* and one read (http11_get.hpp:38-42).                                     *)
HeadBounded == Blanks(received) = {} => Len(received) <= MaxHead + Chunk

(* Where an answer ends, and what it comes to, is decided by the answer and *)
(* by nothing else, as soon as it is known and before the buffer outgrows   *)
(* its limit: the three above (http11_get.cpp:31-72).                       *)
FramedByTheAnswer == OutcomeIsTheAnswers /\ NothingAwaitedInVain /\ HeadBounded

(* A connection is carried on with something left in it only if the target  *)
(* sent more than it promised: an answer never runs into the next one by a  *)
(* mistake in framing, or because a host or path made two requests of one   *)
(* (http11_get.hpp:19-22, http.cpp:11-19).                                  *)
KeptInStep ==
  doing = "between" /\ open /\ clean /\ down # <<>> =>
    Promised(reply) < Len(reply.body)

(* Every exchange ends, though the target may write for ever and so keep    *)
(* the read timeout from running out (http11_get.cpp:36-37).                *)
EveryExchangeEnds == doing = "reading" ~> doing # "reading"

=============================================================================
