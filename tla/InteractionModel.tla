-------------------------- MODULE InteractionModel --------------------------
(***************************************************************************)
(* The messages of the Interaction Model (interaction.cpp): the TLV tree   *)
(* of every request the controller writes, and what it takes from a        *)
(* ReportData, an InvokeResponse and a StatusResponse.                     *)
(*                                                                         *)
(* The other end is external: ...By reads a request, and AnswerOf makes an *)
(* answer, by the tags that the comment of interaction.h lists.  A number  *)
(* is its eight bytes (module Tlv), and what is absent is 0, where the     *)
(* code keeps an empty value.  An entry of an answer has one of its parts. *)
(***************************************************************************)
EXTENDS Tlv

Box(type, tag, children) == Element(type, tag, <<>>, children)
Uint(tag, v) == Element(UnsignedInt, tag, v, <<>>)
Bool(tag, b) == Element(Boolean, tag, Truth(b), <<>>)
Small(n) == <<n, 0, 0, 0, 0, 0, 0, 0>>
Each(Op(_), s) == [i \in DOMAIN s |-> Op(s[i])]

Revision == Uint(255, Small(11))

(* A path is the three numbers of it. *)
AttributePath(tag, p) == Box(List, tag, <<Uint(2, p[1]), Uint(3, p[2]), Uint(4, p[3])>>)
CommandPath(p) == Box(List, 0, <<Uint(0, p[1]), Uint(1, p[2]), Uint(2, p[3])>>)
EventPath(p, urgent) ==
  Box(List, NoTag, <<Uint(1, p[1]), Uint(2, p[2]), Uint(3, p[3])>>
                     \o (IF urgent THEN <<Bool(4, TRUE)>> ELSE <<>>))
AttributePaths(tag, paths) ==
  Box(Array, tag, Each(LAMBDA p : AttributePath(NoTag, p), paths))

(* What encodeWriteRequest and encodeInvokeRequest emit again. *)
Copied == {UnsignedInt, SignedInt, Boolean, UTF8String, ByteString, Null}

ReadRequest(r) ==
  Box(Structure, NoTag, <<AttributePaths(0, r.paths), Bool(3, FALSE), Revision>>)

(* The value comes with tag 0 and goes with tag 2. *)
WriteRequest(r) ==
  Box(Structure, NoTag,
    <<Bool(0, FALSE), Bool(1, FALSE),
      Box(Array, 2, <<Box(Structure, NoTag,
        <<AttributePath(1, r.path)>>
          \o (IF r.value.type \in Copied THEN <<[r.value EXCEPT !.tag = 2]>> ELSE <<>>))>>),
      Revision>>)

(* Mutant of Unwrapped: the fields keep no tags. *)
UnwrappedUntagged(fields) == Each(LAMBDA e : [e EXCEPT !.tag = NoTag], fields)
(* The fields that come in a structure, without what holds others: those the *)
(* switch does not name are left out.                                        *)
Unwrapped(fields) == SelectSeq(fields, LAMBDA e : e.type \in Copied)

(* Every caller's fields are in a structure, so that there always is one.    *)
InvokeRequest(r) ==
  Box(Structure, NoTag,
    <<Bool(0, FALSE), Bool(1, r.timed),
      Box(Array, 2, <<Box(Structure, NoTag,
        <<CommandPath(r.path), Box(Structure, 1, Unwrapped(r.fields))>>)>>),
      Revision>>)

SubscribeRequest(r) ==
  Box(Structure, NoTag,
    <<Bool(0, FALSE), Uint(1, r.min), Uint(2, r.max), AttributePaths(3, r.paths)>>
      \o (IF r.events = <<>> THEN <<>> ELSE
          <<Box(Array, 4, Each(LAMBDA v : EventPath(v.path, v.urgent), r.events))>>)
      \o <<Bool(7, FALSE), Revision>>)

TimedRequest(r) == Box(Structure, NoTag, <<Uint(0, r.timeout), Revision>>)
StatusResponse(r) == Box(Structure, NoTag, <<Uint(0, r.status)>>)

Request(r) ==
  CASE r.kind = "ReadRequest" -> ReadRequest(r)
    [] r.kind = "WriteRequest" -> WriteRequest(r)
    [] r.kind = "InvokeRequest" -> InvokeRequest(r)
    [] r.kind = "SubscribeRequest" -> SubscribeRequest(r)
    [] r.kind = "TimedRequest" -> TimedRequest(r)
    [] r.kind = "StatusResponse" -> StatusResponse(r)

-----------------------------------------------------------------------------
(* The children with a tag; the decoders take the last of them. *)
Tagged(e, tag) == SelectSeq(e.children, LAMBDA child : child.tag = tag)
Has(e, tag) == Tagged(e, tag) # <<>>
The(e, tag) == Last(Tagged(e, tag))
Value(e, tag, default) == IF Has(e, tag) THEN The(e, tag).value ELSE default

Zero == Small(0)
Numbers3(e, a, b, c) == <<Value(e, a, Zero), Value(e, b, Zero), Value(e, c, Zero)>>
DecodeAttributePath(e) == Numbers3(e, 2, 3, 4)
DecodeEventPath(e) == Numbers3(e, 1, 2, 3)
DecodeCommandPath(e) == Numbers3(e, 0, 1, 2)
NoPath == <<Zero, Zero, Zero>>

(* The entries of the arrays with a tag. *)
Entries(root, tag) == FlattenSeq(Each(LAMBDA e : e.children, Tagged(root, tag)))

(* A StatusIB, in a part of an entry that has one. *)
Status(part) == IF Has(part, 1) THEN Value(The(part, 1), 0, Zero) ELSE Zero

DecodeReportData(root) ==
  Each(LAMBDA entry :
         LET failed == Has(entry, 0)
             path == IF failed THEN The(The(entry, 0), 0) ELSE The(The(entry, 1), 1)
         IN [path |-> DecodeAttributePath(path), hasError |-> failed,
             status |-> IF failed THEN Status(The(entry, 0)) ELSE Zero,
             value |-> IF failed THEN Zero ELSE Value(The(entry, 1), 2, Zero)],
       Entries(root, 1))

(* Errors are left out, and so is what has no cluster. *)
DecodeEventReports(root) ==
  SelectSeq(
    Each(LAMBDA entry :
           LET part == IF Has(entry, 1) THEN The(entry, 1) ELSE Box(Structure, 0, <<>>)
           IN [path |-> IF Has(part, 0) THEN DecodeEventPath(The(part, 0)) ELSE NoPath,
               eventNumber |-> Value(part, 1, Zero), priority |-> Value(part, 2, Zero),
               data |-> IF Has(part, 7) THEN The(part, 7).children ELSE <<>>],
         Entries(root, 2)),
    LAMBDA report : report.path[2] # Zero)

DecodeInvokeResponse(root) ==
  Each(LAMBDA entry :
         LET part == IF Has(entry, 0) THEN The(entry, 0) ELSE The(entry, 1)
         IN [path |-> DecodeCommandPath(The(part, 0)),
             status |-> IF Has(entry, 1) THEN Status(The(entry, 1)) ELSE Zero,
             data |-> IF Has(entry, 0) /\ Has(part, 1) THEN The(part, 1).children ELSE <<>>],
       Entries(root, 1))

(* The first one here. *)
DecodeStatusResponse(root) ==
  IF Has(root, 0) THEN Head(Tagged(root, 0)).value ELSE Small(255)

(* What handleInteractionModel takes from a message of a kind. *)
Taken(kind, root) ==
  CASE kind = "ReportData" ->
         [attributes |-> DecodeReportData(root), events |-> DecodeEventReports(root)]
    [] kind = "InvokeResponse" -> DecodeInvokeResponse(root)
    [] kind = "StatusResponse" -> DecodeStatusResponse(root)

-----------------------------------------------------------------------------
(* A device that reads a request. *)
RequestBy(kind, root) ==
  CASE kind = "ReadRequest" ->
         [kind |-> kind, paths |-> Each(DecodeAttributePath, Entries(root, 0))]
    [] kind = "WriteRequest" ->
         LET part == Entries(root, 2)[1]
         IN [kind |-> kind, path |-> DecodeAttributePath(The(part, 1)),
             value |-> [The(part, 2) EXCEPT !.tag = 0]]
    [] kind = "InvokeRequest" ->
         LET part == Entries(root, 2)[1]
         IN [kind |-> kind, path |-> DecodeCommandPath(The(part, 0)),
             timed |-> Value(root, 1, Truth(FALSE)) = Truth(TRUE), fields |-> The(part, 1).children]
    [] kind = "SubscribeRequest" ->
         [kind |-> kind, min |-> Value(root, 1, Zero), max |-> Value(root, 2, Zero),
          paths |-> Each(DecodeAttributePath, Entries(root, 3)),
          events |-> Each(LAMBDA v : [path |-> DecodeEventPath(v), urgent |-> Has(v, 4)],
                          Entries(root, 4))]
    [] kind = "TimedRequest" -> [kind |-> kind, timeout |-> Value(root, 0, Zero)]
    [] kind = "StatusResponse" -> [kind |-> kind, status |-> Value(root, 0, Zero)]

(* A device that writes an answer. *)
StatusPart(tag, path, status) ==
  Box(Structure, tag, <<path, Box(Structure, 1, <<Uint(0, status)>>)>>)
AttributeEntry(a) ==
  Box(Structure, NoTag,
    <<IF a.hasError THEN StatusPart(0, AttributePath(0, a.path), a.status)
      ELSE Box(Structure, 1, <<Uint(0, Small(9)), AttributePath(1, a.path), Uint(2, a.value)>>)>>)
EventEntry(v) ==
  Box(Structure, NoTag,
    <<Box(Structure, 1, <<[EventPath(v.path, FALSE) EXCEPT !.tag = 0], Uint(1, v.eventNumber),
                          Uint(2, v.priority), Uint(3, Small(77)), Box(Structure, 7, v.data)>>)>>)
CommandEntry(c) ==
  Box(Structure, NoTag,
    <<IF c.data = <<>> THEN StatusPart(1, CommandPath(c.path), c.status)
      ELSE Box(Structure, 0, <<CommandPath(c.path), Box(Structure, 1, c.data)>>)>>)

AnswerOf(kind, what) ==
  CASE kind = "ReportData" ->
         Box(Structure, NoTag,
           <<Uint(0, Small(3)), Box(Array, 1, Each(AttributeEntry, what.attributes)),
             Box(Array, 2, Each(EventEntry, what.events)), Revision>>)
    [] kind = "InvokeResponse" ->
         Box(Structure, NoTag,
           <<Bool(0, FALSE), Box(Array, 1, Each(CommandEntry, what)), Revision>>)
    [] kind = "StatusResponse" ->
         Box(Structure, NoTag, <<Uint(0, what), Revision>>)
=============================================================================
