-------------------------- MODULE CapabilityProofs --------------------------
(***************************************************************************)
(* The properties of Capability for any number of instances between the    *)
(* caller and the provider, any releases and links, and any codes,         *)
(* operations, payloads and keys a later release adds.                     *)
(***************************************************************************)
EXTENDS Capability, TLAPS

WireTypeOK ==
  /\ release \in [0..Hops -> Releases]
  /\ link \in [1..Hops -> {"native", "portable"}]
  /\ at \in 0..Hops
  /\ stage \in {"calling", "answering"}

\* Only the provider may be foreign, and then behind a lane.
Neighbours ==
  /\ \A i \in 1..Hops : release[i] # "foreign"
  /\ release[0] = "foreign" => link[1] = "portable"

\* A call passes a link inside a process only between instances of one release.
PassedLink(i) == link[i] = "native" => release[i] = release[i - 1]

\* A bare code has no details; what the provider said was an answer.
WholeWire(wire) ==
  /\ wire.form \in {"string", "object"}
  /\ wire.form = "string" => wire.payload = NoPayload /\ wire.extra = {}

\* Every instance up to i that decodes codes knows this one.
KnownUpTo(i, code) == \A j \in 0..i : release[j] = "foreign" \/ code \in Known(release[j])

\* The error with the details of a wire form.
ErrorOf(known, wire) ==
  [known |-> known, code |-> wire.code, payload |-> wire.payload, extra |-> wire.extra]

\* The error instance `at' holds is the one said, and is a variant of the enum
\* exactly when no instance so far had to take it for unknown.
DomainInv(error) ==
  /\ said.kind = "Domain"
  /\ WholeWire(said.wire)
  /\ error = ErrorOf(error.known, said.wire)
  /\ error.known \in BOOLEAN
  /\ error.known <=> said.wire.form = "string" /\ KnownUpTo(at, said.wire.code)

\* Failures of dispatch and decoding that have their cause somewhere below.
Explained(failure) ==
  /\ failure = "UnknownOperation" =>
       \E i \in 1..Hops : operation \notin Operations(release[i - 1])
  /\ failure = "ProtocolViolation" =>
       \E i \in 1..Hops : link[i] = "native" /\ release[i] # release[i - 1]
  /\ failure = "Undecodable" => release[0] = "foreign" /\ said.wire = Malformed
  /\ said.kind \in {"Ok", "Domain"} =>
       \/ failure = "Unavailable" /\ \E i \in 1..Hops : link[i] = "portable"
       \/ failure = "Undecodable" /\ release[0] = "foreign"

AnswerInv ==
  \/ answer.ok /\ answer = Ok("response") /\ said.kind = "Ok"
  \/ /\ ~answer.ok
     /\ answer = Err(Runtime(answer.value.error))
     /\ Explained(answer.value.error)
  \/ /\ ~answer.ok
     /\ answer = Err(Domain(answer.value.error))
     /\ DomainInv(answer.value.error)

\* While it goes down, a call has passed every link above; once it has been
\* answered by the provider, every link.
WireInv ==
  /\ WireTypeOK /\ Neighbours
  /\ stage = "calling" => said.kind = "nothing" /\ \A i \in at + 1..Hops : PassedLink(i)
  /\ said.kind # "nothing" => \A i \in 1..Hops : PassedLink(i)
  /\ stage = "answering" => AnswerInv
  /\ release[0] = "foreign" /\ stage = "answering" => at > 0

-----------------------------------------------------------------------------
(* The codecs *)

\* A code that can be read is an answer; a client tells the three lanes apart.
LEMMA ReadOf ==
  ASSUME NEW r, NEW wire, NEW error, Deserialize(r, wire) = Ok(error)
  PROVE  Read(r, wire) = Ok(Err(error))
<1>1. Deserialize(r, wire).ok = TRUE /\ Deserialize(r, wire).value = error
  BY DEF Ok
<1> QED BY <1>1 DEF Read

LEMMA ClientVerdict == \A value : ClientResult(Ok(Ok(value))) = Ok(value)
BY DEF ClientResult, Ok

LEMMA ClientFailure == \A failure : ClientResult(Err(failure)) = Err(Runtime(failure))
BY DEF ClientResult, Err

LEMMA ClientError == \A error : ClientResult(Ok(Err(error))) = Err(Domain(error))
<1> TAKE error
<1> DEFINE result == Ok(Err(error))
<1>1. result.ok /\ ~result.value.ok /\ result.value.value = error
  BY DEF Ok, Err
<1> QED BY <1>1 DEF ClientResult

\* What a lane makes of an error: the same details, and a variant exactly if it
\* was one and the reader knows the code.
LEMMA Relayed ==
  ASSUME NEW r, NEW known \in BOOLEAN, NEW wire, NEW recognised \in BOOLEAN,
         known => wire.payload = NoPayload /\ wire.extra = {},
         recognised <=> known /\ wire.code \in Known(r)
  PROVE  Read(r, Serialize(ErrorOf(known, wire))) = Ok(Err(ErrorOf(recognised, wire)))
<1>1. CASE known /\ wire.code \in Known(r)
  <2>1. Serialize(ErrorOf(known, wire)) = Text(wire.code)
    BY <1>1 DEF Serialize, ErrorOf
  <2>2. Deserialize(r, Text(wire.code)) = Ok(Variant(wire.code))
    BY <1>1 DEF Deserialize, Text
  <2>3. recognised = TRUE
    BY <1>1
  <2>4. Variant(wire.code) = ErrorOf(recognised, wire)
    BY <1>1, <2>3 DEF Variant, ErrorOf
  <2> QED BY <2>1, <2>2, <2>4, ReadOf
<1>2. CASE known /\ wire.code \notin Known(r)
  <2>1. Serialize(ErrorOf(known, wire)) = Text(wire.code)
    BY <1>2 DEF Serialize, ErrorOf
  <2>2. Deserialize(r, Text(wire.code)) = Ok(Unknown(wire.code, NoPayload, {}))
    BY <1>2 DEF Deserialize, Text
  <2>3. recognised = FALSE
    BY <1>2
  <2>4. Unknown(wire.code, NoPayload, {}) = ErrorOf(recognised, wire)
    BY <1>2, <2>3 DEF Unknown, ErrorOf
  <2> QED BY <2>1, <2>2, <2>4, ReadOf
<1>3. CASE ~known
  <2>1. Serialize(ErrorOf(known, wire)) = Object(wire.code, wire.payload, wire.extra)
    BY <1>3 DEF Serialize, ErrorOf
  <2>2. Deserialize(r, Object(wire.code, wire.payload, wire.extra))
          = Ok(Unknown(wire.code, wire.payload, wire.extra))
    BY DEF Deserialize, Object
  <2>3. recognised = FALSE
    BY <1>3
  <2>4. Unknown(wire.code, wire.payload, wire.extra) = ErrorOf(recognised, wire)
    BY <2>3 DEF Unknown, ErrorOf
  <2> QED BY <2>1, <2>2, <2>4, ReadOf
<1> QED BY <1>1, <1>2, <1>3

\* What a reader makes of JSON a foreign provider wrote.
LEMMA Decoded ==
  ASSUME NEW r, NEW wire \in Wires, wire # Malformed,
         NEW recognised \in BOOLEAN,
         recognised <=> wire.form = "string" /\ wire.code \in Known(r)
  PROVE  WholeWire(wire) /\ Read(r, wire) = Ok(Err(ErrorOf(recognised, wire)))
<1>1. ASSUME NEW code, wire = Text(code)
      PROVE  WholeWire(wire) /\ Read(r, wire) = Ok(Err(ErrorOf(recognised, wire)))
  <2>1. /\ wire.form = "string" /\ wire.code = code
        /\ wire.payload = NoPayload /\ wire.extra = {}
    BY <1>1 DEF Text
  <2>2. CASE code \in Known(r)
    <3>1. Deserialize(r, wire) = Ok(Variant(code))
      BY <2>1, <2>2 DEF Deserialize
    <3>2. recognised = TRUE
      BY <2>1, <2>2
    <3>3. Variant(code) = ErrorOf(recognised, wire)
      BY <2>1, <3>2 DEF Variant, ErrorOf
    <3> QED BY <2>1, <3>1, <3>3, ReadOf DEF WholeWire
  <2>3. CASE code \notin Known(r)
    <3>1. Deserialize(r, wire) = Ok(Unknown(code, NoPayload, {}))
      BY <2>1, <2>3 DEF Deserialize
    <3>2. recognised = FALSE
      BY <2>1, <2>3
    <3>3. Unknown(code, NoPayload, {}) = ErrorOf(recognised, wire)
      BY <2>1, <3>2 DEF Unknown, ErrorOf
    <3> QED BY <2>1, <3>1, <3>3, ReadOf DEF WholeWire
  <2> QED BY <2>2, <2>3
<1>2. ASSUME NEW code, NEW payload, NEW extra, wire = Object(code, payload, extra)
      PROVE  WholeWire(wire) /\ Read(r, wire) = Ok(Err(ErrorOf(recognised, wire)))
  <2>1. /\ wire.form = "object" /\ wire.code = code
        /\ wire.payload = payload /\ wire.extra = extra
    BY <1>2 DEF Object
  <2>2. Deserialize(r, wire) = Ok(Unknown(code, payload, extra))
    BY <2>1 DEF Deserialize
  <2>3. recognised = FALSE
    BY <2>1
  <2>4. Unknown(code, payload, extra) = ErrorOf(recognised, wire)
    BY <2>1, <2>3 DEF Unknown, ErrorOf
  <2> QED BY <2>1, <2>2, <2>4, ReadOf DEF WholeWire
<1> QED BY <1>1, <1>2 DEF Wires

-----------------------------------------------------------------------------
(* Each action *)

\* The releases, the links and the operation are those of the beginning.
Settled == UNCHANGED <<release, link, operation>>

LEMMA InitWire == WireInit => WireInv
BY CapabilityAssumption DEF WireInit, WireInv, WireTypeOK, Neighbours, Releases

\* An instance gets a runtime failure that has a cause.
LEMMA FailureKept ==
  ASSUME WireInv, Settled, said' = said, stage = "calling",
         NEW i \in 1..Hops, NEW failure, Get(i, Err(failure)), Explained(failure)
  PROVE  WireInv'
<1>1. answer' = Err(Runtime(failure)) /\ at' = i /\ stage' = "answering"
  BY ClientFailure DEF Get
<1>2. Explained(failure)'
  BY DEF Explained, Settled
<1>3. AnswerInv'
  BY <1>1, <1>2 DEF AnswerInv, Err, Runtime
<1> QED BY <1>1, <1>3, CapabilityAssumption DEF WireInv, WireTypeOK, Neighbours, Settled, PassedLink

LEMMA TypedWire == WireInv /\ InvokeTyped => WireInv'
<1> SUFFICES ASSUME WireInv, InvokeTyped PROVE WireInv'
  OBVIOUS
<1>1. at' = at - 1 /\ at \in 1..Hops /\ PassedLink(at) /\ Settled /\ UNCHANGED <<stage, said, answer>>
  BY CapabilityAssumption DEF InvokeTyped, WireInv, WireTypeOK, SameRelease, PassedLink, Settled
<1>2. stage = "calling" /\ said.kind = "nothing"
  BY DEF InvokeTyped, WireInv
<1>3. \A i \in at'+1..Hops : PassedLink(i)'
  BY <1>1, <1>2, CapabilityAssumption DEF WireInv, PassedLink, Settled
<1> QED BY <1>1, <1>2, <1>3, CapabilityAssumption DEF WireInv, WireTypeOK, Neighbours, Settled

LEMMA ErasedWire == WireInv /\ InvokeErased => WireInv'
<1> SUFFICES ASSUME WireInv, InvokeErased PROVE WireInv'
  OBVIOUS
<1>1. /\ at \in 1..Hops /\ stage = "calling" /\ said.kind = "nothing" /\ ~SameRelease
      /\ Settled /\ said' = said
  BY CapabilityAssumption DEF InvokeErased, WireInv, WireTypeOK, Settled
<1>2. CASE operation \notin Operations(release[at - 1]) /\ Get(at, Err("UnknownOperation"))
  <2>1. Explained("UnknownOperation")
    BY <1>1, <1>2 DEF Explained
  <2> QED BY <1>1, <1>2, <2>1, FailureKept
<1>3. CASE link[at] = "native" /\ Get(at, Err("ProtocolViolation"))
  <2>1. Explained("ProtocolViolation")
    BY <1>1, <1>3 DEF Explained, SameRelease
  <2> QED BY <1>1, <1>3, <2>1, FailureKept
<1>4. CASE link[at] = "portable" /\ at' = at - 1 /\ UNCHANGED <<stage, answer>>
  <2>1. PassedLink(at)
    BY <1>4 DEF PassedLink
  <2>2. \A i \in at'+1..Hops : PassedLink(i)'
    BY <1>1, <1>4, <2>1, CapabilityAssumption DEF WireInv, PassedLink, Settled
  <2> QED BY <1>1, <1>4, <2>2, CapabilityAssumption DEF WireInv, WireTypeOK, Neighbours, Settled
<1> QED BY <1>1, <1>2, <1>3, <1>4 DEF InvokeErased

LEMMA NoObjectWire == WireInv /\ NoObject => WireInv'
<1> SUFFICES ASSUME WireInv, NoObject PROVE WireInv'
  OBVIOUS
<1>1. at + 1 \in 1..Hops /\ stage = "calling" /\ Settled /\ said' = said
  BY CapabilityAssumption DEF NoObject, WireInv, WireTypeOK, Settled
<1>2. Explained("PluginFailure")
  BY <1>1 DEF Explained, WireInv
<1> QED BY <1>1, <1>2, FailureKept DEF NoObject

\* The provider's word is the first answer.
LEMMA FirstAnswer ==
  ASSUME WireInv, Settled, stage = "calling", at = 0, stage' = "answering",
         at' \in 0..Hops, release[0] = "foreign" => at' > 0,
         said'.kind # "nothing", AnswerInv'
  PROVE  WireInv'
<1>1. \A i \in 1..Hops : PassedLink(i)
  BY DEF WireInv
<1> QED BY <1>1 DEF WireInv, WireTypeOK, Neighbours, Settled, PassedLink

LEMMA ProvideWire == WireInv /\ Provide => WireInv'
<1> SUFFICES ASSUME WireInv, Provide PROVE WireInv'
  OBVIOUS
<1>1. /\ stage = "calling" /\ at = 0 /\ at' = 0 /\ stage' = "answering" /\ release[0] # "foreign"
      /\ 0 \in 0..Hops /\ Settled
  BY CapabilityAssumption DEF Provide, Settled
<1>2. CASE Says("Ok", Malformed, Ok("response"))
  <2>1. AnswerInv' /\ said'.kind = "Ok"
    BY <1>2 DEF Says, AnswerInv, Ok
  <2> QED BY <1>1, <2>1, FirstAnswer
<1>3. CASE Says("Runtime", Malformed, Err(Runtime("Unavailable")))
  <2>1. AnswerInv' /\ said'.kind = "Runtime"
    BY <1>3 DEF Says, AnswerInv, Err, Runtime, Explained
  <2> QED BY <1>1, <2>1, FirstAnswer
<1>4. ASSUME NEW code \in Known(release[0]),
             Says("Domain", Serialize(Variant(code)), Err(Domain(Variant(code))))
      PROVE  WireInv'
  <2>1. said' = [kind |-> "Domain", wire |-> Text(code)]
    BY <1>4 DEF Says, Serialize, Variant
  <2>2. answer' = Err(Domain(Variant(code)))
    BY <1>4 DEF Says
  <2>3. KnownUpTo(at, code)'
    BY <1>1, <1>4 DEF KnownUpTo, Settled, Known
  <2>4. Variant(code) = ErrorOf(TRUE, said'.wire)
    BY <2>1 DEF Variant, ErrorOf, Text
  <2>5. DomainInv(Variant(code))'
    BY <2>1, <2>3, <2>4 DEF DomainInv, WholeWire, Text, ErrorOf
  <2>6. AnswerInv'
    BY <2>2, <2>5 DEF AnswerInv, Err, Domain
  <2> QED BY <1>1, <2>1, <2>6, FirstAnswer
<1> QED BY <1>2, <1>3, <1>4 DEF Provide

LEMMA ForeignWire == WireInv /\ ProvideForeign => WireInv'
<1> SUFFICES ASSUME WireInv, ProvideForeign PROVE WireInv'
  OBVIOUS
<1>1. /\ stage = "calling" /\ at = 0 /\ at' = 1 /\ stage' = "answering" /\ release[0] = "foreign"
      /\ 1 \in 0..Hops /\ release[1] # "foreign" /\ Settled
  BY CapabilityAssumption DEF ProvideForeign, Settled, WireInv, Neighbours
<1>2. CASE Says("Ok", Malformed, Ok("response"))
  <2>1. AnswerInv' /\ said'.kind = "Ok"
    BY <1>2 DEF Says, AnswerInv, Ok
  <2> QED BY <1>1, <2>1, FirstAnswer
<1>4. CASE Says("Ok", Malformed, Err(Runtime("Undecodable")))
  <2>1. said' = [kind |-> "Ok", wire |-> Malformed] /\ answer' = Err(Runtime("Undecodable"))
    BY <1>4 DEF Says
  <2>2. Explained("Undecodable")'
    BY <1>1, <2>1 DEF Explained, Settled
  <2>3. AnswerInv'
    BY <2>1, <2>2 DEF AnswerInv, Err, Runtime
  <2> QED BY <1>1, <2>1, <2>3, FirstAnswer
<1>3. ASSUME NEW wire \in Wires, Says("Domain", wire, ClientResult(Read(release[1], wire)))
      PROVE  WireInv'
  <2>1. said' = [kind |-> "Domain", wire |-> wire] /\ answer' = ClientResult(Read(release[1], wire))
    BY <1>3 DEF Says
  <2>2. CASE wire = Malformed
    <3>1. Deserialize(release[1], wire) = Err("Undecodable")
      BY <2>2 DEF Deserialize, Malformed
    <3>2. Read(release[1], wire) = Err("Undecodable")
      BY <3>1 DEF Read, Err
    <3>3. answer' = Err(Runtime("Undecodable"))
      BY <2>1, <3>2, ClientFailure
    <3>4. Explained("Undecodable")'
      BY <1>1, <2>1, <2>2 DEF Explained, Settled
    <3>5. AnswerInv'
      BY <3>3, <3>4 DEF AnswerInv, Err, Runtime
    <3> QED BY <1>1, <2>1, <3>5, FirstAnswer
  <2>3. CASE wire # Malformed
    <3>1. PICK recognised \in BOOLEAN :
            recognised <=> wire.form = "string" /\ wire.code \in Known(release[1])
      OBVIOUS
    <3>2. WholeWire(wire) /\ Read(release[1], wire) = Ok(Err(ErrorOf(recognised, wire)))
      BY <2>3, <3>1, Decoded
    <3>3. answer' = Err(Domain(ErrorOf(recognised, wire)))
      BY <2>1, <3>2, ClientError
    <3>4. KnownUpTo(at, wire.code)' <=> wire.code \in Known(release[1])
      BY <1>1 DEF KnownUpTo, Settled, Known
    <3>5. DomainInv(ErrorOf(recognised, wire))'
      BY <2>1, <3>1, <3>2, <3>4 DEF DomainInv, WholeWire, ErrorOf
    <3>6. AnswerInv'
      BY <3>3, <3>5 DEF AnswerInv, Err, Domain
    <3> QED BY <1>1, <2>1, <3>6, FirstAnswer
  <2> QED BY <2>2, <2>3
<1> QED BY <1>2, <1>3, <1>4 DEF ProvideForeign

\* `?' and the lane between two instances keep every verdict.
LEMMA ReturnWire == WireInv /\ Return => WireInv'
<1> SUFFICES ASSUME WireInv, Return PROVE WireInv'
  OBVIOUS
<1>1. /\ stage = "answering" /\ at \in 0..Hops /\ at + 1 \in 1..Hops /\ AnswerInv
      /\ Settled /\ said' = said /\ release[at + 1] # "foreign"
  BY CapabilityAssumption DEF Return, WireInv, WireTypeOK, Neighbours, Settled
<1>2. SUFFICES ASSUME at' = at + 1, stage' = "answering" PROVE AnswerInv'
  <2>1. at' = at + 1 /\ stage' = "answering"
    BY DEF Return, Get
  <2> QED BY <1>1, <1>2, <2>1, CapabilityAssumption
        DEF WireInv, WireTypeOK, Neighbours, Settled, PassedLink
<1> DEFINE result == IntoResult(answer)
<1>3. ASSUME NEW failure, Explained(failure), answer' = Err(Runtime(failure)) PROVE AnswerInv'
  <2>1. Explained(failure)'
    BY <1>1, <1>3 DEF Explained, Settled
  <2> QED BY <1>3, <2>1 DEF AnswerInv, Err, Runtime
<1>4. CASE link[at + 1] = "portable" /\ Get(at + 1, Err("Unavailable"))
  BY <1>1, <1>3, <1>4, ClientFailure DEF Get, Explained
<1>5. CASE Get(at + 1, Received(at + 1, result))
  <2>1. answer' = ClientResult(Received(at + 1, result))
    BY <1>5 DEF Get
  <2>2. CASE answer.ok /\ answer = Ok("response") /\ said.kind = "Ok"
    <3>1. result = Ok(Ok("response"))
      BY <2>2 DEF IntoResult, Ok
    <3>2. Received(at + 1, result) = Ok(Ok("response"))
      BY <3>1 DEF Received, Ok
    <3>3. answer' = Ok("response")
      BY <2>1, <3>2, ClientVerdict
    <3> QED BY <1>1, <2>2, <3>3 DEF AnswerInv, Ok
  <2>3. CASE ~answer.ok /\ answer = Err(Runtime(answer.value.error)) /\ Explained(answer.value.error)
    <3> DEFINE failure == answer.value.error
    <3>1. result = Err(failure)
      BY <2>3 DEF IntoResult, Err, Runtime
    <3>2. Received(at + 1, result) = Err(failure)
      BY <3>1 DEF Received, Err
    <3>3. answer' = Err(Runtime(failure))
      BY <2>1, <3>2, ClientFailure
    <3> QED BY <1>3, <2>3, <3>3
  <2>4. CASE ~answer.ok /\ answer = Err(Domain(answer.value.error)) /\ DomainInv(answer.value.error)
    <3> DEFINE error == answer.value.error
               code == said.wire.code
    <3>1. result = Ok(Err(error))
      BY <2>4 DEF IntoResult, Err, Domain
    <3>2. /\ error = ErrorOf(error.known, said.wire) /\ error.known \in BOOLEAN
          /\ WholeWire(said.wire) /\ said.kind = "Domain"
          /\ error.known <=> said.wire.form = "string" /\ KnownUpTo(at, code)
      BY <2>4 DEF DomainInv
    <3>3. ASSUME NEW recognised \in BOOLEAN, answer' = Err(Domain(ErrorOf(recognised, said.wire))),
                 recognised <=> error.known /\ code \in Known(release[at + 1])
          PROVE  AnswerInv'
      <4>1. KnownUpTo(at, code)' <=> KnownUpTo(at, code) /\ code \in Known(release[at + 1])
        <5>1. \A r : Known(r)' = Known(r)
          BY <1>1 DEF Settled, Known
        <5>2. at' = at + 1 /\ \A j : j \in 0..at + 1 <=> j \in 0..at \/ j = at + 1
          BY <1>1, <1>2, CapabilityAssumption
        <5> QED BY <1>1, <5>1, <5>2 DEF KnownUpTo, Settled
      <4>2. PICK new : new = ErrorOf(recognised, said.wire)
        OBVIOUS
      <4>3. /\ new.known = recognised /\ new = ErrorOf(new.known, said.wire)'
            /\ answer' = Err(Domain(new))
        BY <1>1, <3>3, <4>2 DEF ErrorOf
      <4>4. recognised <=> said.wire.form = "string" /\ KnownUpTo(at, code)'
        BY <3>2, <3>3, <4>1
      <4>5. said'.kind = "Domain" /\ WholeWire(said.wire)'
        BY <1>1, <3>2 DEF WholeWire
      <4>6. DomainInv(new)'
        BY <1>1, <4>3, <4>4, <4>5 DEF DomainInv, KnownUpTo
      <4> QED BY <4>3, <4>6 DEF AnswerInv, Err, Domain, DomainInv, KnownUpTo
    <3>4. CASE link[at + 1] = "portable"
      <4>1. Received(at + 1, result) = Read(release[at + 1], Serialize(error))
        BY <3>1, <3>4 DEF Received, Ok, Err
      <4>2. PICK recognised \in BOOLEAN : recognised <=> error.known /\ code \in Known(release[at + 1])
        OBVIOUS
      <4>3. Read(release[at + 1], Serialize(error)) = Ok(Err(ErrorOf(recognised, said.wire)))
        BY <3>2, <4>2, Relayed DEF WholeWire
      <4> QED BY <2>1, <3>3, <4>1, <4>2, <4>3, ClientError
    <3>5. CASE link[at + 1] = "native"
      <4>1. Received(at + 1, result) = Ok(Err(error))
        BY <3>1, <3>5 DEF Received
      <4>2. release[at + 1] = release[at]
        BY <1>1, <3>2, <3>5, CapabilityAssumption DEF WireInv, PassedLink
      <4>3. error.known <=> error.known /\ code \in Known(release[at + 1])
        BY <1>1, <3>2, <4>2, CapabilityAssumption DEF KnownUpTo
      <4> QED BY <2>1, <3>2, <3>3, <4>1, <4>3, ClientError
    <3> QED BY <1>1, <3>4, <3>5 DEF WireInv, WireTypeOK
  <2> QED BY <1>1, <2>2, <2>3, <2>4 DEF AnswerInv
<1> QED BY <1>4, <1>5 DEF Return

LEMMA WireKept == WireInv /\ [WireNext]_wireVars => WireInv'
<1>1. WireInv /\ UNCHANGED wireVars => WireInv'
  BY DEF WireInv, WireTypeOK, Neighbours, PassedLink, AnswerInv, Explained, DomainInv, KnownUpTo,
         Known, wireVars
<1> QED BY <1>1, TypedWire, ErasedWire, NoObjectWire, ProvideWire, ForeignWire, ReturnWire
      DEF WireNext

-----------------------------------------------------------------------------
(* What callers may rely on *)

\* At every instance an answer passes, it is the provider's verdict with its
\* details, or a runtime failure that has a cause below.
THEOREM WireInvariance == WireSpec => []WireInv
<1> QED BY InitWire, WireKept, PTL DEF WireSpec

\* A domain error keeps its code, payload and other keys, through any number of
\* instances of any release.
THEOREM Whole == WireSpec => []ErrorsWhole
<1>1. WireInv => ErrorsWhole
  BY DEF WireInv, AnswerInv, DomainInv, ErrorOf, WholeWire, ErrorsWhole, SeesDomain, Done, Err,
         Runtime, Domain
<1> QED BY <1>1, WireInvariance, PTL

\* The caller matches a variant exactly if the provider wrote a bare code that
\* every instance on the way knew.
THEOREM RecognisedByAll == WireSpec => []Recognised
<1>1. WireInv => Recognised
  BY DEF WireInv, AnswerInv, DomainInv, KnownUpTo, Recognised, SeesDomain, Done, Err, Runtime, Domain
<1> QED BY <1>1, WireInvariance, PTL

\* No chain of relays turns one verdict into another, nor, but for a lane that
\* loses or cannot decode it, into an outage.
THEOREM Verdicts == WireSpec => []VerdictsKept
<1>1. WireInv => VerdictsKept
  BY DEF WireInv, AnswerInv, DomainInv, Explained, VerdictsKept, SeesDomain, SeesRuntime, Done,
         Ok, Err, Runtime, Domain
<1> QED BY <1>1, WireInvariance, PTL

\* A failure of dispatch or decoding always has the cause it names.
THEOREM Explanations == WireSpec => []FailuresExplained
<1>1. WireInv => FailuresExplained
  BY DEF WireInv, AnswerInv, Explained, FailuresExplained, SeesRuntime, Done, Ok, Err, Runtime,
         Domain
<1> QED BY <1>1, WireInvariance, PTL
=============================================================================
