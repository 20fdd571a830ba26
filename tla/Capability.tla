---------------------------- MODULE Capability ----------------------------
(***************************************************************************)
(* How a call reaches a provider of lenso.business-approval@1 and how its  *)
(* answer comes back: the endpoint, client and error codecs of             *)
(* lenso-capability-business-approval/src/generated.rs.                    *)
(*                                                                         *)
(* Instance Hops calls; each instance below it provides the capability by  *)
(* calling the next and passing on what it learns with `?'; instance 0 is  *)
(* the approval plugin.  Neighbours share a process or are joined by a     *)
(* lane that carries portable JSON, and need not be of the same release.   *)
(***************************************************************************)
EXTENDS Naturals

CONSTANTS
  Hops,            \* how far the caller is from the provider
  NewCodes,        \* error codes a later release adds to every operation
  NewOperations,   \* operations a later release adds
  Payloads,        \* payloads an error may carry; NoPayload is none
  NoPayload,
  ExtraKeys        \* further keys of an error object

ASSUME CapabilityAssumption == Hops \in Nat \ {0} /\ NoPayload \notin Payloads

VARIABLES
  release,     \* which release each instance is built with
  link,        \* how each instance reaches the next one down
  operation,   \* the operation called
  at,          \* the instance the call or its answer is at
  stage,       \* "calling" or "answering"
  said,        \* what the provider said
  answer       \* what the client or the method at instance at returned

wireVars == <<release, link, operation, at, stage, said, answer>>

Variants ==
  [cancel  |-> {"already_terminal", "forbidden", "invalid_request", "not_requester", "request_not_found"},
   decide  |-> {"already_terminal", "forbidden", "invalid_request", "request_not_found"},
   expire  |-> {"already_terminal", "forbidden", "invalid_request", "not_due", "request_not_found"},
   read    |-> {"forbidden", "invalid_request", "request_not_found"},
   request |-> {"forbidden", "idempotency_conflict", "invalid_request"}]

\* "foreign" is a provider not written with this crate.
Releases == {"ours", "later", "foreign"}
Operations(r) == DOMAIN Variants \cup (IF r = "ours" THEN {} ELSE NewOperations)
Known(r) ==
  (IF operation \in DOMAIN Variants THEN Variants[operation] ELSE {})
    \cup (IF r = "ours" THEN {} ELSE NewCodes)

-----------------------------------------------------------------------------
(* Errors and their wire form *)

Variant(code) == [known |-> TRUE, code |-> code, payload |-> NoPayload, extra |-> {}]
Unknown(code, payload, extra) ==
  [known |-> FALSE, code |-> code, payload |-> payload, extra |-> extra]

Text(code) == [form |-> "string", code |-> code, payload |-> NoPayload, extra |-> {}]
Object(code, payload, extra) ==
  [form |-> "object", code |-> code, payload |-> payload, extra |-> extra]

\* Any other JSON, an object without a string code included.
Malformed == [form |-> "other"]

\* Fault: an unknown code is written like a known one.
SerializeBare(error) == Text(error.code)

Serialize(error) ==
  IF error.known THEN Text(error.code) ELSE Object(error.code, error.payload, error.extra)

Ok(value) == [ok |-> TRUE, value |-> value]
Err(value) == [ok |-> FALSE, value |-> value]

\* Fault: a known code is recognised in an object too.
DeserializeByCode(r, wire) ==
  CASE wire.form = "other" -> Err("Undecodable")
    [] wire.form # "other" /\ wire.code \in Known(r) -> Ok(Variant(wire.code))
    [] wire.form # "other" /\ wire.code \notin Known(r) ->
         Ok(Unknown(wire.code, wire.payload, wire.extra))

Deserialize(r, wire) ==
  CASE wire.form = "string" /\ wire.code \in Known(r) -> Ok(Variant(wire.code))
    [] wire.form = "string" /\ wire.code \notin Known(r) -> Ok(Unknown(wire.code, NoPayload, {}))
    [] wire.form = "object" -> Ok(Unknown(wire.code, wire.payload, wire.extra))
    [] wire.form = "other" -> Err("Undecodable")

-----------------------------------------------------------------------------
(* Results.  The kernel's are Result<Result<Response, Error>, Failure>, a   *)
(* client's and a plugin's Result<Response, Domain(Error) | Runtime(..)>.   *)

Domain(error) == [lane |-> "Domain", error |-> error]
Runtime(failure) == [lane |-> "Runtime", error |-> failure]

\* Fault: an outage below is passed on as a domain error.
IntoResultFlat(result) ==
  IF result.ok THEN Ok(Ok(result.value))
  ELSE Ok(Err(IF result.value.lane = "Domain" THEN result.value.error
              ELSE Unknown("runtime", NoPayload, {})))

IntoResult(result) ==
  IF result.ok THEN Ok(Ok(result.value))
  ELSE IF result.value.lane = "Domain" THEN Ok(Err(result.value.error))
  ELSE Err(result.value.error)

ClientResult(result) ==
  IF ~result.ok THEN Err(Runtime(result.value))
  ELSE IF result.value.ok THEN Ok(result.value.value)
  ELSE Err(Domain(result.value.value))

\* The reader's end of a lane; a failure to decode is a runtime failure.
Read(r, wire) ==
  LET error == Deserialize(r, wire) IN IF error.ok THEN Ok(Err(error.value)) ELSE error

\* What instance i makes of the result of the instance below it.
Received(i, result) ==
  IF link[i] = "portable" /\ result.ok /\ ~result.value.ok
  THEN Read(release[i], Serialize(result.value.value))
  ELSE result

-----------------------------------------------------------------------------
\* The client at instance i gets a result from the kernel.
Get(i, result) ==
  /\ at' = i
  /\ stage' = "answering"
  /\ answer' = ClientResult(result)

\* invoke_native finds the typed endpoint of its own release in the process.
SameRelease == link[at] = "native" /\ release[at] = release[at - 1]

InvokeTyped ==
  /\ stage = "calling"
  /\ at > 0
  /\ SameRelease
  /\ at' = at - 1
  /\ UNCHANGED <<release, link, operation, stage, said, answer>>

\* Fault: an endpoint of another release is taken for one without the operation.
InvokeUnknown ==
  /\ stage = "calling"
  /\ at > 0
  /\ ~SameRelease
  /\ \/ link[at] = "native" /\ Get(at, Err("UnknownOperation"))
     \/ link[at] = "portable" /\ at' = at - 1 /\ UNCHANGED <<stage, answer>>
  /\ UNCHANGED <<release, link, operation, said>>

\* Otherwise the erased endpoint looks the operation up and downcasts the request,
\* which a lane has decoded into the type of its side.
InvokeErased ==
  /\ stage = "calling"
  /\ at > 0
  /\ ~SameRelease
  /\ LET known == operation \in Operations(release[at - 1])
     IN \/ ~known /\ Get(at, Err("UnknownOperation"))
        \/ known /\ link[at] = "native" /\ Get(at, Err("ProtocolViolation"))
        \/ known /\ link[at] = "portable" /\ at' = at - 1 /\ UNCHANGED <<stage, answer>>
  /\ UNCHANGED <<release, link, operation, said>>

\* The object behind the endpoint is not, or no longer, there.
NoObject ==
  /\ stage = "calling"
  /\ at < Hops
  /\ Get(at + 1, Err("PluginFailure"))
  /\ UNCHANGED <<release, link, operation, said>>

Says(kind, wire, result) ==
  /\ said' = [kind |-> kind, wire |-> wire]
  /\ answer' = result

\* The plugin's own method returns.
Provide ==
  /\ stage = "calling" /\ at = 0
  /\ release[0] # "foreign"
  /\ stage' = "answering"
  /\ \/ Says("Ok", Malformed, Ok("response"))
     \/ Says("Runtime", Malformed, Err(Runtime("Unavailable")))
     \/ \E c \in Known(release[0]) : Says("Domain", Serialize(Variant(c)), Err(Domain(Variant(c))))
  /\ UNCHANGED <<release, link, operation, at>>

Wires ==
  LET codes == {"forbidden"} \cup NewCodes IN
  {Text(c) : c \in codes} \cup {Malformed}
    \cup {Object(c, p, x) : c \in codes, p \in Payloads \cup {NoPayload}, x \in SUBSET ExtraKeys}

\* A foreign provider writes its answers itself; instance 1 reads them, unless
\* what is to be a success does not decode as one.
ProvideForeign ==
  /\ stage = "calling" /\ at = 0
  /\ release[0] = "foreign"
  /\ stage' = "answering"
  /\ at' = 1
  /\ \/ Says("Ok", Malformed, Ok("response"))
     \/ Says("Ok", Malformed, Err(Runtime("Undecodable")))
     \/ \E wire \in Wires : Says("Domain", wire, ClientResult(Read(release[1], wire)))
  /\ UNCHANGED <<release, link, operation>>

\* An instance lowers its method's result onto the provider trait and its
\* client gets it, unless the lane between them loses it.
Return ==
  /\ stage = "answering"
  /\ at < Hops
  /\ \/ Get(at + 1, Received(at + 1, IntoResult(answer)))
     \/ link[at + 1] = "portable" /\ Get(at + 1, Err("Unavailable"))
  /\ UNCHANGED <<release, link, operation, said>>

WireInit ==
  /\ release \in [0..Hops -> Releases]
  /\ link \in [1..Hops -> {"native", "portable"}]
  /\ \A i \in 1..Hops : release[i] # "foreign"
  /\ release[0] = "foreign" => link[1] = "portable"
  /\ operation \in Operations(release[Hops])
  /\ at = Hops /\ stage = "calling"
  /\ said = [kind |-> "nothing", wire |-> Malformed]
  /\ answer = Err(Runtime("none"))

WireNext == InvokeTyped \/ InvokeErased \/ NoObject \/ Provide \/ ProvideForeign \/ Return

WireSpec == WireInit /\ [][WireNext]_wireVars

-----------------------------------------------------------------------------
(* Properties *)

Done == stage = "answering" /\ at = Hops
SeesDomain == Done /\ ~answer.ok /\ answer.value.lane = "Domain"
SeesRuntime == Done /\ ~answer.ok /\ answer.value.lane = "Runtime"

(* A domain error keeps its code, its payload and every other key through   *)
(* any number of instances that do not know it: UnknownDomainError of       *)
(* generated.rs loses nothing.                                              *)
ErrorsWhole ==
  SeesDomain =>
    /\ said.kind = "Domain"
    /\ said.wire.form # "other"
    /\ LET error == answer.value.error IN
       <<error.code, error.payload, error.extra>> = <<said.wire.code, said.wire.payload, said.wire.extra>>

(* The caller matches a variant of its enum exactly when the provider wrote *)
(* a bare code and every instance that decoded it knew the code: a code     *)
(* with details is never taken for a plain one, and one relay of an older   *)
(* release is enough to make a code `unknown' to a caller that knows it.    *)
Recognised ==
  SeesDomain =>
    (answer.value.error.known <=>
       /\ said.wire.form = "string"
       /\ \A i \in 0..Hops :
            release[i] = "foreign" \/ said.wire.code \in Known(release[i]))

(* No relay turns a verdict into another: a success was the provider's, a   *)
(* runtime failure of the provider is one to the caller, and a domain error *)
(* never becomes a success.  A verdict the provider did give arrives as an  *)
(* outage only if a lane lost it or could not decode it.                    *)
VerdictsKept ==
  Done =>
    \/ answer.ok /\ said.kind = "Ok"
    \/ SeesDomain /\ said.kind = "Domain"
    \/ SeesRuntime /\ said.kind \notin {"Ok", "Domain"}
    \/ /\ SeesRuntime
       /\ \/ answer.value.error = "Unavailable" /\ \E i \in 1..Hops : link[i] = "portable"
          \/ answer.value.error = "Undecodable" /\ release[0] = "foreign"

(* A failure of dispatch or decoding names its cause: an operation some     *)
(* provider lacks, neighbours of different releases in one process, JSON no *)
(* codec of this crate wrote.                                               *)
FailuresExplained ==
  SeesRuntime =>
    LET failure == answer.value.error IN
    /\ failure = "UnknownOperation" =>
         \E i \in 1..Hops : operation \notin Operations(release[i - 1])
    /\ failure = "ProtocolViolation" =>
         \E i \in 1..Hops : link[i] = "native" /\ release[i] # release[i - 1]
    /\ failure = "Undecodable" => release[0] = "foreign" /\ said.wire = Malformed

=============================================================================
