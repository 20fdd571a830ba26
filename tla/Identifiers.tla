---------------------------- MODULE Identifiers ----------------------------
(***************************************************************************)
(* Which texts the services and their configurations accept: the          *)
(* validators of lenso-business-approval-core/src/lib.rs and of the        *)
(* PostgreSQL plugin's BusinessApprovalConfig, next to what the published  *)
(* schemas of the capability say of the same fields.                       *)
(*                                                                         *)
(* A text is a sequence of kinds of character, told apart as far as some   *)
(* validator does.  The code measures bytes, the schemas count characters. *)
(***************************************************************************)
EXTENDS Naturals, Sequences, FiniteSets, Functions

CONSTANTS
  MAX_IDENTIFIER, MAX_KIND, MAX_REFERENCE, MAX_REASON, MAX_INSTANCE, MAX_SECRET, MAX_CALLERS,
  Longest,      \* characters the texts looked at have at most
  Names,        \* texts caller lists are made of
  LongestList   \* entries the lists looked at have at most

VARIABLES
  text,      \* a field of a request or a configuration
  callers    \* a caller list

textVars == <<text, callers>>

\* What takes more than one byte: an ideographic space is a blank and U+0085 a
\* control character, as far as trim() and is_control() go.
Wide == {"wide", "wideblank", "widecontrol"}
Blank == {"space", "wideblank"}
Control == {"control", "widecontrol"}

\* "dash" stands for _ and -.
Characters ==
  {"lower", "upper", "digit", "dot", "dash", "colon", "slash"} \cup Wide \cup Blank \cup Control

Lowercase == {"lower", "digit"}
Alphanumeric == Lowercase \cup {"upper"}

ASSUME LimitsAssumption ==
  {MAX_IDENTIFIER, MAX_KIND, MAX_REFERENCE, MAX_REASON, MAX_INSTANCE, MAX_SECRET, MAX_CALLERS}
    \subseteq Nat

ASSUME NamesAssumption == \A name \in Names : name \in Seq(Characters)

-----------------------------------------------------------------------------
(* The validators *)

Bytes(value) == Len(value) + Cardinality({i \in DOMAIN value : value[i] \in Wide})

Within(value, alphabet, maximum) ==
  value # <<>> /\ Bytes(value) <= maximum /\ Range(value) \subseteq alphabet

valid_identifier(value, maximum) ==
  Within(value, Alphanumeric \cup {"dot", "dash", "colon"}, maximum)

valid_reference(value) ==
  Within(value, Alphanumeric \cup {"dot", "dash", "colon", "slash"}, MAX_REFERENCE)

\* Fault: only the first character has to be a letter or a digit.
valid_kind_prefix(value) ==
  Within(value, Lowercase \cup {"dot", "dash"}, MAX_KIND) /\ Head(value) \in Alphanumeric

valid_kind(value) ==
  /\ Within(value, Lowercase \cup {"dot", "dash"}, MAX_KIND)
  /\ Head(value) \in Alphanumeric
  /\ value[Len(value)] \in Alphanumeric

Slashes(value) == {i \in DOMAIN value : value[i] = "slash"}

\* What str::split('/') yields, without its order: one text more than slashes.
Segments(value) ==
  LET cuts == {0, Len(value) + 1} \cup Slashes(value)
      Adjacent(i, j) == i < j /\ \A k \in cuts : k <= i \/ j <= k
  IN  {SubSeq(value, cut[1] + 1, cut[2] - 1) : cut \in {c \in cuts \X cuts : Adjacent(c[1], c[2])}}

\* Fault: the instance key may be left out after its slash.
valid_instance_open(value) ==
  /\ Bytes(value) <= MAX_INSTANCE
  /\ Cardinality(Slashes(value)) + 1 \in 1..2
  /\ value # <<>> /\ Head(value) # "slash"
  /\ \A segment \in Segments(value) \ {<<>>} : valid_identifier(segment, MAX_INSTANCE)

valid_instance(value) ==
  /\ Bytes(value) <= MAX_INSTANCE
  /\ Cardinality(Slashes(value)) + 1 \in 1..2
  /\ \A segment \in Segments(value) : valid_identifier(segment, MAX_INSTANCE)

\* Fault: blank reasons are refused, but neither long ones nor control characters.
valid_reason_trimmed(value) == Range(value) \ Blank # {}

\* trim() takes blanks and some control characters; the latter are refused anyway.
valid_reason(value) ==
  /\ Range(value) \ Blank # {}
  /\ Bytes(value) <= MAX_REASON
  /\ Range(value) \cap Control = {}

\* Fault: the reference is looked at as a whole, its segments are not.
valid_secret_reference_open(value) ==
  /\ Within(value, Alphanumeric \cup {"dot", "dash", "colon", "slash"}, MAX_SECRET)
  /\ Head(value) # "slash" /\ value[Len(value)] # "slash"
  /\ \A i \in 1..Len(value) - 1 : value[i] = "slash" => value[i + 1] # "slash"
  /\ value \notin {<<"dot">>, <<"dot", "dot">>}

valid_secret_reference(value) ==
  /\ Within(value, Alphanumeric \cup {"dot", "dash", "colon", "slash"}, MAX_SECRET)
  /\ Head(value) # "slash" /\ value[Len(value)] # "slash"
  /\ \A i \in 1..Len(value) - 1 : value[i] = "slash" => value[i + 1] # "slash"
  /\ \A segment \in Segments(value) : segment \notin {<<"dot">>, <<"dot", "dot">>}

\* Fault: duplicates are looked for among neighbours.
validate_callers_adjacent(list) ==
  CASE list = <<>> \/ Len(list) > MAX_CALLERS -> "EmptyOrTooLarge"
    [] \E caller \in Range(list) : ~valid_instance(caller) -> "InvalidInstance"
    [] \E i \in 1..Len(list) - 1 : list[i] = list[i + 1] -> "DuplicateInstance"
    [] OTHER -> "Ok"

validate_callers(list) ==
  CASE list = <<>> \/ Len(list) > MAX_CALLERS -> "EmptyOrTooLarge"
    [] \E caller \in Range(list) : ~valid_instance(caller) -> "InvalidInstance"
    [] Cardinality(Range(list)) # Len(list) -> "DuplicateInstance"
    [] OTHER -> "Ok"

-----------------------------------------------------------------------------
(* Every text and every list up to the bounds *)

TextInit == text = <<>> /\ callers = <<>>

Type(ch) ==
  /\ Len(text) < Longest /\ callers = <<>>
  /\ text' = Append(text, ch)
  /\ UNCHANGED callers

Enter(name) ==
  /\ Len(callers) < LongestList /\ text = <<>>
  /\ callers' = Append(callers, name)
  /\ UNCHANGED text

TextNext == (\E ch \in Characters : Type(ch)) \/ (\E name \in Names : Enter(name))

TextSpec == TextInit /\ [][TextNext]_textVars

-----------------------------------------------------------------------------
(* The published schemas, crates/lenso-capability-business-approval/schemas *)

\* ^(?:[a-z0-9][a-z0-9._-]*[a-z0-9]|[a-z0-9])$, of bounded length
KindSchema(value) ==
  /\ Len(value) \in 1..MAX_KIND
  /\ \A i \in DOMAIN value :
       \/ value[i] \in Lowercase
       \/ value[i] \in {"dot", "dash"} /\ i \notin {1, Len(value)}

\* ^[A-Za-z0-9._:/-]+$ and, with no slash, the ids and keys.
ReferenceSchema(value, maximum) ==
  Len(value) \in 1..maximum /\ (Wide \cup Blank \cup Control) \cap Range(value) = {}

ReasonSchema(value) == Len(value) <= MAX_REASON

-----------------------------------------------------------------------------
(* Properties *)

\* A caller that keeps to the published schemas is never refused for its ids,
\* keys, references or kinds, and nothing beyond them gets in: the limits in
\* bytes are those in characters, since no wide character passes.
AcceptsAsPublished ==
  /\ valid_kind(text) <=> KindSchema(text)
  /\ valid_reference(text) <=> ReferenceSchema(text, MAX_REFERENCE)
  /\ valid_identifier(text, MAX_IDENTIFIER)
       <=> ReferenceSchema(text, MAX_IDENTIFIER) /\ "slash" \notin Range(text)

\* A reason that is accepted says something, fits the schema readers decode it
\* with, and holds no NUL, which a TEXT column could not store.
ReasonsStorable ==
  valid_reason(text) =>
    /\ ReasonSchema(text) /\ Range(text) \cap Control = {}
    /\ \E i \in DOMAIN text : text[i] \notin Blank

\* A caller is a plugin, or a plugin and an instance: neither is ever empty,
\* so no two spellings are of the same caller.
CallersUnambiguous ==
  valid_instance(text) =>
    \/ valid_identifier(text, MAX_INSTANCE)
    \/ \E i \in 2..Len(text) - 1 :
         /\ text[i] = "slash"
         /\ valid_identifier(SubSeq(text, 1, i - 1), MAX_INSTANCE)
         /\ valid_identifier(SubSeq(text, i + 1, Len(text)), MAX_INSTANCE)

\* A secret reference is a relative path that stays below its root: between any
\* two slashes, or a slash and an end, stands a name.
SecretsStayInside ==
  valid_secret_reference(text) =>
    \A i \in 0..Len(text), j \in 1..Len(text) + 1 :
      i < j /\ (i > 0 => text[i] = "slash") /\ (j <= Len(text) => text[j] = "slash")
        => SubSeq(text, i + 1, j - 1) \notin {<<>>, <<"dot">>, <<"dot", "dot">>}

\* A list is accepted exactly when it is a set of callers of a fair size,
\* whatever its order.
ListsAreSets ==
  validate_callers(callers) = "Ok" <=>
    /\ Len(callers) \in 1..MAX_CALLERS
    /\ \A i, j \in DOMAIN callers : callers[i] = callers[j] => i = j
    /\ \A i \in DOMAIN callers : valid_instance(callers[i])

\* What schemas/decide-request.schema.json and cancel-request.schema.json say:
\* a reason is any text of so many characters.  The service wants one that is
\* not blank, has no control character and fits in as many bytes.
ReasonsAsPublished == ReasonSchema(text) => valid_reason(text)
=============================================================================
