------------------------- MODULE IdentifiersProofs -------------------------
(***************************************************************************)
(* The properties of Identifiers hold of texts and lists of any length,    *)
(* whatever the limits: the proofs ask of a text only that it is a         *)
(* sequence of characters.                                                 *)
(***************************************************************************)
EXTENDS Identifiers, FiniteSetTheorems, SequenceTheorems, TLAPS

-----------------------------------------------------------------------------
(* What there is to look at *)

\* Texts are sequences of characters and lists are sequences of such texts.
TextTypeOK == text \in Seq(Characters) /\ callers \in Seq(Seq(Characters))

\* Every text and list the exploration reaches is one a field can hold.
THEOREM TextsTyped == TextSpec => []TextTypeOK
<1>1. TextInit => TextTypeOK
  BY DEF TextInit, TextTypeOK
<1>2. TextTypeOK /\ [TextNext]_textVars => TextTypeOK'
  <2> SUFFICES ASSUME TextTypeOK, [TextNext]_textVars
      PROVE  TextTypeOK'
    OBVIOUS
  <2>1. CASE \E ch \in Characters : Type(ch)
    BY <2>1, AppendProperties DEF TextTypeOK, Type
  <2>2. CASE \E name \in Names : Enter(name)
    BY <2>2, AppendProperties, NamesAssumption DEF TextTypeOK, Enter
  <2>3. CASE UNCHANGED textVars
    BY <2>3 DEF TextTypeOK, textVars
  <2> QED  BY <2>1, <2>2, <2>3 DEF TextNext
<1> QED  BY <1>1, <1>2, PTL DEF TextSpec

-----------------------------------------------------------------------------
(* Bytes, characters and slashes *)

\* A text of n characters has at least n bytes, and just n if none is wide.
LEMMA Measured ==
  ASSUME NEW value \in Seq(Characters)
  PROVE  /\ Bytes(value) \in Nat
         /\ Len(value) <= Bytes(value)
         /\ Wide \cap Range(value) = {} => Bytes(value) = Len(value)
<1> DEFINE wide == {i \in DOMAIN value : value[i] \in Wide}
<1>1. Len(value) \in Nat /\ DOMAIN value = 1..Len(value)
  BY LenProperties
<1>2. IsFiniteSet(1..Len(value))
  BY <1>1, FS_Interval
<1>3. IsFiniteSet(wide)
  BY <1>1, <1>2, FS_Subset
<1>4. Cardinality(wide) \in Nat
  BY <1>3, FS_CardinalityType
<1>5. ASSUME Wide \cap Range(value) = {}
      PROVE  Cardinality(wide) = 0
  <2>1. wide = {}
    BY <1>5 DEF Range
  <2> QED  BY <2>1, FS_EmptySet
<1> QED  BY <1>1, <1>4, <1>5 DEF Bytes

\* An alphabet without wide characters is measured in either unit.
LEMMA WithinCounts ==
  ASSUME NEW value \in Seq(Characters), NEW alphabet, NEW maximum \in Nat,
         Wide \cap alphabet = {}
  PROVE  Within(value, alphabet, maximum)
           <=> Len(value) \in 1..maximum /\ Range(value) \subseteq alphabet
<1>1. Len(value) \in Nat /\ (value # <<>> <=> Len(value) # 0)
  BY EmptySeq, LenProperties
<1>2. Range(value) \subseteq alphabet => Bytes(value) = Len(value)
  BY Measured
<1> QED  BY <1>1, <1>2 DEF Within

\* The characters of a text are those at its positions.
LEMMA InRange ==
  ASSUME NEW value \in Seq(Characters)
  PROVE  /\ DOMAIN value = 1..Len(value)
         /\ Len(value) \in Nat
         /\ \A i \in 1..Len(value) : value[i] \in Characters /\ value[i] \in Range(value)
         /\ \A ch \in Range(value) : \E i \in 1..Len(value) : value[i] = ch
         /\ Range(value) \subseteq Characters
BY LenProperties, ElementOfSeq DEF Range

\* A text without slashes is its only segment.
LEMMA UncutSegment ==
  ASSUME NEW value \in Seq(Characters), Slashes(value) = {}
  PROVE  value \in Segments(value)
<1>1. Len(value) \in Nat
  BY LenProperties
<1>2. SubSeq(value, 0 + 1, Len(value) + 1 - 1) = value
  BY <1>1, SubSeqFull
<1>3. <<0, Len(value) + 1>> \in {0, Len(value) + 1} \X {0, Len(value) + 1}
  OBVIOUS
<1> QED  BY <1>1, <1>2, <1>3 DEF Segments

\* Between two cuts with none in between stands a segment.
LEMMA CutSegment ==
  ASSUME NEW value \in Seq(Characters),
         NEW i \in {0, Len(value) + 1} \cup Slashes(value),
         NEW j \in {0, Len(value) + 1} \cup Slashes(value),
         i < j, \A k \in {0, Len(value) + 1} \cup Slashes(value) : k <= i \/ j <= k
  PROVE  SubSeq(value, i + 1, j - 1) \in Segments(value)
<1> DEFINE cuts == {0, Len(value) + 1} \cup Slashes(value)
           cut == <<i, j>>
<1>1. cut \in cuts \X cuts /\ cut[1] = i /\ cut[2] = j
  OBVIOUS
<1> QED  BY <1>1, Zenon DEF Segments

-----------------------------------------------------------------------------
(* What the schemas publish *)

\* A short text without wide characters is one a pattern of the schemas with
\* the same characters accepts.
LEMMA ReferenceCounts ==
  ASSUME NEW value \in Seq(Characters), NEW maximum \in Nat
  PROVE  /\ Within(value, Alphanumeric \cup {"dot", "dash", "colon", "slash"}, maximum)
              <=> ReferenceSchema(value, maximum)
         /\ Within(value, Alphanumeric \cup {"dot", "dash", "colon"}, maximum)
              <=> ReferenceSchema(value, maximum) /\ "slash" \notin Range(value)
<1> DEFINE path == Alphanumeric \cup {"dot", "dash", "colon", "slash"}
           plain == Alphanumeric \cup {"dot", "dash", "colon"}
<1>1. Wide \cap path = {} /\ Wide \cap plain = {}
  BY DEF Wide, Alphanumeric, Lowercase
<1>2. Range(value) \subseteq Characters
  BY InRange
<1>3. Range(value) \subseteq path
        <=> (Wide \cup Blank \cup Control) \cap Range(value) = {}
  BY <1>2 DEF Characters, Wide, Blank, Control, Alphanumeric, Lowercase
<1>4. Range(value) \subseteq plain
        <=> (Wide \cup Blank \cup Control) \cap Range(value) = {} /\ "slash" \notin Range(value)
  BY <1>2 DEF Characters, Wide, Blank, Control, Alphanumeric, Lowercase
<1>5. Within(value, path, maximum) <=> Len(value) \in 1..maximum /\ Range(value) \subseteq path
  BY <1>1, WithinCounts
<1>6. Within(value, plain, maximum) <=> Len(value) \in 1..maximum /\ Range(value) \subseteq plain
  BY <1>1, WithinCounts
<1> QED  BY <1>3, <1>4, <1>5, <1>6 DEF ReferenceSchema

\* A kind is accepted where its pattern matches.
LEMMA KindCounts ==
  ASSUME NEW value \in Seq(Characters)
  PROVE  valid_kind(value) <=> KindSchema(value)
<1> DEFINE alphabet == Lowercase \cup {"dot", "dash"}
<1>1. /\ DOMAIN value = 1..Len(value)
      /\ Len(value) \in Nat
      /\ \A i \in 1..Len(value) : value[i] \in Characters /\ value[i] \in Range(value)
      /\ \A ch \in Range(value) : \E i \in 1..Len(value) : value[i] = ch
  BY InRange
<1>2. Within(value, alphabet, MAX_KIND)
        <=> Len(value) \in 1..MAX_KIND /\ Range(value) \subseteq alphabet
  <2>1. Wide \cap alphabet = {}
    BY DEF Wide, Lowercase
  <2> QED  BY <2>1, WithinCounts, LimitsAssumption
<1>3. MAX_KIND \in Nat
  BY LimitsAssumption
<1>4. Len(value) # 0 => Head(value) = value[1]
  BY <1>1
<1>5. ASSUME valid_kind(value)
      PROVE  KindSchema(value)
  <2>1. /\ Len(value) \in 1..MAX_KIND
        /\ Range(value) \subseteq alphabet
        /\ value[1] \in Alphanumeric
        /\ value[Len(value)] \in Alphanumeric
    BY <1>1, <1>2, <1>3, <1>4, <1>5 DEF valid_kind
  <2>2. ASSUME NEW i \in 1..Len(value)
        PROVE  \/ value[i] \in Lowercase
               \/ value[i] \in {"dot", "dash"} /\ i \notin {1, Len(value)}
    <3>1. value[i] \in alphabet
      BY <1>1, <2>1
    <3>2. {"dot", "dash"} \cap Alphanumeric = {}
      BY DEF Alphanumeric, Lowercase
    <3> QED  BY <2>1, <3>1, <3>2
  <2> QED  BY <1>1, <2>1, <2>2 DEF KindSchema
<1>6. ASSUME KindSchema(value)
      PROVE  valid_kind(value)
  <2>1. /\ Len(value) \in 1..MAX_KIND
        /\ \A i \in 1..Len(value) :
             \/ value[i] \in Lowercase
             \/ value[i] \in {"dot", "dash"} /\ i \notin {1, Len(value)}
    BY <1>1, <1>6 DEF KindSchema
  <2>2. Range(value) \subseteq alphabet
    BY <1>1, <2>1
  <2>3. 1 \in 1..Len(value) /\ Len(value) \in 1..Len(value)
    <3>1. Len(value) \in 1..MAX_KIND
      BY <2>1
    <3> QED  BY <1>3, <3>1
  <2>4. value[1] \in Lowercase /\ value[Len(value)] \in Lowercase
    BY <2>1, <2>3
  <2>5. Within(value, alphabet, MAX_KIND)
    BY <1>2, <2>1, <2>2
  <2>6. Head(value) = value[1]
    BY <1>4, <2>3
  <2> QED  BY <2>4, <2>5, <2>6 DEF valid_kind, Alphanumeric
<1> QED  BY <1>5, <1>6

\* Whatever the limits, the validators accept exactly the ids, keys, references
\* and kinds the schemas publish: measuring in bytes refuses nobody.
THEOREM AsPublished == TextSpec => []AcceptsAsPublished
<1>1. TextTypeOK => AcceptsAsPublished
  <2> SUFFICES ASSUME TextTypeOK
      PROVE  AcceptsAsPublished
    OBVIOUS
  <2>1. text \in Seq(Characters) /\ MAX_IDENTIFIER \in Nat /\ MAX_REFERENCE \in Nat
    BY LimitsAssumption DEF TextTypeOK
  <2>2. valid_kind(text) <=> KindSchema(text)
    BY <2>1, KindCounts
  <2>3. valid_reference(text) <=> ReferenceSchema(text, MAX_REFERENCE)
    BY <2>1, ReferenceCounts DEF valid_reference
  <2>4. valid_identifier(text, MAX_IDENTIFIER)
          <=> ReferenceSchema(text, MAX_IDENTIFIER) /\ "slash" \notin Range(text)
    BY <2>1, ReferenceCounts DEF valid_identifier
  <2> QED  BY <2>2, <2>3, <2>4 DEF AcceptsAsPublished
<1> QED  BY <1>1, TextsTyped, PTL

\* Whatever the limit, an accepted reason says something, fits the schema that
\* readers decode it with, and can be stored.
THEOREM Reasons == TextSpec => []ReasonsStorable
<1>1. TextTypeOK => ReasonsStorable
  <2> SUFFICES ASSUME TextTypeOK, valid_reason(text)
      PROVE  /\ ReasonSchema(text) /\ Range(text) \cap Control = {}
             /\ \E i \in DOMAIN text : text[i] \notin Blank
    BY DEF ReasonsStorable
  <2>1. text \in Seq(Characters) /\ MAX_REASON \in Nat
    BY LimitsAssumption DEF TextTypeOK
  <2>2. Bytes(text) \in Nat /\ Len(text) <= Bytes(text) /\ Len(text) \in Nat
    BY <2>1, Measured, InRange
  <2>3. ReasonSchema(text)
    BY <2>1, <2>2 DEF valid_reason, ReasonSchema
  <2>4. \E i \in DOMAIN text : text[i] \notin Blank
    BY DEF valid_reason, Range
  <2> QED  BY <2>3, <2>4 DEF valid_reason
<1> QED  BY <1>1, TextsTyped, PTL

-----------------------------------------------------------------------------
(* What is between slashes *)

\* A text has a finite number of slashes, each inside it.
LEMMA SlashesFinite ==
  ASSUME NEW value \in Seq(Characters)
  PROVE  /\ IsFiniteSet(Slashes(value))
         /\ Cardinality(Slashes(value)) \in Nat
         /\ \A i \in Slashes(value) : i \in 1..Len(value) /\ value[i] = "slash"
<1>1. DOMAIN value = 1..Len(value) /\ Len(value) \in Nat
  BY InRange
<1>2. Slashes(value) \in SUBSET (1..Len(value))
  BY <1>1 DEF Slashes
<1>3. IsFiniteSet(1..Len(value))
  BY <1>1, FS_Interval
<1>4. IsFiniteSet(Slashes(value))
  BY <1>2, <1>3, FS_Subset
<1> QED  BY <1>2, <1>4, FS_CardinalityType DEF Slashes

\* A caller with one slash is a plugin, the slash, and an instance.
LEMMA OneSlash ==
  ASSUME NEW value \in Seq(Characters), NEW i, Slashes(value) = {i},
         \A segment \in Segments(value) : segment # <<>>
  PROVE  /\ i \in 2..Len(value) - 1
         /\ value[i] = "slash"
         /\ SubSeq(value, 1, i - 1) \in Segments(value)
         /\ SubSeq(value, i + 1, Len(value)) \in Segments(value)
<1>1. Len(value) \in Nat /\ i \in 1..Len(value) /\ value[i] = "slash"
  BY InRange, SlashesFinite
<1>2. SubSeq(value, 0 + 1, i - 1) \in Segments(value)
  <2>1. \A k \in {0, Len(value) + 1} \cup Slashes(value) : k <= 0 \/ i <= k
    BY <1>1
  <2> QED  BY <1>1, <2>1, CutSegment
<1>3. SubSeq(value, i + 1, Len(value) + 1 - 1) \in Segments(value)
  <2>1. \A k \in {0, Len(value) + 1} \cup Slashes(value) : k <= i \/ Len(value) + 1 <= k
    BY <1>1
  <2> QED  BY <1>1, <2>1, CutSegment
<1>4. SubSeq(value, 1, i - 1) \in Segments(value)
  BY <1>2
<1>5. SubSeq(value, i + 1, Len(value)) \in Segments(value)
  BY <1>1, <1>3
<1>6. i # 1
  <2>1. i = 1 => SubSeq(value, 1, i - 1) = <<>>
    BY <1>1, SubSeqEmpty
  <2> QED  BY <1>4, <2>1
<1>7. i # Len(value)
  <2>1. i = Len(value) => SubSeq(value, i + 1, Len(value)) = <<>>
    BY <1>1, SubSeqEmpty
  <2> QED  BY <1>5, <2>1
<1> QED  BY <1>1, <1>4, <1>5, <1>6, <1>7

\* Whatever the limit, a caller that is accepted names a plugin, and with it an
\* instance or none, in one way only.
THEOREM Unambiguous == TextSpec => []CallersUnambiguous
<1>1. TextTypeOK => CallersUnambiguous
  <2> SUFFICES ASSUME TextTypeOK, valid_instance(text)
      PROVE  \/ valid_identifier(text, MAX_INSTANCE)
             \/ \E i \in 2..Len(text) - 1 :
                  /\ text[i] = "slash"
                  /\ valid_identifier(SubSeq(text, 1, i - 1), MAX_INSTANCE)
                  /\ valid_identifier(SubSeq(text, i + 1, Len(text)), MAX_INSTANCE)
    BY DEF CallersUnambiguous
  <2>1. text \in Seq(Characters)
    BY DEF TextTypeOK
  <2>2. \A segment \in Segments(text) : valid_identifier(segment, MAX_INSTANCE)
    BY DEF valid_instance
  <2>3. Cardinality(Slashes(text)) + 1 \in 1..2
    BY DEF valid_instance
  <2>4. IsFiniteSet(Slashes(text)) /\ Cardinality(Slashes(text)) \in {0, 1}
    BY <2>1, <2>3, SlashesFinite
  <2>5. CASE Cardinality(Slashes(text)) = 0
    <3>1. Slashes(text) = {}
      BY <2>4, <2>5, FS_EmptySet
    <3> QED  BY <2>1, <2>2, <3>1, UncutSegment
  <2>6. CASE Cardinality(Slashes(text)) = 1
    <3>1. PICK i : Slashes(text) = {i}
      BY <2>4, <2>6, FS_Singleton
    <3>2. \A segment \in Segments(text) : segment # <<>>
      BY <2>2 DEF valid_identifier, Within
    <3>3. /\ i \in 2..Len(text) - 1
          /\ text[i] = "slash"
          /\ SubSeq(text, 1, i - 1) \in Segments(text)
          /\ SubSeq(text, i + 1, Len(text)) \in Segments(text)
      BY <2>1, <3>1, <3>2, OneSlash
    <3> QED  BY <2>2, <3>3
  <2> QED  BY <2>4, <2>5, <2>6
<1> QED  BY <1>1, TextsTyped, PTL

\* What holds a slash is no name of a directory.
LEMMA SlashedPart ==
  ASSUME NEW value \in Seq(Characters),
         NEW i \in 0..Len(value), NEW j \in 1..Len(value) + 1,
         NEW k \in 1..Len(value), i < k, k < j, value[k] = "slash"
  PROVE  SubSeq(value, i + 1, j - 1) \notin {<<>>, <<"dot">>, <<"dot", "dot">>}
<1> DEFINE part == SubSeq(value, i + 1, j - 1)
<1>1. Len(value) \in Nat /\ \A n \in 1..Len(value) : value[n] \in Characters
  BY InRange
<1>2. i + 1 \in Int /\ j - 1 \in Int /\ \A n \in (i + 1)..(j - 1) : value[n] \in Characters
  BY <1>1
<1>3. /\ Len(part) = IF i + 1 <= j - 1 THEN j - 1 - (i + 1) + 1 ELSE 0
      /\ \A n \in 1..(j - 1) - (i + 1) + 1 : part[n] = value[i + 1 + n - 1]
  BY <1>2, SubSeqProperties
<1>4. k - i \in 1..(j - 1) - (i + 1) + 1 /\ i + 1 + (k - i) - 1 = k
  BY <1>1
<1>5. part[k - i] = "slash"
  BY <1>3, <1>4
<1>6. k - i \in 1..Len(part)
  BY <1>1, <1>3, <1>4
<1> HIDE DEF part
<1>7. \E n \in 1..Len(part) : part[n] = "slash"
  BY <1>5, <1>6
<1>8. part # <<>>
  BY <1>7
<1>9. part # <<"dot">>
  <2> SUFFICES ASSUME NEW s, s = <<"dot">>
      PROVE  ~\E n \in 1..Len(s) : s[n] = "slash"
    BY <1>7
  <2> QED  OBVIOUS
<1>10. part # <<"dot", "dot">>
  <2> SUFFICES ASSUME NEW s, s = <<"dot", "dot">>
      PROVE  ~\E n \in 1..Len(s) : s[n] = "slash"
    BY <1>7
  <2> QED  OBVIOUS
<1> QED  BY <1>8, <1>9, <1>10 DEF part

\* Whatever the limit, an accepted secret reference names something between any
\* two slashes, and never climbs out of the directory it is read in.
THEOREM SecretsInside == TextSpec => []SecretsStayInside
<1>1. TextTypeOK => SecretsStayInside
  <2> SUFFICES ASSUME TextTypeOK, valid_secret_reference(text),
                      NEW i \in 0..Len(text), NEW j \in 1..Len(text) + 1,
                      i < j, i > 0 => text[i] = "slash", j <= Len(text) => text[j] = "slash"
      PROVE  SubSeq(text, i + 1, j - 1) \notin {<<>>, <<"dot">>, <<"dot", "dot">>}
    BY DEF SecretsStayInside
  <2>1. text \in Seq(Characters)
    BY DEF TextTypeOK
  <2>2. Len(text) \in Nat /\ DOMAIN text = 1..Len(text)
    BY <2>1, InRange
  <2>3. /\ Len(text) # 0
        /\ text[1] # "slash" /\ text[Len(text)] # "slash"
        /\ \A n \in 1..Len(text) - 1 : text[n] = "slash" => text[n + 1] # "slash"
        /\ \A segment \in Segments(text) : segment \notin {<<"dot">>, <<"dot", "dot">>}
    <3>1. text # <<>>
      BY DEF valid_secret_reference, Within
    <3>2. Len(text) # 0
      BY <2>1, <3>1, EmptySeq
    <3>3. Head(text) = text[1]
      BY <2>1, <3>1
    <3> QED  BY <3>2, <3>3 DEF valid_secret_reference
  <2>4. CASE \E k \in 1..Len(text) : i < k /\ k < j /\ text[k] = "slash"
    BY <2>1, <2>4, SlashedPart
  <2>5. CASE \A k \in 1..Len(text) : i < k /\ k < j => text[k] # "slash"
    <3>1. \A k \in {0, Len(text) + 1} \cup Slashes(text) : k <= i \/ j <= k
      BY <2>2, <2>5 DEF Slashes
    <3>2. /\ i \in {0, Len(text) + 1} \cup Slashes(text)
          /\ j \in {0, Len(text) + 1} \cup Slashes(text)
      BY <2>2 DEF Slashes
    <3>3. SubSeq(text, i + 1, j - 1) \in Segments(text)
      BY <2>1, <3>1, <3>2, CutSegment
    <3>4. i + 1 # j
      BY <2>2, <2>3
    <3>5. SubSeq(text, i + 1, j - 1) # <<>>
      <4>1. \A n \in (i + 1)..(j - 1) : text[n] \in Characters
        BY <2>1, <2>2, InRange
      <4>2. Len(SubSeq(text, i + 1, j - 1)) = (j - 1) - (i + 1) + 1
        BY <2>2, <3>4, <4>1, SubSeqProperties
      <4> QED  BY <2>2, <3>4, <4>2, EmptySeq
    <3> QED  BY <2>3, <3>3, <3>5
  <2> QED  BY <2>4, <2>5
<1> QED  BY <1>1, TextsTyped, PTL

-----------------------------------------------------------------------------
(* Caller lists *)

\* A list has as many members as entries just when no entry is repeated.
LEMMA NoneTwice ==
  ASSUME NEW T, NEW list \in Seq(T)
  PROVE  Cardinality(Range(list)) = Len(list)
           <=> \A i, j \in DOMAIN list : list[i] = list[j] => i = j
<1>1. Len(list) \in Nat /\ DOMAIN list = 1..Len(list) /\ list \in [1..Len(list) -> T]
  BY LenProperties
<1>2. IsFiniteSet(1..Len(list)) /\ Cardinality(1..Len(list)) = Len(list)
  BY <1>1, FS_Interval
<1>3. list \in Surjection(1..Len(list), Range(list))
  BY <1>1 DEF Surjection, Range
<1>4. Cardinality(Range(list)) = Cardinality(1..Len(list))
        <=> list \in Injection(1..Len(list), Range(list))
  BY <1>2, <1>3, FS_Surjection
<1>5. list \in Injection(1..Len(list), Range(list))
        <=> \A i, j \in 1..Len(list) : list[i] = list[j] => i = j
  BY <1>1 DEF Injection, IsInjective, Range
<1> QED  BY <1>1, <1>2, <1>4, <1>5

\* Whatever the limits and the names, a list is accepted exactly when it has a
\* fair number of entries, each a caller, none of them twice.
THEOREM Lists == TextSpec => []ListsAreSets
<1>1. TextTypeOK => ListsAreSets
  <2> SUFFICES ASSUME TextTypeOK
      PROVE  validate_callers(callers) = "Ok" <=>
               /\ Len(callers) \in 1..MAX_CALLERS
               /\ \A i, j \in DOMAIN callers : callers[i] = callers[j] => i = j
               /\ \A i \in DOMAIN callers : valid_instance(callers[i])
    BY DEF ListsAreSets
  <2>1. callers \in Seq(Seq(Characters)) /\ MAX_CALLERS \in Nat
    BY LimitsAssumption DEF TextTypeOK
  <2>2. Len(callers) \in Nat /\ (callers = <<>> <=> Len(callers) = 0)
    BY <2>1, EmptySeq, LenProperties
  <2>3. callers = <<>> \/ Len(callers) > MAX_CALLERS <=> Len(callers) \notin 1..MAX_CALLERS
    BY <2>1, <2>2
  <2>4. (\E caller \in Range(callers) : ~valid_instance(caller))
          <=> ~\A i \in DOMAIN callers : valid_instance(callers[i])
    BY DEF Range
  <2>5. Cardinality(Range(callers)) = Len(callers)
          <=> \A i, j \in DOMAIN callers : callers[i] = callers[j] => i = j
    BY <2>1, NoneTwice
  <2>6. validate_callers(callers) = "Ok" <=>
          /\ ~(callers = <<>> \/ Len(callers) > MAX_CALLERS)
          /\ ~\E caller \in Range(callers) : ~valid_instance(caller)
          /\ Cardinality(Range(callers)) = Len(callers)
    BY DEF validate_callers
  <2> QED  BY <2>3, <2>4, <2>5, <2>6
<1> QED  BY <1>1, TextsTyped, PTL
=============================================================================
