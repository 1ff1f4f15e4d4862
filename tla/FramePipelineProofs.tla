--------------------------- MODULE FramePipelineProofs ---------------------------
(***************************************************************************)
(* Proofs about FramePipeline for any number of frames and sessions, any   *)
(* pre-roll, distance of keyframes and frame budget, under every           *)
(* interleaving of the two streaming threads and the session's methods.    *)
(***************************************************************************)
EXTENDS FramePipeline, FiniteSetTheorems, TLAPS

--------------------------------------------------------------------------------
(* Sequences. *)

\* What is left of a sequence without its first elements.
LEMMA FromFacts ==
  ASSUME NEW S, NEW s \in Seq(S), NEW k \in 1..(Len(s) + 1)
  PROVE  /\ From(s, k) \in Seq(S)
         /\ Len(From(s, k)) = Len(s) - k + 1
         /\ \A i \in 1..Len(From(s, k)) : From(s, k)[i] = s[i + k - 1]
         /\ From(s, k) = <<>> <=> k = Len(s) + 1
<1>1. From(s, k) \in Seq(S) /\ Len(From(s, k)) = Len(s) - k + 1
  BY DEF From
<1>2. \A i \in 1..Len(From(s, k)) : From(s, k)[i] = s[i + k - 1]
  BY <1>1 DEF From
<1>3. From(s, k) = <<>> <=> k = Len(s) + 1
  BY <1>1
<1>4. QED
  BY <1>1, <1>2, <1>3

LEMMA ToSetIs ==
  ASSUME NEW S, NEW s \in Seq(S)
  PROVE  ToSet(s) = {s[i] : i \in 1..Len(s)}
BY DEF ToSet

\* The elements of a sequence, of a concatenation and of a tail.
LEMMA ToSetFacts ==
  ASSUME NEW S, NEW s \in Seq(S), NEW r \in Seq(S)
  PROVE  /\ ToSet(s) \subseteq S
         /\ ToSet(s \o r) = ToSet(s) \union ToSet(r)
         /\ s # <<>> => ToSet(Tail(s)) \subseteq ToSet(s) /\ Head(s) \in ToSet(s)
<1>1. ToSet(s) = {s[i] : i \in 1..Len(s)} /\ ToSet(r) = {r[i] : i \in 1..Len(r)}
  BY ToSetIs
<1>2. ToSet(s) \subseteq S
  BY <1>1
<1>3. ToSet(s \o r) = ToSet(s) \union ToSet(r)
  <2>1. s \o r \in Seq(S) /\ Len(s \o r) = Len(s) + Len(r)
    OBVIOUS
  <2>2. ToSet(s \o r) = {(s \o r)[i] : i \in 1..Len(s \o r)}
    BY <2>1, ToSetIs
  <2>3. \A i \in 1..Len(s) : (s \o r)[i] = s[i]
    OBVIOUS
  <2>4. \A i \in 1..Len(r) : (s \o r)[i + Len(s)] = r[i] /\ i + Len(s) \in 1..Len(s \o r)
    BY <2>1
  <2>5. \A i \in 1..Len(s \o r) : i \in 1..Len(s) \/ (i - Len(s) \in 1..Len(r) /\ (s \o r)[i] = r[i - Len(s)])
    BY <2>1
  <2>6. ToSet(s \o r) \subseteq ToSet(s) \union ToSet(r)
    BY <1>1, <2>2, <2>3, <2>5
  <2>7. ToSet(s) \union ToSet(r) \subseteq ToSet(s \o r)
    BY <1>1, <2>1, <2>2, <2>3, <2>4
  <2>8. QED
    BY <2>6, <2>7
<1>4. ASSUME s # <<>> PROVE ToSet(Tail(s)) \subseteq ToSet(s) /\ Head(s) \in ToSet(s)
  <2>1. Tail(s) \in Seq(S) /\ Len(Tail(s)) = Len(s) - 1 /\ Len(s) \in Nat \ {0}
    BY <1>4
  <2>2. \A i \in 1..Len(Tail(s)) : Tail(s)[i] = s[i + 1] /\ i + 1 \in 1..Len(s)
    BY <2>1
  <2>3. ToSet(Tail(s)) = {Tail(s)[i] : i \in 1..Len(Tail(s))}
    BY <2>1, ToSetIs
  <2>4. Head(s) = s[1] /\ 1 \in 1..Len(s)
    BY <2>1
  <2>5. QED
    BY <1>1, <2>2, <2>3, <2>4
<1>5. QED
  BY <1>1, <1>2, <1>3, <1>4

--------------------------------------------------------------------------------
(***************************************************************************)
(* Types. The pre-roll is the last frames sampled before the one the       *)
(* streaming thread is at, without a gap, which bounds its length.         *)
(***************************************************************************)
Top == IF pc \in {"preroll", "describe", "append"} THEN now - 1 ELSE now

PreRoll ==
  /\ \A i \in 1..Len(detecting_buffer) : detecting_buffer[i] = Top - Len(detecting_buffer) + i
  /\ pc \in {"test", "caption", "push", "count", "store"} => detecting_buffer = <<>>

Base ==
  /\ TypeOK /\ PreRoll
  /\ IsFiniteSet(metadata_store) /\ metadata_store \subseteq 1..now
  /\ pc # "idle" => now \in Frames
  /\ dpc # "idle" => decoded \in Frames

\* A frame in preparation is in the pipeline's first half.
LEMMA BaseInit == Init => Base
<1>1. IsFiniteSet({}) /\ Cardinality({}) = 0
  BY FS_EmptySet
<1> SUFFICES ASSUME Init PROVE Base
  OBVIOUS
<1>2. /\ detecting_buffer \in Seq(Frames) /\ Len(detecting_buffer) = 0
      /\ decoder \in Seq(Frames)
  BY DEF Init
<1>3. /\ IsFiniteSet(metadata_store) /\ Cardinality(metadata_store) <= StoreMax
      /\ metadata_store \subseteq {}
  BY <1>1, FrameAssumption DEF Init
<1>4. 0 \in Txns /\ now \in 0..MaxFrame /\ last \in 0..MaxFrame /\ decoded \in 0..MaxFrame
  BY FrameAssumption DEF Init, Txns
<1>5. TypeOK
  <2>1. /\ is_feeding \in BOOLEAN
        /\ raced \in BOOLEAN /\ lowered \in BOOLEAN /\ broken \in BOOLEAN
    BY Zenon DEF Init
  <2>2. /\ detecting_txn \in Txns /\ running \in Nat
        /\ clearing \in Nat /\ feeding_count \in Nat /\ counted \in Nat
        /\ pushed \in Nat /\ Len(detecting_buffer) <= Window + 1
        /\ fed \in [Frames -> Txns]
    BY <1>2, <1>4, FrameAssumption DEF Init
  <2>3. /\ metadata_store \subseteq Frames /\ cam_queue \subseteq Entries
        /\ late \subseteq Frames /\ lost \subseteq Frames
        /\ pc = "idle" /\ dpc = "idle"
    BY <1>3 DEF Init
  <2>4. QED
    BY <1>2, <1>3, <1>4, <2>1, <2>2, <2>3 DEF TypeOK
<1>6. QED
  BY <1>2, <1>3, <1>5 DEF Init, Base, PreRoll

\* edit_sample_caption keeps metadata_store within its bound.
LEMMA CaptionType ==
  ASSUME Base, edit_sample_caption(now), now \in Frames
  PROVE  /\ metadata_store' \subseteq metadata_store \union {now}
         /\ metadata_store' \subseteq Frames /\ metadata_store' \subseteq 1..now
         /\ IsFiniteSet(metadata_store') /\ Cardinality(metadata_store') <= StoreMax
<1> DEFINE all == metadata_store \union {now}
<1>1. /\ IsFiniteSet(metadata_store) /\ Cardinality(metadata_store) \in Nat
      /\ Cardinality(metadata_store) <= StoreMax /\ StoreMax \in Nat /\ now \in Nat
  BY FS_CardinalityType, FrameAssumption DEF Base, TypeOK, Frames
<1>2. IsFiniteSet(all) /\ Cardinality(all) \in {Cardinality(metadata_store), Cardinality(metadata_store) + 1}
  BY <1>1, FS_AddElement
<1>3. all \subseteq Frames /\ all \subseteq 1..now
  BY <1>1 DEF Base, TypeOK, Frames
<1>4. CASE Cardinality(all) <= StoreMax /\ metadata_store' = all
  BY <1>2, <1>3, <1>4
<1>5. CASE \E oldest \in all : metadata_store' = all \ {oldest}
  <2>1. PICK oldest \in all : metadata_store' = all \ {oldest}
    BY <1>5
  <2>2. IsFiniteSet(all \ {oldest}) /\ Cardinality(all \ {oldest}) = Cardinality(all) - 1
    BY <1>2, FS_RemoveElement
  <2>3. QED
    BY <1>1, <1>2, <1>3, <2>1, <2>2
<1>6. QED
  BY <1>4, <1>5 DEF edit_sample_caption

\* What the pre-roll pushes: a part of it that ends where it ends, in order, and that
\* begins with a keyframe.
LEMMA PreRollPushed ==
  ASSUME Base, push_detecting_buffer
  PROVE  \E frames \in Seq(Frames) :
           /\ Push(frames)
           /\ feeding_count' = feeding_count + Len(frames)
           /\ broken' = (frames = <<>> /\ (broken \/ detecting_buffer # <<>>))
           /\ Len(frames) <= Len(detecting_buffer)
           /\ \A i \in 1..Len(frames) : frames[i] = now - 1 - Len(frames) + i
           /\ frames # <<>> => IsKey(frames[1])
           /\ ToSet(frames) \subseteq ToSet(detecting_buffer)
<1> DEFINE b == detecting_buffer
<1>1. PICK k \in 1..(Len(b) + 1) :
        /\ FirstKey(k)
        /\ Push(From(b, k))
        /\ feeding_count' = feeding_count + Len(From(b, k))
        /\ broken' = (From(b, k) = <<>> /\ (broken \/ b # <<>>))
  BY DEF push_detecting_buffer
<1> DEFINE frames == From(b, k)
<1>2. b \in Seq(Frames) /\ pc = "preroll" /\ now \in Nat
  BY DEF Base, TypeOK, push_detecting_buffer, Frames
<1>3. /\ frames \in Seq(Frames) /\ Len(frames) = Len(b) - k + 1
      /\ \A i \in 1..Len(frames) : frames[i] = b[i + k - 1]
      /\ frames = <<>> <=> k = Len(b) + 1
  BY <1>2, FromFacts
<1>4. \A i \in 1..Len(frames) : i + k - 1 \in 1..Len(b)
  BY <1>2, <1>3
<1>5. \A i \in 1..Len(b) : b[i] = now - 1 - Len(b) + i
  BY <1>2 DEF Base, PreRoll, Top
<1>6. \A i \in 1..Len(frames) : frames[i] = now - 1 - Len(frames) + i
  BY <1>2, <1>3, <1>4, <1>5
<1>7. frames # <<>> => IsKey(frames[1])
  <2> SUFFICES ASSUME frames # <<>> PROVE IsKey(frames[1])
    OBVIOUS
  <2>1. k <= Len(b) /\ 1 \in 1..Len(frames)
    BY <1>2, <1>3
  <2>2. frames[1] = b[k]
    BY <1>2, <1>3, <2>1
  <2>3. QED
    BY <1>1, <2>1, <2>2 DEF FirstKey
<1>8. ToSet(frames) \subseteq ToSet(b)
  BY <1>2, <1>3, <1>4, ToSetIs
<1>9. Len(frames) <= Len(b)
  BY <1>2, <1>3
<1>10. QED
  BY <1>1, <1>3, <1>6, <1>7, <1>8, <1>9

\* A push keeps the decoder and the histories typed.
LEMMA PushType ==
  ASSUME TypeOK, NEW frames \in Seq(Frames), Push(frames)
  PROVE  /\ decoder' \in Seq(Frames)
         /\ fed' \in [Frames -> Txns]
         /\ pushed' \in Nat
         /\ last' \in 0..MaxFrame
<1>1. Len(frames) \in Nat /\ (frames # <<>> => frames[Len(frames)] \in Frames)
  OBVIOUS
<1>2. last' \in 0..MaxFrame
  BY <1>1 DEF Push, TypeOK, Frames
<1>3. QED
  BY <1>1, <1>2 DEF Push, TypeOK

\* The pre-roll after add_detecting_frame.
LEMMA PreRollAdded ==
  ASSUME Base, add_detecting_frame
  PROVE  /\ detecting_buffer' \in Seq(Frames) /\ detecting_buffer' # <<>>
         /\ Len(detecting_buffer') <= Window + 1
         /\ \A i \in 1..Len(detecting_buffer') :
              detecting_buffer'[i] = now - Len(detecting_buffer') + i
         /\ ToSet(detecting_buffer') \subseteq ToSet(detecting_buffer) \union {now}
<1> DEFINE b == detecting_buffer
           all == Append(b, now)
<1>1. b \in Seq(Frames) /\ pc = "append" /\ now \in Frames /\ now \in Nat /\ Window \in Nat
  BY FrameAssumption DEF Base, TypeOK, add_detecting_frame, Frames
<1>2. all \in Seq(Frames) /\ Len(all) = Len(b) + 1
  BY <1>1
<1>3. PICK k \in 1..Len(all) : now - all[k] <= Window /\ b' = From(all, k)
  BY DEF add_detecting_frame
<1>4. \A i \in 1..Len(b) : b[i] = now - 1 - Len(b) + i
  BY <1>1 DEF Base, PreRoll, Top
<1>5. \A i \in 1..Len(all) : all[i] = now - Len(all) + i
  <2>1. \A i \in 1..Len(all) : all[i] = IF i \in 1..Len(b) THEN b[i] ELSE now
    BY <1>1, <1>2
  <2>2. QED
    BY <1>1, <1>2, <1>4, <2>1
<1>6. /\ b' \in Seq(Frames) /\ Len(b') = Len(all) - k + 1
      /\ \A i \in 1..Len(b') : b'[i] = all[i + k - 1]
  <2>1. k \in 1..(Len(all) + 1)
    BY <1>1, <1>2
  <2>2. /\ From(all, k) \in Seq(Frames) /\ Len(From(all, k)) = Len(all) - k + 1
        /\ \A i \in 1..Len(From(all, k)) : From(all, k)[i] = all[i + k - 1]
    BY <1>2, <2>1, FromFacts
  <2>3. QED
    BY <1>3, <2>2
<1>7. Len(b') <= Window + 1 /\ Len(b') >= 1
  BY <1>1, <1>2, <1>3, <1>5, <1>6
<1>8. \A i \in 1..Len(b') : b'[i] = now - Len(b') + i
  <2>1. \A i \in 1..Len(b') : i + k - 1 \in 1..Len(all)
    BY <1>1, <1>2, <1>6
  <2>2. \A i \in 1..Len(b') : b'[i] = now - Len(all) + (i + k - 1)
    BY <1>5, <1>6, <2>1
  <2>3. QED
    BY <1>1, <1>2, <1>6, <2>2
<1>9. ToSet(b') \subseteq ToSet(b) \union {now}
  <2>1. \A i \in 1..Len(b') : i + k - 1 \in 1..Len(b) \/ i + k - 1 = Len(b) + 1
    BY <1>1, <1>2, <1>6
  <2>2. \A i \in 1..Len(b') : b'[i] = now \/ \E j \in 1..Len(b) : b'[i] = b[j]
    BY <1>1, <1>2, <1>6, <2>1
  <2>3. ToSet(b') = {b'[i] : i \in 1..Len(b')} /\ ToSet(b) = {b[i] : i \in 1..Len(b)}
    BY <1>1, <1>6, ToSetIs
  <2>4. QED
    BY <2>2, <2>3
<1>10. QED
  BY <1>6, <1>7, <1>8, <1>9

LEMMA BaseNext == Base /\ [Next]_vars => Base'
<1> SUFFICES ASSUME Base, [Next]_vars PROVE Base'
  OBVIOUS
<1> USE FrameAssumption DEF session, sampler, delivery, history
<1>1. CASE Begin
  <2>1. detecting_txn' \in Txns /\ running' \in Nat /\ late' \subseteq Frames
    <3>1. ToSet(decoder) \subseteq Frames
      BY ToSetFacts DEF Base, TypeOK
    <3>2. late' \subseteq Frames
      BY <1>1, <3>1 DEF Begin, OnTheirWay, Base, TypeOK
    <3>3. detecting_txn' \in Txns /\ running' \in Nat
      BY <1>1 DEF Begin, Base, TypeOK, Txns
    <3>4. QED
      BY <3>2, <3>3
  <2>2. lowered' \in BOOLEAN
    BY <1>1, Zenon DEF Begin
  <2>3. TypeOK'
    BY <1>1, <2>1, <2>2 DEF Begin, Base, TypeOK, Live
  <2>4. QED
    BY <1>1, <2>3 DEF Begin, Base, PreRoll, Top
<1>2. CASE Extend
  BY <1>2 DEF Extend, Base, TypeOK, PreRoll, Top, Live
<1>3. CASE Stop
  <2>1. late' \subseteq Frames
    BY <1>3 DEF Stop, Base, TypeOK, Live
  <2>2. raced' \in BOOLEAN
    <3>1. Live \in BOOLEAN
      BY DEF Live
    <3>2. raced' = Live
      BY <1>3 DEF Stop
    <3>3. QED
      BY <3>1, <3>2
  <2>3. clearing' \in Nat
    BY <1>3 DEF Stop, Base, TypeOK
  <2>4. TypeOK'
    BY <1>3, <2>1, <2>2, <2>3 DEF Stop, Base, TypeOK, Live
  <2>5. QED
    BY <1>3, <2>4 DEF Stop, Base, PreRoll, Top
<1>4. CASE ClearMetadata
  <2>1. IsFiniteSet({}) /\ Cardinality({}) = 0
    BY FS_EmptySet
  <2>2. lost' \subseteq Frames
    BY <1>4, ToSetFacts DEF ClearMetadata, Base, TypeOK
  <2>3. TypeOK'
    <3>1. metadata_store' \subseteq Frames /\ Cardinality(metadata_store') <= StoreMax
      BY <1>4, <2>1 DEF ClearMetadata
    <3>2. QED
      BY <1>4, <2>2, <3>1 DEF ClearMetadata, Base, TypeOK, Live
  <2>4. QED
    BY <1>4, <2>1, <2>3 DEF ClearMetadata, Base, PreRoll, Top
<1>5. CASE Sample
  <2>1. now \in Nat /\ now' = now + 1 /\ now' \in Frames /\ pc = "idle"
        /\ pc' \in {"preroll", "describe"}
    BY <1>5 DEF Sample, Goto, Base, TypeOK, Frames
  <2>2. TypeOK'
    BY <1>5, <2>1 DEF Sample, Base, TypeOK, Live, Frames
  <2>3. PreRoll'
    BY <1>5, <2>1 DEF Sample, Base, PreRoll, Top
  <2>4. metadata_store' \subseteq 1..now'
    BY <1>5, <2>1 DEF Sample, Base
  <2>5. QED
    BY <1>5, <2>1, <2>2, <2>3, <2>4 DEF Sample, Base
<1>6. CASE Describe \/ Caption
  <2>1. now \in Frames /\ edit_sample_caption(now)
    BY <1>6 DEF Describe, Caption, Base
  <2>2. /\ metadata_store' \subseteq Frames /\ metadata_store' \subseteq 1..now
        /\ IsFiniteSet(metadata_store') /\ Cardinality(metadata_store') <= StoreMax
    BY <2>1, CaptionType
  <2>3. TypeOK'
    BY <1>6, <2>2 DEF Describe, Caption, Goto, Base, TypeOK, Live
  <2>4. PreRoll'
    BY <1>6 DEF Describe, Caption, Goto, Base, PreRoll, Top
  <2>5. QED
    BY <1>6, <2>1, <2>2, <2>3, <2>4 DEF Describe, Caption, Base
<1>7. CASE add_detecting_frame
  <2>1. /\ detecting_buffer' \in Seq(Frames) /\ Len(detecting_buffer') <= Window + 1
        /\ \A i \in 1..Len(detecting_buffer') :
             detecting_buffer'[i] = now - Len(detecting_buffer') + i
    BY <1>7, PreRollAdded
  <2>2. TypeOK'
    BY <1>7, <2>1 DEF add_detecting_frame, Goto, Base, TypeOK, Live
  <2>3. PreRoll'
    BY <1>7, <2>1 DEF add_detecting_frame, Goto, PreRoll, Top
  <2>4. QED
    BY <1>7, <2>2, <2>3 DEF add_detecting_frame, Goto, Base
<1>8. CASE push_detecting_buffer
  <2>1. PICK frames \in Seq(Frames) :
          /\ Push(frames)
          /\ feeding_count' = feeding_count + Len(frames)
          /\ broken' = (frames = <<>> /\ (broken \/ detecting_buffer # <<>>))
    BY <1>8, PreRollPushed
  <2>2. /\ decoder' \in Seq(Frames) /\ fed' \in [Frames -> Txns]
        /\ pushed' \in Nat /\ last' \in 0..MaxFrame
    BY <2>1, PushType DEF Base
  <2>3. broken' \in BOOLEAN
    BY <2>1, Zenon
  <2>4. detecting_buffer' = <<>> /\ pc' = "test"
    BY <1>8 DEF push_detecting_buffer, Goto
  <2>5. TypeOK'
    BY <1>8, <2>1, <2>2, <2>3, <2>4 DEF push_detecting_buffer, Base, TypeOK, Live
  <2>6. PreRoll'
    BY <2>4 DEF PreRoll
  <2>7. QED
    BY <1>8, <2>4, <2>5, <2>6 DEF push_detecting_buffer, Base
<1>9. CASE TestBudget
  BY <1>9 DEF TestBudget, Goto, Base, TypeOK, PreRoll, Top, Live
<1>10. CASE PushFrame
  <2>1. <<now>> \in Seq(Frames) /\ Push(<<now>>)
    BY <1>10 DEF PushFrame, Base
  <2>2. /\ decoder' \in Seq(Frames) /\ fed' \in [Frames -> Txns]
        /\ pushed' \in Nat /\ last' \in 0..MaxFrame
    BY <2>1, PushType DEF Base
  <2>3. broken' \in BOOLEAN
    BY <1>10, Zenon DEF PushFrame
  <2>4. TypeOK'
    BY <1>10, <2>2, <2>3 DEF PushFrame, Goto, Base, TypeOK, Live
  <2>5. QED
    BY <1>10, <2>4 DEF PushFrame, Goto, Base, PreRoll, Top
<1>11. CASE ReadCount \/ WriteCount
  <2>1. counted' \in Nat /\ feeding_count' \in Nat /\ pc' \in {"store", "idle"}
    BY <1>11 DEF ReadCount, WriteCount, Goto, Base, TypeOK
  <2>2. TypeOK'
    BY <1>11, <2>1 DEF ReadCount, WriteCount, Base, TypeOK, Live
  <2>3. PreRoll'
    BY <1>11, <2>1 DEF ReadCount, WriteCount, Base, PreRoll, Top
  <2>4. QED
    BY <1>11, <2>1, <2>2, <2>3 DEF ReadCount, WriteCount, Base
<1>12. CASE DropDecoded \/ Decode
  <2>1. decoder' \in Seq(Frames) /\ Head(decoder) \in Frames
    <3>1. decoder \in Seq(Frames) /\ decoder # <<>> /\ decoder' = Tail(decoder)
      BY <1>12 DEF DropDecoded, Decode, Base, TypeOK
    <3>2. QED
      BY <3>1
  <2>2. dpc' # "idle" => decoded' \in Frames
    BY <1>12, <2>1 DEF DropDecoded, Decode, Base
  <2>3. TypeOK'
    <3>1. decoded' \in 0..MaxFrame
      BY <1>12, <2>1 DEF DropDecoded, Decode, Base, TypeOK, Frames
    <3>2. dpc' \in {"idle", "lookup", "deliver"}
      BY <1>12 DEF DropDecoded, Decode, Base, TypeOK
    <3>3. QED
      BY <1>12, <2>1, <3>1, <3>2 DEF DropDecoded, Decode, Base, TypeOK, Live
  <2>4. QED
    BY <1>12, <2>2, <2>3 DEF DropDecoded, Decode, Base, PreRoll, Top
<1>13. CASE Lookup
  <2>1. IsFiniteSet(metadata_store')
    BY <1>13, FS_RemoveElement DEF Lookup, Base
  <2>2. Cardinality(metadata_store') <= Cardinality(metadata_store)
        /\ Cardinality(metadata_store) \in Nat /\ Cardinality(metadata_store') \in Nat
    <3>1. IsFiniteSet(metadata_store) /\ Cardinality(metadata_store) \in Nat
      BY FS_CardinalityType DEF Base
    <3>2. Cardinality(metadata_store') =
            IF decoded \in metadata_store THEN Cardinality(metadata_store) - 1
            ELSE Cardinality(metadata_store)
      BY <1>13, <3>1, FS_RemoveElement DEF Lookup
    <3>3. Cardinality(metadata_store') \in Nat
      BY <2>1, FS_CardinalityType
    <3>4. QED
      BY <3>1, <3>2, <3>3
  <2>3. TypeOK'
    BY <1>13, <2>2 DEF Lookup, Base, TypeOK, Live
  <2>4. QED
    BY <1>13, <2>1, <2>3 DEF Lookup, Base, PreRoll, Top
<1>14. CASE Deliver
  <2>1. cam_queue' \subseteq Entries
    BY <1>14 DEF Deliver, Base, TypeOK, Entries
  <2>2. TypeOK'
    BY <1>14, <2>1 DEF Deliver, Base, TypeOK, Live
  <2>3. QED
    BY <1>14, <2>2 DEF Deliver, Base, PreRoll, Top
<1>15. CASE UNCHANGED vars
  BY <1>15 DEF vars, Base, TypeOK, PreRoll, Top, Live
<1>16. QED
  BY <1>1, <1>2, <1>3, <1>4, <1>5, <1>6, <1>7, <1>8, <1>9, <1>10, <1>11, <1>12, <1>13, <1>14, <1>15
     DEF Next, on_new_sample, on_new_sample_decode

LEMMA BaseAlways == Spec => []Base
BY BaseInit, BaseNext, PTL DEF Spec

\* TypeOK, for any parameters: the buffers keep their types, the pre-roll its window and
\* metadata_store its bound.
THEOREM TypesHold == Spec => []TypeOK
<1>1. Base => TypeOK
  BY DEF Base
<1>2. QED
  BY <1>1, BaseAlways, PTL

--------------------------------------------------------------------------------
(***************************************************************************)
(* The frame budget. Between a frame's push and the write of its count the *)
(* two differ by that frame.                                               *)
(***************************************************************************)
CountInv ==
  ~raced =>
    /\ pc \notin {"count", "store"} => feeding_count = pushed
    /\ pc \in {"count", "store"} => pushed = feeding_count + 1
    /\ pc = "store" => counted = feeding_count

LEMMA CountNext == Base /\ CountInv /\ [Next]_vars => CountInv'
<1> SUFFICES ASSUME Base, CountInv, [Next]_vars PROVE CountInv'
  OBVIOUS
<1> USE DEF session, sampler, delivery, history
<1>1. CASE Begin \/ Extend \/ ClearMetadata \/ DropDecoded \/ Decode \/ Lookup \/ Deliver
  BY <1>1 DEF Begin, Extend, ClearMetadata, DropDecoded, Decode, Lookup, Deliver, CountInv
<1>2. CASE Stop
  BY <1>2 DEF Stop, Live, CountInv
<1>3. CASE Sample \/ Describe \/ add_detecting_frame \/ TestBudget \/ Caption
  BY <1>3 DEF Sample, Describe, add_detecting_frame, TestBudget, Caption, Goto, CountInv
<1>4. CASE push_detecting_buffer
  BY <1>4 DEF push_detecting_buffer, Push, Goto, CountInv
<1>5. CASE PushFrame
  <2>1. Len(<<now>>) = 1
    OBVIOUS
  <2>2. QED
    BY <1>5, <2>1 DEF PushFrame, Push, Goto, CountInv
<1>6. CASE ReadCount \/ WriteCount
  BY <1>6 DEF ReadCount, WriteCount, Goto, CountInv
<1>7. CASE UNCHANGED vars
  BY <1>7 DEF vars, CountInv
<1>8. QED
  BY <1>1, <1>2, <1>3, <1>4, <1>5, <1>6, <1>7 DEF Next, on_new_sample, on_new_sample_decode

\* FrameBudget, for any parameters: unless a stop_feeding came in the middle of a live
\* frame, feeding_count is the number of frames pushed since the last one.
THEOREM BudgetCounts == Spec => []FrameBudget
<1>1. Init => CountInv
  BY DEF Init, CountInv
<1>2. CountInv => FrameBudget
  BY DEF CountInv, FrameBudget
<1>3. QED
  BY <1>1, <1>2, CountNext, BaseAlways, PTL DEF Spec

--------------------------------------------------------------------------------
(***************************************************************************)
(* The order of the frames: those of the decoder were pushed before, those *)
(* of the pre-roll were not.                                               *)
(***************************************************************************)
Ahead == pc \in {"preroll", "describe", "append", "test", "caption", "push"}

Order ==
  /\ last <= now /\ (Ahead => last < now)
  /\ \A f \in ToSet(decoder) : f <= last
  /\ dpc # "idle" => decoded <= last
  /\ \A f \in ToSet(detecting_buffer) : last < f

\* A push of frames that follow each other up to frame t.
LEMMA PushOrder ==
  ASSUME Base, Order, NEW frames \in Seq(Frames), Push(frames), NEW t \in Nat,
         \A i \in 1..Len(frames) : frames[i] = t - Len(frames) + i,
         \A f \in ToSet(frames) : last < f
  PROVE  /\ last' = IF frames = <<>> THEN last ELSE t
         /\ last <= last'
         /\ ToSet(decoder') = ToSet(decoder) \union ToSet(frames)
         /\ \A f \in ToSet(decoder') : f <= last'
         /\ \A f \in Frames \ ToSet(frames) : fed'[f] = fed[f]
         /\ \A f \in ToSet(frames) : f \in Frames /\ fed'[f] = detecting_txn
<1>1. decoder \in Seq(Frames) /\ last \in Nat /\ Len(frames) \in Nat
  BY DEF Base, TypeOK
<1>2. ToSet(frames) = {frames[i] : i \in 1..Len(frames)} /\ ToSet(frames) \subseteq Frames
  BY ToSetIs, ToSetFacts
<1>3. ToSet(decoder') = ToSet(decoder) \union ToSet(frames)
  BY <1>1, ToSetFacts DEF Push
<1>4. last' = IF frames = <<>> THEN last ELSE t
  BY <1>1 DEF Push
<1>5. \A f \in ToSet(frames) : f <= t /\ frames # <<>>
  BY <1>1, <1>2
<1>6. last <= last'
  <2>1. CASE frames # <<>>
    <3>1. frames[Len(frames)] = t /\ Len(frames) \in 1..Len(frames)
      BY <1>1, <2>1
    <3>2. t \in ToSet(frames)
      BY <1>2, <3>1
    <3>3. QED
      BY <1>1, <1>4, <2>1, <3>2
  <2>2. QED
    BY <1>1, <1>4, <2>1
<1>7. ToSet(decoder) \subseteq Frames /\ \A f \in ToSet(decoder) : f <= last
  BY <1>1, ToSetFacts DEF Order
<1>8. \A f \in ToSet(decoder') : f <= last'
  BY <1>1, <1>2, <1>3, <1>4, <1>5, <1>6, <1>7 DEF Frames
<1>9. QED
  BY <1>2, <1>3, <1>4, <1>6, <1>8 DEF Push

\* The two pushes of on_new_sample.
LEMMA PreRollOrder ==
  ASSUME Base, Order, push_detecting_buffer
  PROVE  \E frames \in Seq(Frames) :
           /\ Push(frames)
           /\ broken' = (frames = <<>> /\ (broken \/ detecting_buffer # <<>>))
           /\ Len(frames) <= Len(detecting_buffer)
           /\ \A i \in 1..Len(frames) : frames[i] = now - 1 - Len(frames) + i
           /\ frames # <<>> => IsKey(frames[1])
           /\ \A f \in ToSet(frames) : last < f
           /\ ToSet(frames) \subseteq ToSet(detecting_buffer)
           /\ last' = (IF frames = <<>> THEN last ELSE now - 1) /\ last <= last'
           /\ ToSet(decoder') = ToSet(decoder) \union ToSet(frames)
           /\ \A f \in ToSet(decoder') : f <= last'
           /\ \A f \in Frames \ ToSet(frames) : fed'[f] = fed[f]
           /\ \A f \in ToSet(frames) : f \in Frames /\ fed'[f] = detecting_txn
<1>1. PICK frames \in Seq(Frames) :
        /\ Push(frames)
        /\ broken' = (frames = <<>> /\ (broken \/ detecting_buffer # <<>>))
        /\ Len(frames) <= Len(detecting_buffer)
        /\ \A i \in 1..Len(frames) : frames[i] = now - 1 - Len(frames) + i
        /\ frames # <<>> => IsKey(frames[1])
        /\ ToSet(frames) \subseteq ToSet(detecting_buffer)
  BY PreRollPushed
<1>2. now - 1 \in Nat
  BY DEF Base, push_detecting_buffer, Frames
<1>3. \A f \in ToSet(frames) : last < f
  BY <1>1 DEF Order
<1>4. /\ last' = IF frames = <<>> THEN last ELSE now - 1
      /\ last <= last'
      /\ ToSet(decoder') = ToSet(decoder) \union ToSet(frames)
      /\ \A f \in ToSet(decoder') : f <= last'
      /\ \A f \in Frames \ ToSet(frames) : fed'[f] = fed[f]
      /\ \A f \in ToSet(frames) : f \in Frames /\ fed'[f] = detecting_txn
  BY <1>1, <1>2, <1>3, PushOrder
<1>5. QED
  BY <1>1, <1>3, <1>4

LEMMA LiveOrder ==
  ASSUME Base, Order, PushFrame
  PROVE  /\ last' = now /\ last < now /\ now \in Frames
         /\ ToSet(decoder') = ToSet(decoder) \union {now}
         /\ \A f \in ToSet(decoder') : f <= last'
         /\ \A f \in Frames \ {now} : fed'[f] = fed[f]
         /\ fed'[now] = detecting_txn
<1>1. now \in Frames /\ now \in Nat /\ last < now /\ Push(<<now>>)
  BY DEF Base, Order, Ahead, PushFrame, Frames
<1>2. <<now>> \in Seq(Frames) /\ Len(<<now>>) = 1 /\ <<now>>[1] = now /\ <<now>> # <<>>
  BY <1>1
<1>3. ToSet(<<now>>) = {now}
  <2>1. 1..Len(<<now>>) = {1}
    BY <1>2
  <2>2. ToSet(<<now>>) = {<<now>>[i] : i \in 1..Len(<<now>>)}
    BY <1>2, ToSetIs
  <2>3. QED
    BY <1>2, <2>1, <2>2
<1>4. \A i \in 1..Len(<<now>>) : <<now>>[i] = now - Len(<<now>>) + i
  BY <1>1, <1>2
<1>5. /\ last' = IF <<now>> = <<>> THEN last ELSE now
      /\ ToSet(decoder') = ToSet(decoder) \union {now}
      /\ \A f \in ToSet(decoder') : f <= last'
      /\ \A f \in Frames \ {now} : fed'[f] = fed[f]
      /\ fed'[now] = detecting_txn
  BY <1>1, <1>2, <1>3, <1>4, PushOrder
<1>6. QED
  BY <1>1, <1>2, <1>5

\* What the decoder takes.
LEMMA TailOrder ==
  ASSUME Base, DropDecoded \/ Decode
  PROVE  ToSet(decoder') \subseteq ToSet(decoder) /\ Head(decoder) \in ToSet(decoder)
BY ToSetFacts DEF Base, TypeOK, DropDecoded, Decode

LEMMA OrderInit == Init => Order
BY ToSetIs DEF Init, Order, Ahead, ToSet

LEMMA OrderNext == Base /\ Order /\ [Next]_vars => Order'
<1> SUFFICES ASSUME Base, Order, [Next]_vars PROVE Order'
  OBVIOUS
<1> USE DEF session, sampler, delivery, history
<1>0. now \in Nat /\ last \in Nat
  BY DEF Base, TypeOK
<1>1. CASE Begin \/ Extend \/ Stop \/ ClearMetadata \/ Lookup \/ Deliver
  BY <1>1 DEF Begin, Extend, Stop, ClearMetadata, Lookup, Deliver, Order, Ahead
<1>2. CASE Sample
  BY <1>0, <1>2 DEF Sample, Goto, Order, Ahead
<1>3. CASE Describe \/ TestBudget \/ Caption \/ ReadCount \/ WriteCount
  BY <1>3 DEF Describe, TestBudget, Caption, ReadCount, WriteCount, Goto, Order, Ahead
<1>4. CASE add_detecting_frame
  <2>1. ToSet(detecting_buffer') \subseteq ToSet(detecting_buffer) \union {now}
    BY <1>4, PreRollAdded
  <2>2. QED
    BY <1>4, <2>1 DEF add_detecting_frame, Goto, Order, Ahead
<1>5. CASE push_detecting_buffer
  <2>1. /\ last' \in {last, now - 1} /\ last <= last'
        /\ \A f \in ToSet(decoder') : f <= last'
    BY <1>5, PreRollOrder
  <2>2. last < now /\ detecting_buffer' = <<>> /\ UNCHANGED <<now, dpc, decoded>>
    BY <1>5 DEF push_detecting_buffer, Order, Ahead
  <2>3. ToSet(detecting_buffer') = {}
    BY <2>2 DEF ToSet
  <2>4. dpc # "idle" => decoded \in Nat /\ decoded <= last
    BY DEF Base, Order, Frames
  <2>5. QED
    BY <1>0, <2>1, <2>2, <2>3, <2>4 DEF Order
<1>6. CASE PushFrame
  <2>1. last' = now /\ last < now /\ \A f \in ToSet(decoder') : f <= last'
    BY <1>6, LiveOrder
  <2>2. detecting_buffer' = <<>> /\ pc' = "count" /\ UNCHANGED <<now, dpc, decoded>>
    BY <1>6 DEF PushFrame, Goto, Base, PreRoll
  <2>3. ToSet(detecting_buffer') = {}
    BY <2>2 DEF ToSet
  <2>4. dpc # "idle" => decoded \in Nat /\ decoded <= last
    BY DEF Base, Order, Frames
  <2>5. QED
    BY <1>0, <2>1, <2>2, <2>3, <2>4 DEF Order, Ahead
<1>7. CASE DropDecoded \/ Decode
  BY <1>7, TailOrder DEF DropDecoded, Decode, Order, Ahead
<1>8. CASE UNCHANGED vars
  BY <1>8 DEF vars, Order, Ahead
<1>9. QED
  BY <1>1, <1>2, <1>3, <1>4, <1>5, <1>6, <1>7, <1>8 DEF Next, on_new_sample, on_new_sample_decode

LEMMA OrderAlways == Spec => [](Base /\ Order)
BY BaseAlways, OrderInit, OrderNext, PTL DEF Spec

--------------------------------------------------------------------------------
(***************************************************************************)
(* The times of the pre-roll. edit_sample_caption drops the oldest entry;  *)
(* an entry of the pre-roll is oldest only while metadata_store is small.  *)
(***************************************************************************)
LEMMA YoungKept ==
  ASSUME Base, edit_sample_caption(now), now \in Frames,
         NEW f \in metadata_store \union {now}, f >= now - Window - 1
  PROVE  f \in metadata_store'
<1> DEFINE all == metadata_store \union {now}
<1>1. /\ now \in Nat /\ f \in 1..now /\ Window \in Nat /\ StoreMax \in Nat
      /\ StoreMax > Window + 1 /\ all \subseteq 1..now
  BY FrameAssumption DEF Base, Frames
<1>2. CASE Cardinality(all) <= StoreMax /\ metadata_store' = all
  BY <1>2
<1>3. ASSUME NEW oldest \in all, Cardinality(all) > StoreMax,
             \A g \in all : oldest <= g, metadata_store' = all \ {oldest}
      PROVE  f # oldest
  <2> SUFFICES ASSUME f = oldest PROVE FALSE
    OBVIOUS
  <2>1. all \subseteq f..now
    BY <1>1, <1>3
  <2>2. IsFiniteSet(f..now) /\ Cardinality(f..now) = now - f + 1
    BY <1>1, FS_Interval
  <2>3. /\ Cardinality(all) <= Cardinality(f..now) /\ IsFiniteSet(all)
    BY <2>1, <2>2, FS_Subset
  <2>4. Cardinality(all) \in Nat
    BY <2>3, FS_CardinalityType
  <2>5. QED
    BY <1>1, <1>3, <2>2, <2>3, <2>4
<1>4. QED
  BY <1>2, <1>3 DEF edit_sample_caption

TimeInv ==
  /\ \A f \in ToSet(detecting_buffer) : f \in metadata_store \union lost
  /\ pc = "append" => now \in metadata_store \union lost

LEMMA TimeNext == Base /\ Order /\ TimeInv /\ [Next]_vars => TimeInv'
<1> SUFFICES ASSUME Base, Order, TimeInv, [Next]_vars PROVE TimeInv'
  OBVIOUS
<1> USE DEF session, sampler, delivery, history
<1>1. CASE Begin \/ Extend \/ Stop \/ DropDecoded \/ Decode \/ Deliver
  BY <1>1 DEF Begin, Extend, Stop, DropDecoded, Decode, Deliver, TimeInv
<1>2. CASE ClearMetadata
  BY <1>2 DEF ClearMetadata, TimeInv
<1>3. CASE Sample \/ TestBudget \/ PushFrame \/ ReadCount \/ WriteCount
  <2>1. /\ UNCHANGED <<detecting_buffer, metadata_store, lost>> /\ pc' # "append"
    BY <1>3 DEF Sample, TestBudget, PushFrame, ReadCount, WriteCount, Goto
  <2>2. QED
    BY <2>1 DEF TimeInv
<1>4. CASE Describe
  <2>1. now \in Frames /\ now \in Nat /\ Window \in Nat /\ edit_sample_caption(now)
    BY <1>4, FrameAssumption DEF Describe, Base, Frames
  <2>2. \A f \in ToSet(detecting_buffer) : f >= now - Window - 1
    <3>1. detecting_buffer \in Seq(Frames) /\ Len(detecting_buffer) <= Window + 1
          /\ \A i \in 1..Len(detecting_buffer) :
               detecting_buffer[i] = now - 1 - Len(detecting_buffer) + i
      BY <1>4 DEF Describe, Base, TypeOK, PreRoll, Top
    <3>2. ToSet(detecting_buffer) = {detecting_buffer[i] : i \in 1..Len(detecting_buffer)}
      BY <3>1, ToSetIs
    <3>3. QED
      BY <2>1, <3>1, <3>2
  <2>3. \A f \in ToSet(detecting_buffer) : f \in metadata_store => f \in metadata_store'
    BY <2>1, <2>2, YoungKept
  <2>4. now \in metadata_store'
    BY <2>1, YoungKept
  <2>5. UNCHANGED <<detecting_buffer, now, lost>>
    BY <1>4 DEF Describe
  <2>6. QED
    BY <2>3, <2>4, <2>5 DEF TimeInv
<1>5. CASE add_detecting_frame
  <2>1. ToSet(detecting_buffer') \subseteq ToSet(detecting_buffer) \union {now}
    BY <1>5, PreRollAdded
  <2>2. pc = "append" /\ pc' = "idle" /\ UNCHANGED <<metadata_store, lost>>
    BY <1>5 DEF add_detecting_frame, Goto
  <2>3. QED
    BY <2>1, <2>2 DEF TimeInv
<1>6. CASE push_detecting_buffer \/ Caption
  <2>1. detecting_buffer' = <<>> /\ pc' # "append"
    BY <1>6 DEF push_detecting_buffer, Caption, Goto, Base, PreRoll
  <2>2. ToSet(detecting_buffer') = {}
    BY <2>1 DEF ToSet
  <2>3. QED
    BY <2>1, <2>2 DEF TimeInv
<1>7. CASE Lookup
  <2>1. decoded \in Nat /\ decoded <= last /\ last \in Nat
    BY <1>7 DEF Lookup, Base, TypeOK, Order, Frames
  <2>2. \A f \in ToSet(detecting_buffer) : f # decoded
    <3>1. \A f \in ToSet(detecting_buffer) : f \in Frames
      BY ToSetFacts DEF Base, TypeOK
    <3>2. QED
      BY <2>1, <3>1 DEF Order, Frames
  <2>3. pc = "append" => now # decoded
    BY <2>1 DEF Order, Ahead, Base, TypeOK
  <2>4. QED
    BY <1>7, <2>2, <2>3 DEF Lookup, TimeInv
<1>8. CASE UNCHANGED vars
  BY <1>8 DEF vars, TimeInv
<1>9. QED
  BY <1>1, <1>2, <1>3, <1>4, <1>5, <1>6, <1>7, <1>8 DEF Next, on_new_sample, on_new_sample_decode

\* PreRollHasTime, for any parameters: a frame of the pre-roll keeps its time until the
\* decoder delivers it, unless a stop_feeding erases it.
THEOREM PreRollKeepsItsTimes == Spec => []PreRollHasTime
<1>1. Init => TimeInv
  BY DEF Init, TimeInv, ToSet
<1>2. TimeInv => PreRollHasTime
  BY DEF TimeInv, PreRollHasTime
<1>3. QED
  BY <1>1, <1>2, TimeNext, OrderAlways, PTL DEF Spec

--------------------------------------------------------------------------------
(***************************************************************************)
(* Whose frames are delivered. A frame on its way to on_new_sample_decode  *)
(* that still has a time is one of the present session, or one that a stop *)
(* met past a test, or that the opening of another session met.            *)
(***************************************************************************)
InFlight == ToSet(decoder) \union (IF dpc = "lookup" THEN {decoded} ELSE {})

Delivered ==
  \A e \in cam_queue : e.frame <= last /\ (fed[e.frame] = e.txn \/ e.frame \in late)

OwnInv ==
  /\ Delivered
  /\ dpc # "idle" /\ ~is_feeding => decoded \in late
  /\ dpc = "deliver" => fed[decoded] = detecting_txn \/ decoded \in late
  /\ is_feeding =>
       \A f \in InFlight \intersect metadata_store : fed[f] = detecting_txn \/ f \in late
  /\ ~is_feeding /\ clearing = 0 => \A f \in InFlight \intersect metadata_store : f \in late
  /\ Live /\ ~is_feeding => now \in late
  /\ Live /\ ~is_feeding /\ clearing = 0 => metadata_store \subseteq late

\* Frames of the decoder and of cam_queue.
LEMMA InFlightPast ==
  ASSUME Base, Order
  PROVE  /\ \A f \in InFlight : f \in Frames /\ f <= last
         /\ \A e \in cam_queue : e.frame \in Frames
<1>1. ToSet(decoder) \subseteq Frames
  BY ToSetFacts DEF Base, TypeOK
<1>2. QED
  BY <1>1 DEF InFlight, Base, TypeOK, Order, Entries

LEMMA OwnNext == Base /\ Order /\ OwnInv /\ [Next]_vars => OwnInv'
<1> SUFFICES ASSUME Base, Order, OwnInv, [Next]_vars PROVE OwnInv'
  OBVIOUS
<1> USE DEF session, sampler, delivery, history
<1>0. now \in Nat /\ last \in Nat /\ last <= now /\ clearing \in Nat
  BY DEF Base, TypeOK, Order
<1>1. CASE Begin
  <2>1. /\ is_feeding' /\ late \subseteq late'
        /\ is_feeding \/ clearing > 0 => OnTheirWay \subseteq late'
        /\ UNCHANGED <<cam_queue, last, fed, dpc, decoded, decoder, metadata_store>>
    BY <1>1 DEF Begin
  <2>2. Delivered'
    BY <2>1 DEF OwnInv, Delivered
  <2>3. InFlight \subseteq OnTheirWay
    BY DEF InFlight, OnTheirWay
  <2>4. \A f \in InFlight \intersect metadata_store : f \in late'
    <3>1. CASE is_feeding \/ clearing > 0
      BY <2>1, <2>3, <3>1
    <3>2. CASE ~is_feeding /\ clearing = 0
      BY <2>1, <3>2 DEF OwnInv
    <3>3. QED
      BY <1>0, <3>1, <3>2
  <2>5. dpc # "idle" => decoded \in late'
    BY <2>1 DEF OwnInv, OnTheirWay
  <2>6. QED
    BY <2>1, <2>2, <2>4, <2>5 DEF OwnInv, InFlight
<1>2. CASE Extend
  BY <1>2 DEF Extend, OwnInv, Delivered, InFlight, Live
<1>3. CASE Stop
  <2>1. clearing' # 0 /\ ~is_feeding' /\ UNCHANGED detecting_txn
    BY <1>0, <1>3 DEF Stop
  <2>2. QED
    BY <1>3, <2>1 DEF Stop, OwnInv, Delivered, InFlight, Live
<1>4. CASE ClearMetadata
  <2>1. /\ metadata_store' = {}
        /\ UNCHANGED <<is_feeding, detecting_txn, cam_queue, last, late, fed, dpc, decoded,
                       decoder, now, pc>>
    BY <1>4 DEF ClearMetadata
  <2>2. QED
    BY <2>1 DEF OwnInv, Delivered, Live
<1>5. CASE Sample
  <2>1. /\ Live' => is_feeding
        /\ UNCHANGED <<session, metadata_store, decoder, delivery, history>>
    BY <1>5 DEF Sample, Goto, Live
  <2>2. QED
    BY <2>1 DEF OwnInv, Delivered, InFlight
<1>6. CASE Describe \/ Caption
  <2>1. now \in Frames /\ last < now
    BY <1>6 DEF Describe, Caption, Base, Order, Ahead
  <2>2. metadata_store' \subseteq metadata_store \union {now}
    BY <1>6, <2>1, CaptionType DEF Describe, Caption
  <2>3. InFlight' = InFlight /\ now \notin InFlight
    BY <1>0, <1>6, <2>1, InFlightPast DEF Describe, Caption, InFlight, Frames
  <2>4. Live' => Live
    BY <1>6 DEF Describe, Caption, Goto, Live
  <2>5. UNCHANGED <<is_feeding, detecting_txn, clearing, now, cam_queue, last, late, fed,
                    dpc, decoded>>
    BY <1>6 DEF Describe, Caption
  <2>6. QED
    BY <2>2, <2>3, <2>4, <2>5 DEF OwnInv, Delivered
<1>7. CASE add_detecting_frame \/ TestBudget \/ ReadCount \/ WriteCount
  <2>1. /\ Live' => Live
        /\ UNCHANGED <<session, now, metadata_store, decoder, delivery, fed, last, late>>
    BY <1>7 DEF add_detecting_frame, TestBudget, ReadCount, WriteCount, Goto, Live
  <2>2. QED
    BY <2>1 DEF OwnInv, Delivered, InFlight
<1>8. ASSUME NEW F \in SUBSET Frames,
             \A f \in F : last < f /\ fed'[f] = detecting_txn,
             \A f \in Frames \ F : fed'[f] = fed[f],
             ToSet(decoder') = ToSet(decoder) \union F, last <= last',
             Live, Live',
             ~is_feeding /\ clearing = 0 => \A f \in F \intersect metadata_store : f \in late,
             UNCHANGED <<session, now, metadata_store, delivery, late>>
      PROVE  OwnInv'
  <2>1. /\ \A f \in InFlight : f \in Frames \ F
        /\ \A e \in cam_queue : e.frame \in Frames \ F
        /\ dpc # "idle" => decoded \in Frames \ F
    <3>1. \A f \in F : f \in Frames /\ last < f
      BY <1>8, Zenon
    <3>2. \A f \in Frames : f <= last => f \notin F
      BY <1>0, <3>1 DEF Frames
    <3>3. dpc # "idle" => decoded \in Frames /\ decoded <= last
      BY DEF Base, Order
    <3>4. \A e \in cam_queue : e.frame <= last
      BY DEF OwnInv, Delivered
    <3>5. QED
      BY <3>2, <3>3, <3>4, InFlightPast
  <2>2. InFlight' = InFlight \union F
    BY <1>8 DEF InFlight
  <2>3. Delivered'
    <3>1. ASSUME NEW e \in cam_queue
          PROVE  e.frame <= last' /\ (fed'[e.frame] = e.txn \/ e.frame \in late)
      <4>1. e.frame <= last /\ (fed[e.frame] = e.txn \/ e.frame \in late)
        BY DEF OwnInv, Delivered
      <4>2. fed'[e.frame] = fed[e.frame] /\ e.frame \in Nat
        BY <1>8, <2>1 DEF Frames
      <4>3. last' \in Nat
        BY BaseNext DEF Base, TypeOK
      <4>4. QED
        BY <1>0, <1>8, <4>1, <4>2, <4>3
    <3>2. QED
      BY <1>8, <3>1 DEF Delivered
  <2>4. QED
    BY <1>8, <2>1, <2>2, <2>3 DEF OwnInv
<1>9. CASE push_detecting_buffer
  <2>1. PICK frames \in Seq(Frames) :
          /\ \A f \in ToSet(frames) : last < f
          /\ last <= last'
          /\ ToSet(decoder') = ToSet(decoder) \union ToSet(frames)
          /\ \A f \in Frames \ ToSet(frames) : fed'[f] = fed[f]
          /\ \A f \in ToSet(frames) : f \in Frames /\ fed'[f] = detecting_txn
    BY <1>9, PreRollOrder
  <2>2. /\ Live /\ Live'
        /\ UNCHANGED <<session, now, metadata_store, delivery, late>>
    BY <1>9 DEF push_detecting_buffer, Goto, Live
  <2>3. ~is_feeding /\ clearing = 0 => metadata_store \subseteq late
    BY <2>2 DEF OwnInv
  <2>4. ToSet(frames) \in SUBSET Frames
    BY <2>1
  <2>5. QED
    BY <1>8, <2>1, <2>2, <2>3, <2>4
<1>10. CASE PushFrame
  <2>1. /\ last' = now /\ last < now /\ now \in Frames
        /\ ToSet(decoder') = ToSet(decoder) \union {now}
        /\ \A f \in Frames \ {now} : fed'[f] = fed[f]
        /\ fed'[now] = detecting_txn
    BY <1>10, LiveOrder
  <2>2. /\ Live /\ Live'
        /\ UNCHANGED <<session, now, metadata_store, delivery, late>>
    BY <1>10 DEF PushFrame, Goto, Live
  <2>3. ~is_feeding => now \in late
    BY <2>2 DEF OwnInv
  <2>4. last <= last' /\ {now} \in SUBSET Frames
    BY <1>0, <2>1
  <2>5. QED
    BY <1>8, <2>1, <2>2, <2>3, <2>4
<1>11. CASE DropDecoded \/ Decode
  <2>1. ToSet(decoder') \subseteq ToSet(decoder) /\ Head(decoder) \in ToSet(decoder)
    BY <1>11, TailOrder
  <2>2. InFlight' \subseteq InFlight
    BY <1>11, <2>1 DEF DropDecoded, Decode, InFlight
  <2>3. /\ dpc' = "deliver" => dpc = "deliver" /\ decoded' = decoded
        /\ dpc' # "idle" /\ ~is_feeding => dpc # "idle" /\ decoded' = decoded
        /\ UNCHANGED <<session, sampler, metadata_store, cam_queue, history>>
    BY <1>11 DEF DropDecoded, Decode
  <2>4. Live' = Live
    BY <2>3 DEF Live
  <2>5. QED
    BY <2>2, <2>3, <2>4 DEF OwnInv, Delivered
<1>12. CASE Lookup
  <2>1. decoded \in InFlight /\ InFlight' \subseteq InFlight
    BY <1>12 DEF Lookup, InFlight
  <2>2. /\ metadata_store' \subseteq metadata_store
        /\ dpc = "lookup" /\ (dpc' = "deliver" => decoded \in metadata_store)
        /\ UNCHANGED <<session, sampler, decoded, cam_queue, history>>
    BY <1>12 DEF Lookup
  <2>3. Live' = Live
    BY <2>2 DEF Live
  <2>4. QED
    BY <2>1, <2>2, <2>3 DEF OwnInv, Delivered
<1>13. CASE Deliver
  <2>1. decoded <= last
    BY <1>13 DEF Deliver, Order
  <2>2. cam_queue' \subseteq cam_queue \union {[frame |-> decoded, txn |-> detecting_txn]}
    BY <1>13 DEF Deliver
  <2>3. /\ dpc = "deliver" /\ dpc' = "idle"
        /\ UNCHANGED <<session, sampler, metadata_store, decoder, decoded, history>>
    BY <1>13 DEF Deliver
  <2>4. Delivered'
    BY <2>1, <2>2, <2>3 DEF OwnInv, Delivered
  <2>5. InFlight' = InFlight /\ Live' = Live
    BY <2>3 DEF InFlight, Live
  <2>6. QED
    BY <2>3, <2>4, <2>5 DEF OwnInv
<1>14. CASE UNCHANGED vars
  BY <1>14 DEF vars, OwnInv, Delivered, InFlight, Live
<1>15. QED
  BY <1>1, <1>2, <1>3, <1>4, <1>5, <1>6, <1>7, <1>9, <1>10, <1>11, <1>12, <1>13, <1>14
     DEF Next, on_new_sample, on_new_sample_decode

\* OwnSession, for any parameters: no frame is delivered to a later session than the one
\* it was pushed in, but for those a stop_feeding met past a test, and those on their way
\* when a session is opened over another or before a stop_feeding is through.
THEOREM FramesStayInTheirSession == Spec => []OwnSession
<1>1. Init => OwnInv
  BY DEF Init, OwnInv, Delivered, InFlight, Live, ToSet
<1>2. OwnInv => OwnSession
  BY DEF OwnInv, Delivered, OwnSession
<1>3. QED
  BY <1>1, <1>2, OwnNext, OrderAlways, PTL DEF Spec

--------------------------------------------------------------------------------
(***************************************************************************)
(* The limit of a session. A pre-roll is pushed into a count of 0; a live  *)
(* frame is pushed when the count was tested, unless a session opened over *)
(* the one it was tested in has lowered the limit.                         *)
(***************************************************************************)
BudgetInv ==
  /\ Live /\ ~is_feeding => raced
  /\ ~raced /\ (~is_feeding \/ detecting_buffer # <<>> \/ pc \in {"describe", "append"})
       => pushed = 0
  /\ ~raced /\ ~lowered /\ pc \in {"caption", "push"} => pushed <= running

LEMMA BudgetNext == Base /\ CountInv /\ BudgetInv /\ [Next]_vars => BudgetInv'
<1> SUFFICES ASSUME Base, CountInv, BudgetInv, [Next]_vars PROVE BudgetInv'
  OBVIOUS
<1> USE DEF session, sampler, delivery, history
<1>0. running \in Nat /\ pushed \in Nat /\ feeding_count \in Nat /\ Budget \in Nat
  BY FrameAssumption DEF Base, TypeOK
<1>1. CASE Begin
  <2>1. is_feeding' /\ UNCHANGED <<pc, raced, pushed, detecting_buffer>>
    BY <1>1 DEF Begin
  <2>2. is_feeding /\ pc \in {"caption", "push"} => lowered'
    BY <1>1, Zenon DEF Begin
  <2>3. ~is_feeding /\ pc \in {"caption", "push"} => raced
    BY DEF BudgetInv, Live
  <2>4. QED
    BY <2>1, <2>2, <2>3 DEF BudgetInv, Live
<1>2. CASE Extend
  <2>1. pc \in {"caption", "push"} /\ ~raced => pushed <= running'
    BY <1>0, <1>2 DEF Extend, CountInv
  <2>2. QED
    BY <1>2, <2>1 DEF Extend, BudgetInv, Live
<1>3. CASE Stop
  <2>1. pushed' = 0 /\ (Live => raced') /\ running' = running /\ pc' = pc
    BY <1>3 DEF Stop
  <2>2. QED
    BY <1>0, <2>1 DEF BudgetInv, Live
<1>4. CASE ClearMetadata \/ DropDecoded \/ Decode \/ Lookup \/ Deliver
  BY <1>4 DEF ClearMetadata, DropDecoded, Decode, Lookup, Deliver, BudgetInv, Live
<1>5. CASE Sample
  BY <1>5 DEF Sample, Goto, BudgetInv, Live
<1>6. CASE Describe \/ Caption \/ ReadCount \/ WriteCount
  BY <1>6 DEF Describe, Caption, ReadCount, WriteCount, Goto, BudgetInv, Live
<1>7. CASE add_detecting_frame
  BY <1>7 DEF add_detecting_frame, Goto, BudgetInv, Live
<1>8. CASE push_detecting_buffer
  <2>1. /\ Live /\ pc' = "test" /\ detecting_buffer' = <<>>
        /\ UNCHANGED <<is_feeding, raced, running>>
    BY <1>8 DEF push_detecting_buffer, Goto, Live
  <2>2. QED
    BY <2>1 DEF BudgetInv, Live
<1>9. CASE TestBudget
  <2>1. detecting_buffer = <<>> /\ Live
    BY <1>9 DEF TestBudget, Base, PreRoll, Live
  <2>2. pc' \in {"caption", "push"} /\ ~raced => pushed <= running
    BY <1>9 DEF TestBudget, Goto, CountInv
  <2>3. QED
    BY <1>9, <2>1, <2>2 DEF TestBudget, Goto, BudgetInv, Live
<1>10. CASE PushFrame
  <2>1. /\ detecting_buffer = <<>> /\ Live /\ pc' = "count"
        /\ UNCHANGED <<is_feeding, raced, running, detecting_buffer>>
    BY <1>10 DEF PushFrame, Goto, Base, PreRoll, Live
  <2>2. QED
    BY <2>1 DEF BudgetInv, Live
<1>11. CASE UNCHANGED vars
  BY <1>11 DEF vars, BudgetInv, Live
<1>12. QED
  BY <1>1, <1>2, <1>3, <1>4, <1>5, <1>6, <1>7, <1>8, <1>9, <1>10, <1>11
     DEF Next, on_new_sample, on_new_sample_decode

\* One step pushes within the limit.
LEMMA BudgetStep ==
  ASSUME Base, CountInv, BudgetInv, [Next]_vars
  PROVE  is_feeding /\ ~raced /\ ~lowered /\ pushed' > pushed
           => pushed' <= Larger(running + 1, Window + 1)
<1> USE DEF session, sampler, delivery, history
<1>0. running \in Nat /\ pushed \in Nat /\ Window \in Nat
  BY FrameAssumption DEF Base, TypeOK
<1>1. CASE push_detecting_buffer
  <2> SUFFICES ASSUME ~raced, pushed' > pushed
               PROVE  pushed' <= Larger(running + 1, Window + 1)
    OBVIOUS
  <2>1. PICK frames \in Seq(Frames) :
          Push(frames) /\ Len(frames) <= Len(detecting_buffer)
    BY <1>1, PreRollPushed
  <2>2. /\ Len(frames) \in Nat /\ Len(detecting_buffer) \in Nat
        /\ Len(detecting_buffer) <= Window + 1
        /\ detecting_buffer = <<>> => Len(detecting_buffer) = 0
        /\ pushed' = pushed + Len(frames)
    BY <2>1 DEF Push, Base, TypeOK
  <2>3. detecting_buffer # <<>>
    BY <1>0, <2>1, <2>2
  <2>4. pushed = 0
    BY <2>3 DEF BudgetInv
  <2>5. QED
    BY <1>0, <2>1, <2>2, <2>4 DEF Larger
<1>2. CASE PushFrame
  <2>1. pushed' = pushed + 1 /\ pc = "push"
    BY <1>2 DEF PushFrame, Push
  <2>2. QED
    BY <1>0, <2>1 DEF BudgetInv, Larger
<1>3. CASE Stop
  BY <1>0, <1>3 DEF Stop
<1>4. CASE UNCHANGED pushed
  BY <1>0, <1>4
<1>5. QED
  BY <1>1, <1>2, <1>3, <1>4
     DEF Next, on_new_sample, on_new_sample_decode, vars, Begin, Extend, ClearMetadata, Sample,
         Describe, add_detecting_frame, TestBudget, Caption, ReadCount, WriteCount,
         DropDecoded, Decode, Lookup, Deliver

\* WithinBudget, for any parameters: a session that no race disturbed pushes no more than
\* its running_seconds allow, plus one, or its pre-roll.
THEOREM SessionsKeepTheirBudget == Spec => WithinBudget
<1>1. Init => CountInv /\ BudgetInv
  BY DEF Init, CountInv, BudgetInv, Live
<1>2. Spec => [](Base /\ CountInv /\ BudgetInv)
  BY <1>1, CountNext, BudgetNext, BaseAlways, PTL DEF Spec
<1>3. Base /\ CountInv /\ BudgetInv /\ [Next]_vars
        => [is_feeding /\ ~raced /\ ~lowered /\ pushed' > pushed
              => pushed' <= Larger(running + 1, Window + 1)]_vars
  BY BudgetStep
<1>4. QED
  BY <1>2, <1>3, PTL DEF Spec, WithinBudget

--------------------------------------------------------------------------------
(***************************************************************************)
(* What the decoder sees. Without a pre-roll, and unless frames were       *)
(* skipped, the frame pushed last is the one before the next.              *)
(***************************************************************************)
GapInv == ~broken /\ detecting_buffer = <<>> => last = IF Ahead THEN now - 1 ELSE now

LEMMA GapNext == Base /\ Order /\ GapInv /\ [Next]_vars => GapInv'
<1> SUFFICES ASSUME Base, Order, GapInv, [Next]_vars PROVE GapInv'
  OBVIOUS
<1> USE DEF session, sampler, delivery, history
<1>0. now \in Nat
  BY DEF Base, TypeOK
<1>1. CASE Begin \/ Extend \/ Stop \/ ClearMetadata \/ DropDecoded \/ Decode \/ Lookup \/ Deliver
  BY <1>1 DEF Begin, Extend, Stop, ClearMetadata, DropDecoded, Decode, Lookup, Deliver,
              GapInv, Ahead
<1>2. CASE Sample
  BY <1>0, <1>2 DEF Sample, Goto, GapInv, Ahead
<1>3. CASE Describe \/ TestBudget \/ Caption \/ ReadCount \/ WriteCount
  BY <1>3 DEF Describe, TestBudget, Caption, ReadCount, WriteCount, Goto, GapInv, Ahead
<1>4. CASE add_detecting_frame
  BY <1>4, PreRollAdded DEF GapInv
<1>5. CASE push_detecting_buffer
  <2>1. PICK frames \in Seq(Frames) :
          /\ broken' = (frames = <<>> /\ (broken \/ detecting_buffer # <<>>))
          /\ last' = (IF frames = <<>> THEN last ELSE now - 1)
    BY <1>5, PreRollOrder
  <2>2. now' = now /\ pc = "preroll" /\ pc' = "test"
    BY <1>5 DEF push_detecting_buffer, Goto
  <2>3. CASE frames = <<>>
    BY <2>1, <2>2, <2>3 DEF GapInv, Ahead
  <2>4. CASE frames # <<>>
    BY <2>1, <2>2, <2>4 DEF GapInv, Ahead
  <2>5. QED
    BY <2>3, <2>4
<1>6. CASE PushFrame
  <2>1. last' = now /\ now' = now /\ pc' = "count"
    BY <1>6, LiveOrder DEF PushFrame, Goto
  <2>2. QED
    BY <2>1 DEF GapInv, Ahead
<1>7. CASE UNCHANGED vars
  BY <1>7 DEF vars, GapInv, Ahead
<1>8. QED
  BY <1>1, <1>2, <1>3, <1>4, <1>5, <1>6, <1>7 DEF Next, on_new_sample, on_new_sample_decode

\* What the positions of the decoder's new frames hold.
InOrder ==
  \A i \in (Len(decoder) + 1)..Len(decoder') :
    LET f == decoder'[i]
        before == IF i = Len(decoder) + 1 THEN last ELSE decoder'[i - 1]
    IN  f > before /\ (f = before + 1 \/ IsKey(f) \/ broken)

\* Frames that follow each other, pushed after the last one.
LEMMA PushInOrder ==
  ASSUME Base, NEW frames \in Seq(Frames), Push(frames), NEW t \in Nat,
         \A i \in 1..Len(frames) : frames[i] = t - Len(frames) + i,
         frames # <<>> => /\ last < frames[1]
                          /\ frames[1] = last + 1 \/ IsKey(frames[1]) \/ broken
  PROVE  InOrder
<1> DEFINE n == Len(decoder)
<1>1. decoder \in Seq(Frames) /\ n \in Nat /\ Len(frames) \in Nat
  BY DEF Base, TypeOK
<1>2. Len(decoder') = n + Len(frames)
  BY <1>1 DEF Push
<1>3. \A i \in (n + 1)..(n + Len(frames)) : decoder'[i] = frames[i - n]
  BY <1>1 DEF Push
<1>4. ASSUME NEW i \in (n + 1)..(n + Len(frames)), i # n + 1
      PROVE  decoder'[i] = decoder'[i - 1] + 1 /\ decoder'[i - 1] \in Nat
  <2>1. /\ i - 1 \in (n + 1)..(n + Len(frames))
        /\ i - n \in 1..Len(frames) /\ i - 1 - n \in 1..Len(frames)
    BY <1>1, <1>4
  <2>2. decoder'[i] = frames[i - n] /\ decoder'[i - 1] = frames[i - 1 - n]
    BY <1>3, <2>1
  <2>3. frames[i - n] = t - Len(frames) + (i - n) /\ frames[i - 1 - n] = t - Len(frames) + (i - 1 - n)
    BY <2>1
  <2>4. frames[i - 1 - n] \in Nat
    <3>1. frames[i - 1 - n] \in Frames
      BY <2>1
    <3>2. QED
      BY <3>1 DEF Frames
  <2>5. QED
    BY <1>1, <2>1, <2>2, <2>3, <2>4
<1>5. ASSUME NEW i \in (n + 1)..(n + Len(frames)), i = n + 1
      PROVE  decoder'[i] = frames[1] /\ frames # <<>>
  BY <1>1, <1>3, <1>5
<1>6. ASSUME NEW i \in (n + 1)..(n + Len(frames))
      PROVE  LET f == decoder'[i]
                 before == IF i = n + 1 THEN last ELSE decoder'[i - 1]
             IN  f > before /\ (f = before + 1 \/ IsKey(f) \/ broken)
  <2>1. CASE i = n + 1
    <3>1. decoder'[i] = frames[1] /\ frames # <<>>
      BY <1>5, <2>1
    <3>2. QED
      BY <2>1, <3>1
  <2>2. CASE i # n + 1
    BY <1>4, <2>2
  <2>3. QED
    BY <2>1, <2>2
<1>7. QED
  BY <1>2, <1>6 DEF InOrder

LEMMA InOrderStep ==
  ASSUME Base, Order, GapInv, [Next]_vars PROVE InOrder
<1> USE DEF session, sampler, delivery, history
<1>0. now \in Nat /\ last \in Nat /\ decoder \in Seq(Frames)
  BY DEF Base, TypeOK
<1>1. CASE push_detecting_buffer
  <2>1. PICK frames \in Seq(Frames) :
          /\ Push(frames)
          /\ \A i \in 1..Len(frames) : frames[i] = now - 1 - Len(frames) + i
          /\ frames # <<>> => IsKey(frames[1])
          /\ \A f \in ToSet(frames) : last < f
    BY <1>1, PreRollOrder
  <2>2. now - 1 \in Nat
    BY <1>1 DEF Base, push_detecting_buffer, Frames
  <2>3. frames # <<>> => frames[1] \in ToSet(frames)
    BY ToSetIs
  <2>4. QED
    BY <2>1, <2>2, <2>3, PushInOrder
<1>2. CASE PushFrame
  <2>1. last < now /\ now \in Frames /\ Push(<<now>>)
    BY <1>2 DEF PushFrame, Order, Ahead, Base
  <2>2. now = last + 1 \/ broken
    BY <1>0, <1>2 DEF PushFrame, Base, PreRoll, GapInv, Ahead
  <2>3. /\ <<now>> \in Seq(Frames) /\ Len(<<now>>) = 1 /\ <<now>>[1] = now
        /\ \A i \in 1..Len(<<now>>) : <<now>>[i] = now - Len(<<now>>) + i
    BY <1>0, <2>1
  <2>4. QED
    BY <1>0, <2>1, <2>2, <2>3, PushInOrder
<1>3. CASE DropDecoded \/ Decode
  <2>1. decoder # <<>> /\ decoder' = Tail(decoder)
    BY <1>3 DEF DropDecoded, Decode
  <2>2. Len(decoder') < Len(decoder) /\ Len(decoder) \in Nat /\ Len(decoder') \in Nat
    BY <1>0, <2>1
  <2>3. QED
    BY <2>2 DEF InOrder
<1>4. CASE UNCHANGED decoder
  BY <1>0, <1>4 DEF InOrder
<1>5. QED
  BY <1>1, <1>2, <1>3, <1>4
     DEF Next, on_new_sample, on_new_sample_decode, vars, Begin, Extend, Stop, ClearMetadata,
         Sample, Describe, add_detecting_frame, TestBudget, Caption, ReadCount, WriteCount,
         Lookup, Deliver

\* DecoderOrder, for any parameters: the decoder gets each frame at most once, in order,
\* and starts at a keyframe, but for the two cases that its comment names.
THEOREM DecoderSeesAStream == Spec => DecoderOrder
<1>1. Init => GapInv
  BY DEF Init, GapInv, Ahead
<1>2. Spec => [](Base /\ Order /\ GapInv)
  BY <1>1, GapNext, OrderAlways, PTL DEF Spec
<1>3. Base /\ Order /\ GapInv /\ [Next]_vars => [InOrder]_vars
  BY InOrderStep
<1>4. QED
  BY <1>2, <1>3, PTL DEF Spec, DecoderOrder, InOrder

================================================================================
