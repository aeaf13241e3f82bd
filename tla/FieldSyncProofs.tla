--------------------------- MODULE FieldSyncProofs ---------------------------
(***************************************************************************)
(* Proofs about FieldSync, for every layout, every list of subscribed      *)
(* fields, every size of word, chunk and block, and any number of edits,   *)
(* changes and losses: every variable keeps its type; a reply never        *)
(* overwrites an edit that is not sent yet; when no subscribed field lies  *)
(* across the border of two requests, no field ever shows a mixture of two *)
(* values; and when variables share no word and each fits a frame, writing *)
(* changes nothing but what was edited.                                    *)
(*                                                                         *)
(* The argument about reading follows a value on its way from the          *)
(* peripheral: what a field has in the reply, and in periph_buf after it,  *)
(* is a value the field had there, because a request moves all its bytes   *)
(* at one time or none.  That about writing follows it the other way: one  *)
(* field at most is dirty, it makes one region and one frame, and the      *)
(* frame holds its last edit and no byte of another field.                 *)
(***************************************************************************)
EXTENDS FieldSync, WellFoundedInduction, FiniteSetTheorems, SequenceTheorems, TLAPS

\* The requests form a list.  It is said here because the definition, a
\* recursive function, is out of the provers' reach.
Listed == Requests \in Seq(SUBSET Nat)

\* A request reads a subscribed field as a whole or not at all.
Undivided ==
  \A n \in DOMAIN Requests, f \in Subscribed :
    \/ BytesOf(f) \subseteq BytesIn(Requests[n])
    \/ BytesOf(f) \cap BytesIn(Requests[n]) = {}

-----------------------------------------------------------------------------
(* Types.                                                                  *)

Frame == UNION {[S -> Val] : S \in SUBSET Buffer}

\* What the threads rely on: the main loop has a region in hand whenever it
\* writes, frames hold values of bytes of the block, and so do replies.
Stored ==
  /\ main \in {"collect", "write", "clear", "render"} /\ sent \in BOOLEAN
  /\ \A r \in todo : r # {} /\ r \subseteq WordsOf(Fields)
  /\ main \in {"write", "clear"} => todo # {}
  /\ DOMAIN value = Fields /\ DOMAIN typed = Fields /\ dirty \subseteq Fields
  /\ \A f \in Fields : value[f] \in Content(f) /\ typed[f] \in Seq(Content(f))
  /\ ctl \in [Buffer -> Val] /\ periph \in [Buffer -> Val] /\ device \in [Buffer -> Val]
  /\ tx \in Seq(Frame)
  /\ reader \in {"read", "callback"} /\ wire.kind \in {"none", "request", "reply"}
  /\ reader = "callback" => wire.kind = "reply"
  /\ wire.kind = "reply" =>
       \A b \in DOMAIN wire.bytes \intersect Buffer : wire.bytes[b] \in Val
  /\ changes \in Nat

NextInList == next = 1 \/ next \in DOMAIN Requests

\* By the order of the finite sets 0 .. x under inclusion, which the library
\* proves well-founded.
LEMMA MinOf ==
  ASSUME NEW S, S \subseteq Nat, S # {}
  PROVE  Min(S) \in S /\ \A x \in S : Min(S) <= x
<1> DEFINE T == {0 .. x : x \in S}
<1>1. T \subseteq FiniteSubsetsOf(Nat)
  <2>1. ASSUME NEW x \in S PROVE 0 .. x \in SUBSET Nat /\ IsFiniteSet(0 .. x)
    BY FS_Interval
  <2> QED
    BY <2>1 DEF FiniteSubsetsOf
<1>2. T # {}
  OBVIOUS
<1>3. IsWellFoundedOn(StrictSubsetOrdering(Nat), FiniteSubsetsOf(Nat))
  BY FS_StrictSubsetOrderingWellFounded
<1> HIDE DEF T
<1>4. PICK t \in T : \A u \in T : ~ (<<u, t>> \in StrictSubsetOrdering(Nat))
  BY <1>1, <1>2, <1>3, WFMin
<1>5. PICK x \in S : t = 0 .. x
  BY <1>4 DEF T
<1>6. ASSUME NEW y \in S, y < x PROVE FALSE
  <2>1. 0 .. y \in T
    BY DEF T
  <2>2. 0 .. y \subseteq 0 .. x /\ 0 .. y # 0 .. x
    <3>1. x \in 0 .. x /\ x \notin 0 .. y /\ x \in Nat /\ y \in Nat
      BY <1>6
    <3> QED
      BY <1>6, <3>1
  <2>3. 0 .. y \in SUBSET Nat /\ t \in SUBSET Nat
    BY <1>5
  <2>4. <<0 .. y, t>> \in StrictSubsetOrdering(Nat)
    BY <1>5, <2>2, <2>3, Zenon DEF StrictSubsetOrdering
  <2> QED
    BY <1>4, <2>1, <2>4
<1>7. \A y \in S : x <= y
  BY <1>6
<1> QED
  BY <1>7 DEF Min

LEMMA Division ==
  ASSUME NEW a \in Nat, NEW d \in Nat \ {0}
  PROVE  /\ a \div d \in Nat
         /\ d * (a \div d) <= a /\ a < d * (a \div d) + d
         /\ a \div d <= a
<1>1. /\ a \div d \in Nat /\ a % d \in 0 .. d - 1
      /\ a = d * (a \div d) + (a % d)
  OBVIOUS
<1>2. a \div d <= d * (a \div d)
  <2> DEFINE q == a \div d
  <2>1. q \in Nat /\ \E e \in Nat : d = e + 1
    <3>1. d = (d - 1) + 1 /\ d - 1 \in Nat
      OBVIOUS
    <3> QED
      BY <1>1, <3>1
  <2> HIDE DEF q
  <2>2. PICK e \in Nat : d = e + 1
    BY <2>1
  <2>3. d * q = e * q + q /\ e * q >= 0
    BY <2>1, <2>2
  <2> QED
    BY <2>1, <2>3 DEF q
<1> QED
  BY <1>1, <1>2

\* The quotient is the only number it can be.
LEMMA Quotient ==
  ASSUME NEW a \in Nat, NEW d \in Nat \ {0}, NEW q \in Nat,
         d * q <= a, a < d * q + d
  PROVE  a \div d = q
<1> DEFINE p == a \div d
<1>1. p \in Nat /\ d * p <= a /\ a < d * p + d
  BY Division
<1> HIDE DEF p
<1>2. ASSUME NEW x \in Nat, NEW y \in Nat, x < y, d * y <= a, a < d * x + d
      PROVE  FALSE
  <2>1. PICK k \in Nat : y = x + 1 + k
    <3>1. y = x + 1 + (y - x - 1) /\ y - x - 1 \in Nat
      BY <1>2
    <3> QED
      BY <3>1
  <2>2. d * y = d * x + d + d * k /\ d * k >= 0
    BY <2>1
  <2>3. d * x \in Nat /\ d * y \in Nat /\ d * k \in Nat
    BY <2>1
  <2> QED
    BY <1>2, <2>2, <2>3
<1>3. p = q
  BY <1>1, <1>2
<1> QED
  BY <1>3 DEF p

LEMMA FieldInBuffer ==
  ASSUME NEW f \in Fields
  PROVE  BytesOf(f) \subseteq Buffer /\ Off[f] \in BytesOf(f)
<1>1. /\ Off[f] \in Nat /\ Size[f] \in Nat /\ Size[f] > 0
      /\ Off[f] + Size[f] <= BufferSize
  BY LayoutAssumption
<1>2. BufferSize \in Nat
  BY LayoutAssumption
<1> QED
  BY <1>1, <1>2 DEF BytesOf, Buffer

LEMMA WordsInBlock == WordsOf(Fields) \subseteq 0 .. BufferSize
<1>1. ASSUME NEW b \in UNION {BytesOf(f) : f \in Fields} PROVE b \div Word \in 0 .. BufferSize
  <2>1. b \in Nat /\ b <= BufferSize /\ BufferSize \in Nat /\ Word \in Nat \ {0}
    BY FieldInBuffer, LayoutAssumption DEF Buffer
  <2>2. b \div Word \in Nat /\ b \div Word <= b
    BY <2>1, Division
  <2> QED
    BY <2>1, <2>2
<1> QED
  BY <1>1 DEF WordsOf

LEMMA WordsGrow ==
  ASSUME NEW F, F \subseteq Fields
  PROVE  WordsOf(F) \subseteq WordsOf(Fields)
BY DEF WordsOf

\* The regions of a set of fields that is not empty are not none.
LEMMA SomeRegion ==
  ASSUME NEW F, F \subseteq Fields, F # {}
  PROVE  RegionsOf(F) # {}
<1> DEFINE W == WordsOf(F)
           lo == Min(W)
           gaps == {n \in Nat : lo < n /\ n \notin W}
           hi == Min(gaps) - 1
<1>1. W \subseteq 0 .. BufferSize /\ BufferSize \in Nat
  BY WordsInBlock, WordsGrow, LayoutAssumption
<1>2. PICK f \in F : f \in Fields /\ Off[f] \in BytesOf(f)
  BY FieldInBuffer
<1>3. W # {}
  BY <1>2 DEF WordsOf
<1> HIDE DEF W
<1>4. lo \in W /\ \A x \in W : lo <= x
  <2>1. W \subseteq Nat
    BY <1>1
  <2> QED
    BY <1>3, <2>1, MinOf
<1> HIDE DEF lo
<1>5. BufferSize + 1 \in gaps
  <2>1. BufferSize + 1 \notin W /\ lo \in Nat /\ lo <= BufferSize
    BY <1>1, <1>4
  <2> QED
    BY <1>1, <2>1
<1>6. Min(gaps) \in gaps /\ \A x \in gaps : Min(gaps) <= x
  BY <1>5, MinOf
<1>7. lo \in Nat /\ hi \in Nat /\ lo <= hi /\ hi + 1 \notin W /\ hi + 1 = Min(gaps)
  BY <1>1, <1>4, <1>6
<1>8. lo .. hi \subseteq W
  <2> SUFFICES ASSUME NEW x \in lo .. hi, x \notin W PROVE FALSE
    OBVIOUS
  <2>1. x \in gaps
    BY <1>4, <1>7
  <2> QED
    BY <1>6, <1>7, <2>1
<1> HIDE DEF gaps, hi
<1>9. Min(lo .. hi) = lo /\ Max(lo .. hi) = hi
  <2>1. lo \in lo .. hi /\ hi \in lo .. hi /\ \A x \in lo .. hi : lo <= x /\ hi >= x /\ x \in Nat
    BY <1>7
  <2> QED
    BY <1>7, <2>1 DEF Min, Max
<1>10. lo - 1 \notin W
  BY <1>4, <1>7
<1>11. \E r \in Runs(W) :
          r # {} /\ r \subseteq W /\ Min(r) - 1 \notin W /\ Max(r) + 1 \notin W
  <2>1. lo \in W /\ hi \in W /\ lo .. hi # {}
    BY <1>4, <1>7, <1>8
  <2>2. lo .. hi \in Runs(W)
    BY <2>1 DEF Runs
  <2>3. Min(lo .. hi) - 1 \notin W /\ Max(lo .. hi) + 1 \notin W
    BY <1>7, <1>9, <1>10
  <2> QED
    <3> DEFINE run == lo .. hi
    <3>1. run \in Runs(W) /\ run # {} /\ run \subseteq W
            /\ Min(run) - 1 \notin W /\ Max(run) + 1 \notin W
      BY <1>8, <2>1, <2>2, <2>3
    <3> HIDE DEF run
    <3> QED
      BY <3>1
<1> QED
  BY <1>11 DEF RegionsOf, W

LEMMA PartInContent ==
  ASSUME NEW f \in Fields, NEW memory \in [Buffer -> Val]
  PROVE  Part(memory, f) \in Content(f)
BY FieldInBuffer DEF Part, Content

LEMMA PatchedInBlock ==
  ASSUME NEW memory \in [Buffer -> Val], NEW bytes,
         \A b \in DOMAIN bytes \intersect Buffer : bytes[b] \in Val
  PROVE  Patched(memory, bytes) \in [Buffer -> Val]
BY DEF Patched

LEMMA ChunksAreSeq ==
  ASSUME NEW r, r \subseteq WordsOf(Fields)
  PROVE  ChunksOf(r) \in Seq(SUBSET Nat)
<1>1. /\ ChunkWords \in Nat \ {0} /\ BufferSize \in Nat
      /\ r \subseteq Nat /\ r \in SUBSET (0 .. BufferSize)
  BY WordsInBlock, LayoutAssumption
<1>2. IsFiniteSet(r)
  <2>1. IsFiniteSet(0 .. BufferSize)
    BY <1>1, FS_Interval
  <2> QED
    BY <1>1, <2>1, FS_Subset
<1>3. Cardinality(r) + ChunkWords - 1 \in Nat
  BY <1>1, <1>2, FS_CardinalityType
<1>4. (Cardinality(r) + ChunkWords - 1) \div ChunkWords \in Nat
  BY <1>1, <1>3, Division
<1> DEFINE many == (Cardinality(r) + ChunkWords - 1) \div ChunkWords
           chunk(n) == {w \in r : (w - Min(r)) \div ChunkWords = n - 1}
<1>5. ChunksOf(r) = [n \in 1 .. many |-> chunk(n)]
  BY DEF ChunksOf
<1>6. \A n \in 1 .. many : chunk(n) \in SUBSET Nat
  BY <1>1
<1> HIDE DEF many, chunk
<1> QED
  BY <1>4, <1>5, <1>6 DEF many

\* What is accepted of a region lies in the block.
LEMMA AcceptedChunks ==
  ASSUME NEW r, r \subseteq WordsOf(Fields)
  PROVE  /\ Accepted(r) \in Seq(SUBSET Nat)
         /\ \A n \in DOMAIN Accepted(r) : BytesIn(Accepted(r)[n]) \subseteq Buffer
<1>1. ChunksOf(r) \in Seq(SUBSET Nat)
  BY ChunksAreSeq
<1>2. CASE Refused(r) = {}
  BY <1>1, <1>2 DEF Accepted, Refused, InBuffer
<1>3. CASE Refused(r) # {}
  <2> DEFINE m == Min(Refused(r))
  <2>1. Refused(r) \subseteq Nat /\ Refused(r) \subseteq 1 .. Len(ChunksOf(r))
    BY <1>1 DEF Refused
  <2>2. m \in Refused(r) /\ \A x \in Refused(r) : m <= x
    BY <1>3, <2>1, MinOf
  <2> HIDE DEF m
  <2>3. m \in Nat /\ 1 <= m /\ m - 1 <= Len(ChunksOf(r))
    BY <2>1, <2>2
  <2>4. Accepted(r) = SubSeq(ChunksOf(r), 1, m - 1)
    BY <1>3 DEF Accepted, m
  <2>5. /\ SubSeq(ChunksOf(r), 1, m - 1) \in Seq(SUBSET Nat)
        /\ DOMAIN SubSeq(ChunksOf(r), 1, m - 1) = 1 .. m - 1
        /\ \A n \in 1 .. m - 1 : SubSeq(ChunksOf(r), 1, m - 1)[n] = ChunksOf(r)[n]
    BY <1>1, <2>3
  <2>6. ASSUME NEW n \in 1 .. m - 1 PROVE BytesIn(ChunksOf(r)[n]) \subseteq Buffer
    <3>1. n \in DOMAIN ChunksOf(r) /\ n \notin Refused(r)
      BY <1>1, <2>2, <2>3
    <3> QED
      BY <3>1 DEF Refused, InBuffer
  <2> QED
    BY <2>4, <2>5, <2>6
<1> QED
  BY <1>2, <1>3

LEMMA FirstOfTodo ==
  ASSUME todo # {}, \A r \in todo : r # {} /\ r \subseteq WordsOf(Fields)
  PROVE  First(todo) \in todo
<1> DEFINE starts == {Min(r) : r \in todo}
<1>1. ASSUME NEW r \in todo PROVE Min(r) \in Nat
  <2>1. r \subseteq Nat /\ r # {}
    BY WordsInBlock
  <2> QED
    BY <2>1, MinOf
<1>2. starts \subseteq Nat /\ starts # {}
  BY <1>1
<1>3. PICK m \in starts : \A x \in starts : m <= x
  BY <1>2, MinOf, Zenon
<1>4. PICK r \in todo : \A s \in todo : Min(r) <= Min(s)
  BY <1>3
<1> QED
  BY <1>4 DEF First

LEMMA SyncedInBlock ==
  ASSUME Stored, NEW r
  PROVE  SyncToCtl(r) \in [Buffer -> Val]
<1>1. ASSUME NEW b \in Buffer, \E f \in Synced(r) : b \in BytesOf(f)
      PROVE  value[CHOOSE f \in Synced(r) : b \in BytesOf(f)][b] \in Val
  <2> DEFINE g == CHOOSE f \in Synced(r) : b \in BytesOf(f)
  <2>1. g \in Synced(r) /\ b \in BytesOf(g)
    BY <1>1
  <2> HIDE DEF g
  <2>2. g \in Fields
    BY <2>1 DEF Synced, Stored
  <2>3. value[g][b] \in Val
    BY <2>1, <2>2 DEF Stored, Content
  <2> QED
    BY <2>3 DEF g
<1> QED
  BY <1>1 DEF SyncToCtl, Stored

LEMMA StoredInit == Init => Stored
<1> SUFFICES ASSUME Init PROVE Stored
  OBVIOUS
<1>1. ASSUME NEW f \in Fields
      PROVE  Uniform(f, 0) \in Content(f) /\ <<>> \in Seq(Content(f))
  BY LayoutAssumption DEF Uniform, Content
<1>2. \A f \in Fields : value[f] = Uniform(f, 0) /\ typed[f] = <<>>
  BY DEF Init
<1> QED
  BY <1>1, <1>2, LayoutAssumption DEF Init, Stored, NoMessage, Frame

LEMMA StoredStep ==
  ASSUME Stored, [Next]_vars
  PROVE  Stored'
<1>1. CASE CollectDirty
  <2>1. todo' = RegionsOf(dirty) /\ dirty \subseteq Fields
    BY <1>1 DEF CollectDirty, Stored
  <2>2. ASSUME NEW r \in todo' PROVE r # {} /\ r \subseteq WordsOf(Fields)
    BY <2>1, WordsGrow DEF RegionsOf
  <2>3. main' \in {"write", "clear"} => todo' # {}
    BY <1>1, <2>1, SomeRegion DEF CollectDirty
  <2> QED
    BY <1>1, <2>2, <2>3 DEF CollectDirty, fieldVars, linkVars, countVars, Stored
<1>2. CASE EnqueueRegion
  <2> DEFINE r == First(todo)
             frames == [n \in DOMAIN Accepted(r) |->
                          [b \in BytesIn(Accepted(r)[n]) |-> SyncToCtl(r)[b]]]
  <2>1. todo # {} /\ r \subseteq WordsOf(Fields)
    BY <1>2, FirstOfTodo DEF EnqueueRegion, Stored
  <2>2. SyncToCtl(r) \in [Buffer -> Val]
    BY SyncedInBlock
  <2>3. ctl' = SyncToCtl(r) /\ tx' = tx \o frames /\ sent' \in BOOLEAN
    BY <1>2 DEF EnqueueRegion
  <2>4. frames \in Seq(Frame)
    <3>1. PICK len \in Nat : DOMAIN Accepted(r) = 1 .. len
      BY <2>1, AcceptedChunks
    <3>2. ASSUME NEW n \in DOMAIN Accepted(r)
          PROVE  [b \in BytesIn(Accepted(r)[n]) |-> SyncToCtl(r)[b]] \in Frame
      <4>1. BytesIn(Accepted(r)[n]) \in SUBSET Buffer
        BY <2>1, AcceptedChunks
      <4> DEFINE S == BytesIn(Accepted(r)[n])
      <4>2. [b \in S |-> SyncToCtl(r)[b]] \in [S -> Val]
        BY <2>2, <4>1
      <4> QED
        BY <4>1, <4>2 DEF Frame
    <3>3. frames \in [1 .. len -> Frame]
      BY <3>1, <3>2
    <3> QED
      BY <3>3
  <2> HIDE DEF frames, r
  <2>5. tx' \in Seq(Frame)
    BY <2>3, <2>4, ConcatProperties DEF Stored
  <2> QED
    BY <1>2, <2>1, <2>2, <2>3, <2>5 DEF EnqueueRegion, fieldVars, linkVars, countVars, Stored
<1>3. CASE ClearDirty
  BY <1>3 DEF ClearDirty, linkVars, countVars, Stored
<1>4. CASE RenderUI
  <2>1. PICK shown \in SUBSET Fields, edited \in {{}} \union {{f} : f \in Fields}, v \in Val :
          /\ value' = [f \in Fields |-> IF f \in edited THEN Uniform(f, v) ELSE value[f]]
          /\ typed' = [f \in Fields |-> IF f \in edited THEN Append(typed[f], Uniform(f, v))
                                        ELSE typed[f]]
          /\ dirty' = StillDirty(shown, edited)
    BY <1>4 DEF RenderUI
  <2>2. dirty' \subseteq Fields
    BY <2>1 DEF StillDirty, Stored
  <2>3. ASSUME NEW f \in Fields
        PROVE  value'[f] \in Content(f) /\ typed'[f] \in Seq(Content(f))
    <3>1. Uniform(f, v) \in Content(f)
      BY DEF Uniform, Content
    <3>2. Append(typed[f], Uniform(f, v)) \in Seq(Content(f))
      BY <3>1 DEF Stored
    <3> QED
      BY <2>1, <3>1, <3>2 DEF Stored
  <2> QED
    BY <1>4, <2>1, <2>2, <2>3 DEF RenderUI, linkVars, Stored
<1>5. CASE SendWrite
  <2>1. /\ tx # <<>> /\ device' = Patched(device, Head(tx)) /\ tx' = Tail(tx)
    BY <1>5 DEF SendWrite
  <2>2. Head(tx) \in Frame /\ tx' \in Seq(Frame)
    BY <2>1, HeadTailProperties DEF Stored
  <2>3. \A b \in DOMAIN Head(tx) \intersect Buffer : Head(tx)[b] \in Val
    BY <2>2 DEF Frame
  <2>4. device' \in [Buffer -> Val]
    BY <2>1, <2>3, PatchedInBlock DEF Stored
  <2> QED
    BY <1>5, <2>2, <2>4 DEF SendWrite, mainVars, fieldVars, linkVars, countVars, Stored
<1>6. CASE DeviceChange
  <2>1. PICK f \in Fields, v \in Val : device' = Patched(device, Uniform(f, v))
    BY <1>6 DEF DeviceChange
  <2>2. device' \in [Buffer -> Val]
    BY <2>1, PatchedInBlock DEF Uniform, Stored
  <2> QED
    BY <1>6, <2>2 DEF DeviceChange, mainVars, fieldVars, linkVars, Stored
<1>7. CASE Answer
  <2>1. /\ wire'.kind = "reply" /\ reader' = reader
        /\ \A b \in DOMAIN wire'.bytes \intersect Buffer : wire'.bytes[b] \in Val
    BY <1>7 DEF Answer, Stored
  <2> QED
    BY <1>7, <2>1 DEF Answer, mainVars, fieldVars, countVars, Stored
<1>8. CASE ParseReply
  <2>1. periph' \in [Buffer -> Val]
    BY <1>8, PatchedInBlock DEF ParseReply, Stored
  <2> QED
    BY <1>8, <2>1 DEF ParseReply, mainVars, fieldVars, countVars, Stored
<1>9. CASE Callback
  <2>1. \A f \in Fields : value'[f] \in Content(f)
    BY <1>9, PartInContent DEF Callback, Stored
  <2> QED
    BY <1>9, <2>1 DEF Callback, mainVars, countVars, Stored, NoMessage
<1>10. CASE SendRequest \/ Lose \/ CallbackSkips \/ UNCHANGED vars
  BY <1>10 DEF SendRequest, Lose, CallbackSkips, vars, mainVars, fieldVars, linkVars, countVars,
     Stored, NoMessage
<1> QED
  BY <1>1, <1>2, <1>3, <1>4, <1>5, <1>6, <1>7, <1>8, <1>9, <1>10 DEF Next, MainStep, ReaderStep

LEMMA NextRequest ==
  ASSUME Listed, Requests # <<>>, NextInList
  PROVE  next \in DOMAIN Requests /\ (next % Len(Requests)) + 1 \in DOMAIN Requests
<1>1. /\ DOMAIN Requests = 1 .. Len(Requests) /\ Len(Requests) \in Nat
      /\ Len(Requests) > 0
  BY DEF Listed
<1>2. next \in 1 .. Len(Requests)
  BY <1>1 DEF NextInList
<1>3. next % Len(Requests) \in 0 .. Len(Requests) - 1
  BY <1>1, <1>2, SMT
<1> QED
  BY <1>1, <1>2, <1>3

LEMMA NextInit == Init => NextInList
BY DEF Init, NextInList

LEMMA NextStep ==
  ASSUME Listed, NextInList, [Next]_vars
  PROVE  NextInList'
<1>1. CASE SendRequest
  BY <1>1, NextRequest DEF SendRequest, NextInList
<1>2. CASE next' = next
  BY <1>2 DEF NextInList
<1> QED
  BY <1>1, <1>2 DEF Next, MainStep, ReaderStep, CollectDirty, EnqueueRegion, ClearDirty, RenderUI,
     SendWrite, Lose, ParseReply, Callback, CallbackSkips, Answer, DeviceChange, vars, linkVars

\* Every variable keeps its type: no frame leaves the block, whatever the
\* layout and whether or not the bounds check refuses its last chunk
\* (dartt_link.cpp:226-289).
THEOREM TypesAreKept ==
  ASSUME Listed
  PROVE  Spec => []TypeOK
<1>1. Stored /\ NextInList => TypeOK
  <2> SUFFICES ASSUME Stored, NextInList PROVE TypeOK
    OBVIOUS
  <2>1. ASSUME NEW n \in DOMAIN tx PROVE DOMAIN tx[n] \subseteq Buffer
    <3>1. tx[n] \in Frame
      BY DEF Stored
    <3> QED
      BY <3>1 DEF Frame
  <2> QED
    BY <2>1 DEF Stored, NextInList, TypeOK
<1> QED
  BY <1>1, NextInit, StoredInit, StoredStep, NextStep, PTL DEF Spec

-----------------------------------------------------------------------------
(* Edits.                                                                  *)

\* A dirty field holds the last value typed for it.
Edited ==
  /\ dirty \subseteq Fields
  /\ \A f \in Fields : \E S : typed[f] \in Seq(S)
  /\ \A f \in dirty : typed[f] # <<>> /\ value[f] = Last(typed[f])

LEMMA LastAppended ==
  ASSUME NEW S, NEW s \in Seq(S), NEW e
  PROVE  /\ Append(s, e) \in Seq(S \union {e})
         /\ Append(s, e) # <<>> /\ Last(Append(s, e)) = e
         /\ s \in Seq(S \union {e})
BY DEF Last

LEMMA EditedInit == Init => Edited
BY DEF Init, Edited

LEMMA EditedStep ==
  ASSUME Edited, [Next]_vars
  PROVE  Edited'
<1>1. CASE ClearDirty
  BY <1>1 DEF ClearDirty, Edited
<1>2. CASE RenderUI
  <2>1. PICK shown \in SUBSET Fields, edited \in {{}} \union {{f} : f \in Fields}, v \in Val :
          /\ value' = [f \in Fields |-> IF f \in edited THEN Uniform(f, v) ELSE value[f]]
          /\ typed' = [f \in Fields |-> IF f \in edited THEN Append(typed[f], Uniform(f, v))
                                        ELSE typed[f]]
          /\ dirty' = StillDirty(shown, edited)
    BY <1>2 DEF RenderUI
  <2>2. edited \subseteq Fields /\ dirty' \subseteq dirty \union edited
    BY <2>1 DEF StillDirty
  <2>3. ASSUME NEW f \in Fields PROVE \E S : typed'[f] \in Seq(S)
    BY <2>1, <2>3, LastAppended DEF Edited
  <2>4. ASSUME NEW f \in dirty' PROVE typed'[f] # <<>> /\ value'[f] = Last(typed'[f])
    <3>1. CASE f \in edited
      <4>1. PICK S : typed[f] \in Seq(S)
        BY <2>2, <3>1 DEF Edited
      <4>2. f \in Fields /\ value'[f] = Uniform(f, v)
              /\ typed'[f] = Append(typed[f], Uniform(f, v))
        BY <2>1, <2>2, <3>1
      <4>3. /\ Append(typed[f], Uniform(f, v)) # <<>>
            /\ Last(Append(typed[f], Uniform(f, v))) = Uniform(f, v)
        BY <4>1, LastAppended, Zenon
      <4> QED
        BY <4>2, <4>3
    <3>2. CASE f \notin edited
      BY <2>1, <2>2, <2>4, <3>2 DEF Edited
    <3> QED
      BY <3>1, <3>2
  <2> QED
    BY <2>1, <2>2, <2>3, <2>4 DEF Edited
<1>3. CASE Callback
  <2>1. /\ value' = [f \in Fields |-> IF f \in UpdatedBy(wire.chunk) THEN Part(periph, f)
                                                               ELSE value[f]]
        /\ UNCHANGED <<dirty, typed>> /\ UpdatedBy(wire.chunk) \cap dirty = {}
    BY <1>3 DEF Callback, UpdatedBy
  <2> QED
    BY <2>1 DEF Edited
<1>4. CASE CollectDirty \/ EnqueueRegion \/ SendWrite \/ SendRequest \/ Lose \/ ParseReply
             \/ CallbackSkips \/ Answer \/ DeviceChange \/ UNCHANGED vars
  BY <1>4 DEF CollectDirty, EnqueueRegion, SendWrite, SendRequest, Lose, ParseReply,
     CallbackSkips, Answer, DeviceChange, vars, fieldVars, Edited
<1> QED
  BY <1>1, <1>2, <1>3, <1>4 DEF Next, MainStep, ReaderStep

\* A reply never overwrites an edit that has not been put into a write frame
\* (main.cpp:90-93 against 410-426).
THEOREM EditsAreKept == Spec => []EditSurvives
<1>1. Edited => EditSurvives
  BY DEF Edited, EditSurvives
<1> QED
  BY <1>1, EditedInit, EditedStep, PTL DEF Spec

-----------------------------------------------------------------------------
(* Reads.                                                                  *)

\* What a field has in memory, in a reply and in periph_buf is a value it had.
Whole ==
  /\ DOMAIN value = Fields /\ DOMAIN held = Fields /\ DOMAIN typed = Fields
  /\ DOMAIN periph = Buffer /\ DOMAIN device = Buffer
  /\ wire.kind \in {"request", "reply"} =>
       /\ \E n \in DOMAIN Requests : wire.chunk = Requests[n]
  /\ wire.kind = "reply" => DOMAIN wire.bytes = BytesIn(wire.chunk)
  /\ reader = "callback" => wire.kind = "reply"
  /\ \A f \in Subscribed :
       /\ Part(device, f) \in held[f] /\ Part(periph, f) \in held[f]
       /\ wire.kind = "reply" /\ BytesOf(f) \subseteq BytesIn(wire.chunk) =>
            Part(wire.bytes, f) \in held[f]
       /\ value[f] \in held[f] \union ToSet(typed[f])

\* The bytes of a field after some of the memory has been replaced, when the
\* bytes that came in hold all of the field or none of it.
LEMMA PatchedPart ==
  ASSUME NEW f \in Fields, NEW memory, DOMAIN memory = Buffer, NEW bytes
  PROVE  /\ DOMAIN Patched(memory, bytes) = Buffer
         /\ BytesOf(f) \subseteq DOMAIN bytes =>
              Part(Patched(memory, bytes), f) = Part(bytes, f)
         /\ BytesOf(f) \cap DOMAIN bytes = {} =>
              Part(Patched(memory, bytes), f) = Part(memory, f)
BY FieldInBuffer DEF Patched, Part

LEMMA ToSetAppended ==
  ASSUME NEW S, NEW s \in Seq(S), NEW e
  PROVE  ToSet(Append(s, e)) = ToSet(s) \union {e}
<1>1. /\ DOMAIN s = 1 .. Len(s) /\ Len(s) \in Nat
      /\ DOMAIN Append(s, e) = 1 .. Len(s) + 1
      /\ Append(s, e)[Len(s) + 1] = e
      /\ \A i \in 1 .. Len(s) : Append(s, e)[i] = s[i]
  OBVIOUS
<1> QED
  BY <1>1 DEF ToSet

LEMMA WholeInit == Init => Whole
<1> SUFFICES ASSUME Init PROVE Whole
  OBVIOUS
<1>1. ASSUME NEW f \in Subscribed
      PROVE  Part(periph, f) = Uniform(f, 0) /\ value[f] = Uniform(f, 0)
               /\ Part(device, f) \in held[f] /\ Uniform(f, 0) \in held[f]
  BY FieldInBuffer, LayoutAssumption DEF Init, Part, Uniform
<1> QED
  BY <1>1, LayoutAssumption DEF Init, Whole, NoMessage

LEMMA HeldGrows ==
  ASSUME Whole, UNCHANGED <<value, typed, periph, wire, next, reader>>,
         DOMAIN device' = Buffer, held' = HeldNow(device')
  PROVE  Whole'
<1>1. \A f \in Fields : held'[f] = held[f] \union {Part(device', f)}
  BY DEF HeldNow
<1> QED
  BY <1>1, LayoutAssumption DEF Whole, HeldNow

LEMMA WholeStep ==
  ASSUME Listed, Undivided, NextInList, Edited, Whole, [Next]_vars
  PROVE  Whole'
<1>0. Subscribed \subseteq Fields
  BY LayoutAssumption
<1>1. CASE SendWrite \/ DeviceChange
  <2>1. DOMAIN device' = Buffer /\ held' = HeldNow(device')
          /\ UNCHANGED <<value, typed, periph, wire, next, reader>>
    BY <1>1 DEF SendWrite, DeviceChange, fieldVars, linkVars, Patched, Whole
  <2> QED
    BY <2>1, HeldGrows
<1>2. CASE RenderUI
  <2>1. PICK shown \in SUBSET Fields, edited \in {{}} \union {{f} : f \in Fields}, v \in Val :
          /\ value' = [f \in Fields |-> IF f \in edited THEN Uniform(f, v) ELSE value[f]]
          /\ typed' = [f \in Fields |-> IF f \in edited THEN Append(typed[f], Uniform(f, v))
                                        ELSE typed[f]]
          /\ dirty' = StillDirty(shown, edited)
    BY <1>2 DEF RenderUI
  <2>2. UNCHANGED <<device, held, periph, wire, next, reader>>
    BY <1>2 DEF RenderUI, linkVars
  <2>3. ASSUME NEW f \in Subscribed
        PROVE  value'[f] \in held[f] \union ToSet(typed'[f])
    <3>1. f \in Fields /\ (\E S : typed[f] \in Seq(S)) /\ value[f] \in held[f] \union ToSet(typed[f])
      BY <1>0 DEF Edited, Whole
    <3>2. PICK S : typed[f] \in Seq(S)
      BY <3>1
    <3>3. ToSet(Append(typed[f], Uniform(f, v))) = ToSet(typed[f]) \union {Uniform(f, v)}
      BY <3>2, ToSetAppended
    <3> QED
      BY <2>1, <3>1, <3>3
  <2> QED
    BY <2>1, <2>2, <2>3 DEF Whole
<1>3. CASE SendRequest
  <2>1. /\ wire' = [kind |-> "request", chunk |-> Requests[next]]
        /\ next' = (next % Len(Requests)) + 1 /\ Requests # <<>> /\ reader = "read"
        /\ UNCHANGED <<value, typed, device, held, periph, reader>>
    BY <1>3 DEF SendRequest, fieldVars
  <2>2. next \in DOMAIN Requests /\ next' \in DOMAIN Requests
    BY <2>1, NextRequest
  <2> QED
    BY <2>1, <2>2 DEF Whole
<1>4. CASE Answer
  <2>1. /\ wire.kind = "request" /\ next' = next /\ reader' = reader
        /\ wire' = [kind |-> "reply", chunk |-> wire.chunk,
                    bytes |-> [b \in BytesIn(wire.chunk) |-> device[b]]]
        /\ UNCHANGED <<value, typed, device, held, periph>>
    BY <1>4 DEF Answer, fieldVars
  <2>2. ASSUME NEW f \in Subscribed, BytesOf(f) \subseteq BytesIn(wire.chunk)
        PROVE  Part(wire'.bytes, f) = Part(device, f)
    BY <2>1, <2>2 DEF Part
  <2> QED
    BY <2>1, <2>2 DEF Whole
<1>5. CASE Lose \/ CallbackSkips
  <2>1. /\ wire' = NoMessage /\ reader' = "read"
        /\ UNCHANGED <<value, typed, device, held, periph, next>>
    BY <1>5 DEF Lose, CallbackSkips, fieldVars
  <2> QED
    BY <2>1 DEF Whole, NoMessage
<1>6. CASE ParseReply
  <2>1. /\ wire.kind = "reply" /\ periph' = Patched(periph, wire.bytes)
        /\ reader' = "callback"
        /\ UNCHANGED <<value, typed, device, held, wire, next>>
    BY <1>6 DEF ParseReply, fieldVars
  <2>2. ASSUME NEW f \in Subscribed PROVE Part(periph', f) \in held[f]
    <3>1. \/ BytesOf(f) \subseteq BytesIn(wire.chunk)
          \/ BytesOf(f) \cap BytesIn(wire.chunk) = {}
      BY <2>1 DEF Undivided, Whole
    <3>2. DOMAIN wire.bytes = BytesIn(wire.chunk) /\ DOMAIN periph = Buffer
      BY <2>1 DEF Whole
    <3> QED
      BY <1>0, <2>1, <3>1, <3>2, PatchedPart DEF Whole
  <2>3. DOMAIN periph' = Buffer
    BY <2>1 DEF Patched, Whole
  <2> QED
    BY <2>1, <2>2, <2>3 DEF Whole
<1>7. CASE Callback
  <2>1. /\ value' = [f \in Fields |-> IF f \in UpdatedBy(wire.chunk) THEN Part(periph, f)
                                                               ELSE value[f]]
        /\ wire' = NoMessage /\ reader' = "read"
        /\ UNCHANGED <<typed, device, held, periph, next>>
    BY <1>7 DEF Callback
  <2> QED
    BY <1>0, <2>1 DEF Whole, NoMessage
<1>8. CASE CollectDirty \/ EnqueueRegion \/ ClearDirty \/ UNCHANGED vars
  BY <1>8 DEF CollectDirty, EnqueueRegion, ClearDirty, vars, fieldVars, linkVars, Whole
<1> QED
  BY <1>1, <1>2, <1>3, <1>4, <1>5, <1>6, <1>7, <1>8 DEF Next, MainStep, ReaderStep

\* When no subscribed field lies across the border of two requests, a field
\* shows only values it had on the peripheral or the user typed
\* (main.cpp:85-98).
THEOREM ValuesAreWhole ==
  ASSUME Listed, Undivided
  PROVE  Spec => []NotTorn
<1>1. Whole => NotTorn
  BY DEF Whole, NotTorn
<1>2. NextInList /\ Edited /\ Whole /\ [Next]_vars => NextInList' /\ Edited' /\ Whole'
  BY NextStep, EditedStep, WholeStep
<1> QED
  BY <1>1, <1>2, NextInit, EditedInit, WholeInit, PTL DEF Spec

-----------------------------------------------------------------------------
(* Writes.                                                                 *)

\* Variables do not share a word.
WordsApart == \A f, g \in Fields : f # g => WordsOf({f}) \intersect WordsOf({g}) = {}

\* One frame holds a variable.
FitsFrame == \A f \in Fields : Cardinality(WordsOf({f})) <= ChunkWords

\* The block ends with a whole word.
WholeWords == BufferSize % Word = 0

\* A frame carries the words of one field, and one of the values for it.
Carries(frame, f, values) ==
  DOMAIN frame = BytesIn(WordsOf({f})) /\ Part(frame, f) \in values

\* An edit leaves the main loop in the frame after it: no more than one field
\* is ever dirty, and what was put into frames is what was typed.
Writing ==
  /\ \A n \in DOMAIN tx : \E f \in Fields : Carries(tx[n], f, ToSet(typed[f]))
  /\ main = "collect" => dirty = {} \/ \E f \in Fields : dirty = {f}
  /\ main \in {"write", "clear"} =>
       \E f \in Fields : dirty = {f} /\ todo = {WordsOf({f})}
  /\ main = "clear" => sent
  /\ main = "render" => dirty = {}

LEMMA Times ==
  ASSUME NEW x \in Nat, NEW y \in Nat, NEW d \in Nat \ {0}
  PROVE  /\ d * x \in Nat /\ d * (x + 1) = d * x + d
         /\ x <= y => d * x <= d * y
         /\ d * x < d * y => x < y
<1>1. ASSUME NEW a \in Nat, NEW b \in Nat, a <= b PROVE d * a <= d * b
  <2>1. b = a + (b - a) /\ b - a \in Nat
    BY <1>1
  <2>2. PICK k \in Nat : b = a + k
    BY <2>1
  <2>3. d * b = d * a + d * k /\ d * k \in Nat /\ d * a \in Nat
    BY <2>2
  <2> QED
    BY <2>3
<1>2. d * x < d * y => x < y
  <2>1. y <= x => d * y <= d * x
    BY <1>1
  <2>2. d * x \in Nat /\ d * y \in Nat
    OBVIOUS
  <2> QED
    BY <2>1, <2>2
<1> QED
  BY <1>1, <1>2

LEMMA QuotientsGrow ==
  ASSUME NEW a \in Nat, NEW b \in Nat, a <= b, NEW d \in Nat \ {0}
  PROVE  a \div d <= b \div d
<1> DEFINE p == a \div d
           q == b \div d
<1>1. /\ p \in Nat /\ d * p <= a /\ q \in Nat /\ b < d * q + d
  BY Division
<1> HIDE DEF p, q
<1>2. d * p < d * (q + 1)
  <2>1. d * (q + 1) = d * q + d /\ d * p \in Nat /\ d * q \in Nat
    BY <1>1, Times
  <2> QED
    BY <1>1, <2>1
<1>3. p < q + 1
  BY <1>1, <1>2, Times
<1>4. p <= q
  BY <1>1, <1>3
<1> QED
  BY <1>4 DEF p, q

FirstWord(f) == Off[f] \div Word
LastWord(f)  == (Off[f] + Size[f] - 1) \div Word

\* The words of a field are a run.
LEMMA FieldWords ==
  ASSUME NEW f \in Fields
  PROVE  /\ FirstWord(f) \in Nat /\ LastWord(f) \in Nat /\ FirstWord(f) <= LastWord(f)
         /\ WordsOf({f}) = FirstWord(f) .. LastWord(f)
<1> DEFINE last == Off[f] + Size[f] - 1
<1>1. /\ Off[f] \in Nat /\ last \in Nat /\ Off[f] <= last /\ Word \in Nat \ {0}
      /\ BytesOf(f) = Off[f] .. last
  BY LayoutAssumption DEF BytesOf
<1> HIDE DEF last
<1>2. /\ FirstWord(f) \in Nat /\ LastWord(f) \in Nat /\ FirstWord(f) <= LastWord(f)
  BY <1>1, Division, QuotientsGrow DEF FirstWord, LastWord, last
<1>3. WordsOf({f}) = {b \div Word : b \in BytesOf(f)}
  BY DEF WordsOf
<1>4. ASSUME NEW b \in BytesOf(f) PROVE b \div Word \in FirstWord(f) .. LastWord(f)
  <2>1. b \in Nat /\ Off[f] <= b /\ b <= last
    BY <1>1
  <2>2. b \div Word \in Nat /\ Off[f] \div Word <= b \div Word /\ b \div Word <= last \div Word
    BY <1>1, <2>1, Division, QuotientsGrow
  <2> QED
    BY <1>2, <2>2 DEF FirstWord, LastWord, last
<1>5. ASSUME NEW w \in FirstWord(f) .. LastWord(f)
      PROVE  \E b \in BytesOf(f) : b \div Word = w
  <2>1. w \in Nat /\ FirstWord(f) <= w /\ w <= LastWord(f) /\ Word * w \in Nat
    BY <1>1, <1>2
  <2>2. Word * w <= last
    <3>1. Word * w <= Word * LastWord(f)
      BY <1>1, <1>2, <2>1, Times
    <3>2. Word * LastWord(f) <= last /\ Word * LastWord(f) \in Nat
      BY <1>1, <1>2, Division, Times DEF LastWord, last
    <3> QED
      BY <1>1, <2>1, <3>1, <3>2
  <2>3. Off[f] < Word * w + Word
    <3>1. Word * FirstWord(f) <= Word * w /\ Word * FirstWord(f) \in Nat
      BY <1>1, <1>2, <2>1, Times
    <3>2. Off[f] < Word * FirstWord(f) + Word
      BY <1>1, Division DEF FirstWord
    <3> QED
      BY <1>1, <2>1, <3>1, <3>2
  <2>4. CASE Off[f] <= Word * w
    <3>1. Word * w \in BytesOf(f)
      BY <1>1, <2>1, <2>2, <2>4
    <3>2. Word * w < Word * w + Word
      BY <1>1, <2>1
    <3>3. (Word * w) \div Word = w
      BY <1>1, <2>1, <3>2, Quotient
    <3> QED
      BY <3>1, <3>3
  <2>5. CASE ~(Off[f] <= Word * w)
    <3>0. Word * w <= Off[f]
      BY <1>1, <2>1, <2>5
    <3>1. Off[f] \div Word = w
      BY <1>1, <2>1, <2>3, <3>0, Quotient
    <3>2. Off[f] \in BytesOf(f)
      BY <1>1
    <3> QED
      BY <3>1, <3>2
  <2> QED
    BY <2>4, <2>5
<1> QED
  BY <1>2, <1>3, <1>4, <1>5

LEMMA RunEnds ==
  ASSUME NEW a \in Nat, NEW b \in Nat, a <= b
  PROVE  Min(a .. b) = a /\ Max(a .. b) = b
<1>1. a \in a .. b /\ b \in a .. b /\ \A x \in a .. b : a <= x /\ b >= x /\ x \in Nat
  OBVIOUS
<1> QED
  BY <1>1 DEF Min, Max

\* One field makes one region.
LEMMA OneRegion ==
  ASSUME NEW f \in Fields
  PROVE  RegionsOf({f}) = {WordsOf({f})}
<1> DEFINE W == WordsOf({f})
           lo == FirstWord(f)
           hi == LastWord(f)
<1>1. lo \in Nat /\ hi \in Nat /\ lo <= hi /\ W = lo .. hi
  BY FieldWords
<1> HIDE DEF W, lo, hi
<1>2. ASSUME NEW a \in W, NEW b \in W, a .. b # {}, Min(a .. b) - 1 \notin W,
             Max(a .. b) + 1 \notin W
      PROVE  a .. b = W
  <2>1. a \in Nat /\ b \in Nat /\ a <= b /\ lo <= a /\ b <= hi
    BY <1>1, <1>2
  <2>2. Min(a .. b) = a /\ Max(a .. b) = b
    BY <2>1, RunEnds
  <2>3. a = lo /\ b = hi
    BY <1>1, <1>2, <2>1, <2>2
  <2> QED
    BY <1>1, <2>3
<1>3. RegionsOf({f}) \subseteq {W}
  <2> SUFFICES ASSUME NEW r \in RegionsOf({f}) PROVE r = W
    OBVIOUS
  <2>1. PICK a \in W, b \in W :
          r = a .. b /\ r # {} /\ Min(r) - 1 \notin W /\ Max(r) + 1 \notin W
    <3>1. r \in Runs(W) /\ r # {} /\ Min(r) - 1 \notin W /\ Max(r) + 1 \notin W
      BY DEF RegionsOf, W
    <3>2. PICK a \in W, b \in W : r = a .. b
      BY <3>1 DEF Runs
    <3> QED
      BY <3>1, <3>2
  <2> QED
    BY <1>2, <2>1
<1>4. RegionsOf({f}) # {}
  BY SomeRegion
<1> QED
  BY <1>3, <1>4 DEF W

\* The region of one field is one chunk, and it is accepted.
LEMMA OneChunk ==
  ASSUME FitsFrame, WholeWords, NEW f \in Fields
  PROVE  /\ ChunksOf(WordsOf({f})) = <<WordsOf({f})>>
         /\ Accepted(WordsOf({f})) = <<WordsOf({f})>>
<1> DEFINE W == WordsOf({f})
           lo == FirstWord(f)
           hi == LastWord(f)
<1>1. lo \in Nat /\ hi \in Nat /\ lo <= hi /\ W = lo .. hi
  BY FieldWords
<1>2. Word \in Nat \ {0} /\ ChunkWords \in Nat \ {0} /\ BufferSize \in Nat
  BY LayoutAssumption
<1>3. Cardinality(W) <= ChunkWords
  BY DEF FitsFrame
<1>4. hi < BufferSize \div Word /\ BufferSize = Word * (BufferSize \div Word)
        /\ BufferSize \div Word \in Nat
  <2>1. BufferSize \div Word \in Nat /\ BufferSize = Word * (BufferSize \div Word)
    BY <1>2 DEF WholeWords
  <2>2. /\ Off[f] + Size[f] - 1 \in Nat /\ Off[f] + Size[f] - 1 < BufferSize
    BY LayoutAssumption
  <2>3. Word * hi <= Off[f] + Size[f] - 1 /\ Word * hi \in Nat
    BY <1>1, <1>2, <2>2, Division, Times DEF LastWord
  <2>4. Word * hi < Word * (BufferSize \div Word)
    BY <1>2, <2>1, <2>2, <2>3
  <2> QED
    BY <1>1, <1>2, <2>1, <2>4, Times
<1> HIDE DEF W, lo, hi
<1>5. Cardinality(W) = hi - lo + 1 /\ Min(W) = lo
  BY <1>1, FS_Interval, RunEnds
<1>6. (Cardinality(W) + ChunkWords - 1) \div ChunkWords = 1
  <2> DEFINE c == Cardinality(W) + ChunkWords - 1
  <2>1. c \in Nat /\ ChunkWords * 1 <= c /\ c < ChunkWords * 1 + ChunkWords
    BY <1>1, <1>2, <1>3, <1>5
  <2> HIDE DEF c
  <2>2. c \div ChunkWords = 1
    BY <1>2, <2>1, Quotient
  <2> QED
    BY <2>2 DEF c
<1>7. ASSUME NEW w \in W PROVE (w - Min(W)) \div ChunkWords = 0
  <2>1. w - lo \in Nat /\ ChunkWords * 0 <= w - lo /\ w - lo < ChunkWords * 0 + ChunkWords
    BY <1>1, <1>2, <1>3, <1>5
  <2>2. (w - lo) \div ChunkWords = 0
    BY <1>2, <2>1, Quotient
  <2> QED
    BY <1>5, <2>2
<1>8. ChunksOf(W) = <<W>>
  <2>1. {w \in W : (w - Min(W)) \div ChunkWords = 1 - 1} = W
    BY <1>7
  <2>2. ChunksOf(W) = [n \in 1 .. 1 |-> {w \in W : (w - Min(W)) \div ChunkWords = n - 1}]
    BY <1>6 DEF ChunksOf
  <2>3. \A n \in 1 .. 1 : n = 1
    OBVIOUS
  <2>4. ChunksOf(W) = [n \in 1 .. 1 |-> W]
    BY <2>1, <2>2, <2>3
  <2> QED
    BY <2>4
<1>9. BytesIn(W) \subseteq Buffer
  <2> SUFFICES ASSUME NEW b \in BytesIn(W) PROVE b \in Buffer
    OBVIOUS
  <2> DEFINE q == b \div Word
             k == BufferSize \div Word
  <2>1. b \in Nat /\ q \in lo .. hi
    BY <1>1 DEF BytesIn
  <2>2. q \in Nat /\ b < Word * q + Word
    BY <1>2, <2>1, Division
  <2> HIDE DEF q, k
  <2>3. k \in Nat /\ q + 1 <= k /\ BufferSize = Word * k
    BY <1>1, <1>4, <2>1, <2>2 DEF k
  <2>4. Word * (q + 1) <= Word * k /\ Word * (q + 1) = Word * q + Word
    BY <1>2, <2>2, <2>3, Times
  <2>5. Word * q \in Nat
    BY <1>2, <2>2, Times
  <2> QED
    BY <1>2, <2>1, <2>2, <2>3, <2>4, <2>5 DEF Buffer
<1>10. Refused(W) = {}
  BY <1>8, <1>9 DEF Refused, InBuffer
<1> QED
  BY <1>8, <1>10 DEF W, Accepted

LEMMA BytesInWords ==
  ASSUME NEW f \in Fields
  PROVE  BytesOf(f) \subseteq BytesIn(WordsOf({f}))
<1>1. BytesOf(f) \subseteq Buffer /\ BufferSize \in Nat /\ Word \in Nat \ {0}
  BY FieldInBuffer, LayoutAssumption
<1>2. ASSUME NEW b \in BytesOf(f)
      PROVE  b \in 0 .. Word * (BufferSize + 1) /\ b \div Word \in WordsOf({f})
  <2>1. b \in Nat /\ b <= BufferSize + 1 /\ b \div Word \in WordsOf({f})
    BY <1>1 DEF Buffer, WordsOf
  <2>2. BufferSize + 1 <= Word * (BufferSize + 1)
    <3>1. PICK n \in Nat : n = BufferSize + 1
      BY <1>1
    <3>2. Word * n >= n
      <4>1. 1 <= Word /\ n * 1 <= n * Word
        BY <1>1, <3>1, Times
      <4> QED
        BY <1>1, <3>1, <4>1
    <3> QED
      BY <3>1, <3>2
  <2> QED
    BY <1>1, <2>1, <2>2
<1> QED
  BY <1>2 DEF BytesIn

\* Its frame carries the bytes of ctl_buf, where the field's value has been
\* put.
LEMMA FrameCarriesEdit ==
  ASSUME Stored, Edited, NEW f \in Fields, dirty = {f}
  PROVE  Carries([b \in BytesIn(WordsOf({f})) |-> SyncToCtl(WordsOf({f}))[b]], f,
                 ToSet(typed[f]))
<1> DEFINE W == WordsOf({f})
           frame == [b \in BytesIn(W) |-> SyncToCtl(W)[b]]
<1>1. Synced(W) = {f}
  BY DEF Synced
<1>2. BytesOf(f) \subseteq BytesIn(W) /\ BytesOf(f) \subseteq Buffer
  BY BytesInWords, FieldInBuffer
<1>3. \A b \in BytesOf(f) : SyncToCtl(W)[b] = value[f][b]
  BY <1>1, <1>2 DEF SyncToCtl
<1>4. Part(frame, f) = value[f]
  <2>1. Part(frame, f) = [b \in BytesOf(f) |-> value[f][b]]
    BY <1>2, <1>3 DEF Part
  <2>2. value[f] \in [BytesOf(f) -> Val]
    BY DEF Stored, Content
  <2> QED
    BY <2>1, <2>2
<1>5. value[f] \in ToSet(typed[f])
  <2>1. /\ typed[f] \in Seq(Content(f)) /\ typed[f] # <<>>
        /\ value[f] = typed[f][Len(typed[f])]
    BY DEF Stored, Edited, Last
  <2>2. Len(typed[f]) \in DOMAIN typed[f]
    BY <2>1
  <2> QED
    BY <2>1, <2>2 DEF ToSet
<1> QED
  BY <1>4, <1>5 DEF Carries

LEMMA WritingInit == Init => Writing
BY DEF Init, Writing

LEMMA WritingStep ==
  ASSUME FitsFrame, WholeWords, Stored, Edited, Writing, [Next]_vars
  PROVE  Writing'
<1>1. CASE CollectDirty
  <2>1. CASE dirty = {}
    BY <1>1, <2>1 DEF CollectDirty, fieldVars, Writing, Carries
  <2>2. CASE dirty # {}
    <3>1. PICK f \in Fields : dirty = {f}
      BY <1>1, <2>2 DEF CollectDirty, Writing
    <3>2. todo' = {WordsOf({f})} /\ main' = "write" /\ UNCHANGED <<tx, dirty, typed>>
      BY <1>1, <3>1, OneRegion DEF CollectDirty, fieldVars
    <3> QED
      BY <3>1, <3>2 DEF Writing, Carries
  <2> QED
    BY <2>1, <2>2
<1>2. CASE EnqueueRegion
  <2>1. PICK f \in Fields : dirty = {f} /\ todo = {WordsOf({f})}
    BY <1>2 DEF EnqueueRegion, Writing
  <2> DEFINE W == WordsOf({f})
             frame == [b \in BytesIn(W) |-> SyncToCtl(W)[b]]
  <2>2. First(todo) = W
    BY <2>1, FirstOfTodo, <1>2 DEF Stored, EnqueueRegion
  <2>3. Accepted(W) = <<W>> /\ ChunksOf(W) = <<W>>
    BY OneChunk
  <2>4. /\ tx' = tx \o [n \in DOMAIN Accepted(W) |->
                         [b \in BytesIn(Accepted(W)[n]) |-> SyncToCtl(W)[b]]]
        /\ sent' = (Len(Accepted(W)) = Len(ChunksOf(W)))
        /\ main' = "clear" /\ UNCHANGED <<todo, dirty, typed>>
    BY <1>2, <2>2 DEF EnqueueRegion, fieldVars
  <2>5. Carries(frame, f, ToSet(typed[f]))
    BY <2>1, FrameCarriesEdit
  <2> HIDE DEF W
  <2>6. tx' = tx \o <<frame>>
    <3>1. DOMAIN Accepted(W) = 1 .. 1 /\ Accepted(W)[1] = W
      BY <2>3
    <3> DEFINE more == [n \in DOMAIN Accepted(W) |->
                         [b \in BytesIn(Accepted(W)[n]) |-> SyncToCtl(W)[b]]]
    <3>2. DOMAIN more = 1 .. 1 /\ more[1] = frame
      BY <3>1
    <3>3. more = [n \in 1 .. 1 |-> more[n]]
      BY <3>1
    <3>4. tx' = tx \o more
      BY <2>4
    <3> HIDE DEF more, frame
    <3>5. more = <<frame>>
      BY <3>2, <3>3
    <3> QED
      BY <3>4, <3>5
  <2> HIDE DEF frame
  <2>7. tx' = Append(tx, frame)
    BY <2>6 DEF Stored
  <2>8. ASSUME NEW n \in DOMAIN tx' PROVE \E g \in Fields : Carries(tx'[n], g, ToSet(typed[g]))
    <3>1. n \in 1 .. Len(tx) + 1 /\ (n \in DOMAIN tx => tx'[n] = tx[n])
            /\ (n = Len(tx) + 1 => tx'[n] = frame) /\ DOMAIN tx = 1 .. Len(tx)
            /\ Len(tx) \in Nat
      BY <2>7 DEF Stored
    <3>2. CASE n \in DOMAIN tx
      BY <3>1, <3>2 DEF Writing
    <3>3. CASE n = Len(tx) + 1
      BY <3>1, <3>3, <2>5
    <3> QED
      BY <3>1, <3>2, <3>3
  <2>9. sent'
    BY <2>3, <2>4
  <2>10. \A n \in DOMAIN tx' : \E g \in Fields : Carries(tx'[n], g, ToSet(typed'[g]))
    BY <2>4, <2>8 DEF Carries
  <2> QED
    BY <2>1, <2>4, <2>9, <2>10 DEF Writing, W
<1>3. CASE ClearDirty
  <2>1. PICK f \in Fields : dirty = {f} /\ todo = {WordsOf({f})}
    BY <1>3 DEF ClearDirty, Writing
  <2>2. sent /\ First(todo) = WordsOf({f})
    BY <1>3, <2>1, FirstOfTodo DEF ClearDirty, Writing, Stored
  <2>3. Synced(WordsOf({f})) = {f}
    BY <2>1 DEF Synced
  <2>4. dirty' = {} /\ todo' = {} /\ main' = "render" /\ UNCHANGED <<tx, typed>>
    BY <1>3, <2>1, <2>2, <2>3 DEF ClearDirty
  <2> QED
    BY <2>4 DEF Writing, Carries
<1>4. CASE RenderUI
  <2>1. PICK shown \in SUBSET Fields, edited \in {{}} \union {{f} : f \in Fields}, v \in Val :
          /\ typed' = [f \in Fields |-> IF f \in edited THEN Append(typed[f], Uniform(f, v))
                                        ELSE typed[f]]
          /\ dirty' = StillDirty(shown, edited)
    BY <1>4 DEF RenderUI
  <2>2. dirty = {} /\ main' = "collect" /\ tx' = tx
    BY <1>4 DEF RenderUI, Writing
  <2>3. dirty' = edited
    BY <2>1, <2>2 DEF StillDirty
  <2>4. ASSUME NEW f \in Fields PROVE ToSet(typed[f]) \subseteq ToSet(typed'[f])
    <3>1. typed[f] \in Seq(Content(f))
      BY DEF Stored
    <3>2. ToSet(Append(typed[f], Uniform(f, v))) = ToSet(typed[f]) \union {Uniform(f, v)}
      BY <3>1, ToSetAppended
    <3> QED
      BY <2>1, <3>2
  <2>5. \A n \in DOMAIN tx' : \E f \in Fields : Carries(tx'[n], f, ToSet(typed'[f]))
    BY <2>2, <2>4 DEF Writing, Carries
  <2> QED
    BY <2>2, <2>3, <2>5 DEF Writing
<1>5. CASE SendWrite
  <2>1. tx' = Tail(tx) /\ tx # <<>> /\ UNCHANGED <<main, todo, sent, dirty, typed>>
    BY <1>5 DEF SendWrite, mainVars, fieldVars
  <2>2. \A n \in DOMAIN tx' : n + 1 \in DOMAIN tx /\ tx'[n] = tx[n + 1]
    BY <2>1 DEF Stored
  <2>3. \A n \in DOMAIN tx' : \E f \in Fields : Carries(tx'[n], f, ToSet(typed'[f]))
    BY <2>1, <2>2 DEF Writing
  <2> QED
    BY <2>1, <2>3 DEF Writing
<1>6. CASE SendRequest \/ Lose \/ ParseReply \/ Callback \/ CallbackSkips \/ Answer
             \/ DeviceChange \/ UNCHANGED vars
  BY <1>6 DEF SendRequest, Lose, ParseReply, Callback, CallbackSkips, Answer, DeviceChange,
     vars, mainVars, fieldVars, Writing, Carries
<1> QED
  BY <1>1, <1>2, <1>3, <1>4, <1>5, <1>6 DEF Next, MainStep, ReaderStep

\* A frame changes one field, to what was typed for it.
LEMMA OneFieldWritten ==
  ASSUME WordsApart, NEW frame, NEW f \in Fields, Carries(frame, f, ToSet(typed[f])), NEW g \in Fields,
         NEW memory, DOMAIN memory = Buffer,
         Part(Patched(memory, frame), g) # Part(memory, g)
  PROVE  Part(Patched(memory, frame), g) \in ToSet(typed[g])
<1>1. CASE g = f
  <2>1. BytesOf(f) = DOMAIN Part(frame, f)
    BY DEF Part
  <2>2. BytesOf(f) \subseteq DOMAIN frame
    BY BytesInWords DEF Carries
  <2> QED
    BY <1>1, <2>2, PatchedPart DEF Carries
<1>2. CASE g # f
  <2>1. ASSUME NEW b \in BytesOf(g), b \in BytesIn(WordsOf({f})) PROVE FALSE
    <3>1. b \div Word \in WordsOf({g}) /\ b \div Word \in WordsOf({f})
      BY <2>1 DEF WordsOf, BytesIn
    <3> QED
      BY <1>2, <3>1 DEF WordsApart
  <2>2. BytesOf(g) \intersect DOMAIN frame = {}
    BY <2>1 DEF Carries
  <2> QED
    BY <2>2, PatchedPart
<1> QED
  BY <1>1, <1>2

LEMMA WriteStep ==
  ASSUME WordsApart, Stored, Writing, [Next]_vars, changes' = changes, NEW f \in Fields,
         Part(device', f) # Part(device, f)
  PROVE  Part(device', f) \in ToSet(typed[f])
<1>1. CASE SendWrite
  <2>1. tx # <<>> /\ device' = Patched(device, Head(tx))
    BY <1>1 DEF SendWrite
  <2>2. 1 \in DOMAIN tx /\ Head(tx) = tx[1]
    BY <2>1 DEF Stored
  <2>3. PICK g \in Fields : Carries(Head(tx), g, ToSet(typed[g]))
    BY <2>2 DEF Writing
  <2>4. DOMAIN device = Buffer
    BY DEF Stored
  <2> QED
    BY <2>1, <2>3, <2>4, OneFieldWritten
<1>2. CASE DeviceChange
  BY <1>2 DEF DeviceChange, Stored
<1>3. CASE device' = device
  BY <1>3
<1> QED
  BY <1>1, <1>2, <1>3 DEF Next, MainStep, ReaderStep, CollectDirty, EnqueueRegion, ClearDirty,
     RenderUI, SendRequest, Lose, ParseReply, Callback, CallbackSkips, Answer, vars

\* Writing changes a variable of the peripheral only to what the user typed
\* for it, when variables do not share a word, each fits a frame, and the
\* block ends with a whole word (main.cpp:405-426, buffer_sync.cpp:91-118).
THEOREM OnlyEditsAreWritten ==
  ASSUME WordsApart, FitsFrame, WholeWords
  PROVE  Spec => OnlyEditsWritten
<1> DEFINE A == changes' = changes =>
                  \A f \in Fields : Part(device', f) # Part(device, f) =>
                                    Part(device', f) \in ToSet(typed[f])
<1>1. Stored /\ Writing /\ [Next]_vars => [A]_vars
  BY WriteStep
<1>2. Stored /\ Edited /\ Writing /\ [Next]_vars => Stored' /\ Edited' /\ Writing'
  BY StoredStep, EditedStep, WritingStep
<1>3. Spec => [][A]_vars
  BY <1>1, <1>2, StoredInit, EditedInit, WritingInit, PTL DEF Spec
<1> QED
  BY <1>3 DEF OnlyEditsWritten
=============================================================================
