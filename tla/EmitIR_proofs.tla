--------------------------- MODULE EmitIR_proofs ---------------------------
(***************************************************************************)
(* What holds of EmitIR for every ASG, proved with TLAPS: TypeOK, the      *)
(* accounting of open blocks, and from it that every block of a finished   *)
(* function ends and that no block is ended twice.  Then, by one lemma per *)
(* action that says what the action does to the blocks: no code after a    *)
(* terminator, phis that match the predecessors, branches that stay inside *)
(* of a function, allocas before stores.                                   *)
(***************************************************************************)
EXTENDS EmitIR, SequenceTheorems, TLAPS

(* The call stack: what Push, Pop and Become do to it. *)

LEMMA PushFrames ==
  ASSUME frames \in Seq(Frame), NEW f \in Frame, frames' = Append(frames, f)
  PROVE  /\ frames' \in Seq(Frame)
         /\ Depth \in Nat
         /\ Depth' = Depth + 1
         /\ DOMAIN frames = 1 .. Depth
         /\ DOMAIN frames' = 1 .. Depth + 1
         /\ \A i \in 1 .. Depth : frames'[i] = frames[i]
         /\ frames'[Depth + 1] = f
  BY DEF Depth

LEMMA PopFrames ==
  ASSUME frames \in Seq(Frame), Depth > 0, frames' = SubSeq(frames, 1, Depth - 1)
  PROVE  /\ frames' \in Seq(Frame)
         /\ Depth \in Nat
         /\ Depth' = Depth - 1
         /\ DOMAIN frames = 1 .. Depth
         /\ DOMAIN frames' = 1 .. Depth - 1
         /\ \A i \in 1 .. Depth - 1 : frames'[i] = frames[i]
<1>1. Depth \in Nat /\ DOMAIN frames = 1 .. Depth /\ \A i \in 1 .. Depth : frames[i] \in Frame
  BY LenProperties, ElementOfSeq DEF Depth
<1>2. frames' \in Seq(Frame) /\ Len(frames') = Depth - 1
  <2>1. \A i \in 1 .. Depth - 1 : frames[i] \in Frame
    BY <1>1
  <2>. QED
    BY <1>1, <2>1, SubSeqProperties
<1>3. \A i \in 1 .. Depth - 1 : frames'[i] = frames[i]
  BY <1>1, SubSeqProperties
<1>. QED
  BY <1>1, <1>2, <1>3, LenProperties DEF Depth

LEMMA BecomeFrames ==
  ASSUME frames \in Seq(Frame), Depth > 0, NEW f \in Frame, frames' = [frames EXCEPT ![Depth] = f]
  PROVE  /\ frames' \in Seq(Frame)
         /\ Depth \in Nat
         /\ Depth' = Depth
         /\ DOMAIN frames = 1 .. Depth
         /\ DOMAIN frames' = 1 .. Depth
         /\ \A i \in 1 .. Depth - 1 : frames'[i] = frames[i]
         /\ frames'[Depth] = f
  BY DEF Depth

(* The blocks: what Terminate and Grow do to them. *)

LEMMA TerminateBlocks ==
  ASSUME NEW blocks \in Seq(Block), NEW b \in DOMAIN blocks, NEW t \in Term
  PROVE  /\ Terminate(blocks, b, t) \in Seq(Block)
         /\ DOMAIN Terminate(blocks, b, t) = DOMAIN blocks
         /\ Len(Terminate(blocks, b, t)) = Len(blocks)
         /\ \A c \in DOMAIN blocks :
              Terminate(blocks, b, t)[c].term = IF c = b THEN t ELSE blocks[c].term
<1>1. [blocks[b] EXCEPT !.term = t] \in Block
  <2>1. blocks[b] \in Block
    BY LenProperties, ElementOfSeq
  <2>. QED
    BY <2>1 DEF Block
<1>2. Terminate(blocks, b, t) = [blocks EXCEPT ![b] = [blocks[b] EXCEPT !.term = t]]
  BY DEF Terminate
<1>3. DOMAIN blocks = 1 .. Len(blocks)
  BY LenProperties
<1>. QED
  BY <1>1, <1>2, <1>3, ExceptSeq

\* The blocks after k new ones are created.
LEMMA GrowBlocks ==
  ASSUME TypeOK, NEW k \in Nat, NEW fn \in Nat
  PROVE  /\ Grow(k, fn) \in Seq(Block)
         /\ N \in Nat
         /\ Blocks = 1 .. N
         /\ DOMAIN Grow(k, fn) = 1 .. N + k
         /\ \A b \in 1 .. N + k : Grow(k, fn)[b].term = IF b <= N THEN bb[b].term ELSE NoTerm
<1>1. N \in Nat /\ Blocks = 1 .. N /\ bb \in [1 .. N -> Block]
  BY LenProperties DEF N, Blocks, TypeOK
<1>2. [NewBlock EXCEPT !.fn = fn] \in Block /\ [NewBlock EXCEPT !.fn = fn].term = NoTerm
  BY EmptySeq DEF NewBlock, Block, NoTerm, NoVal, Term, Val, TypeOK
<1>3. Grow(k, fn) \in [1 .. N + k -> Block]
  BY <1>1, <1>2 DEF Grow
<1>4. Grow(k, fn) \in Seq(Block)
  BY <1>1, <1>3, SeqDef
<1>. QED
  BY <1>1, <1>2, <1>3, <1>4 DEF Grow

\* The blocks after k new ones are created and the insertion block is ended.
LEMMA GrowAndEnd ==
  ASSUME TypeOK, cur \in Blocks, NEW k \in Nat, NEW t \in Term,
         bb' = Terminate(Grow(k, mCurFunc), cur, t)
  PROVE  /\ bb' \in Seq(Block)
         /\ N \in Nat
         /\ Blocks = 1 .. N
         /\ Blocks' = 1 .. N + k
         /\ \A b \in 1 .. N + k :
              bb'[b].term = IF b = cur THEN t ELSE IF b <= N THEN bb[b].term ELSE NoTerm
<1>. DEFINE blocks == Grow(k, mCurFunc)
<1>1. mCurFunc \in Nat
  BY DEF TypeOK
<1>2. /\ blocks \in Seq(Block)
      /\ N \in Nat
      /\ Blocks = 1 .. N
      /\ DOMAIN blocks = 1 .. N + k
      /\ \A b \in 1 .. N + k : blocks[b].term = IF b <= N THEN bb[b].term ELSE NoTerm
  BY <1>1, GrowBlocks, Zenon
<1>3. cur \in DOMAIN blocks
  BY <1>2
<1>. HIDE DEF blocks
<1>4. /\ Terminate(blocks, cur, t) \in Seq(Block)
      /\ DOMAIN Terminate(blocks, cur, t) = DOMAIN blocks
      /\ \A c \in DOMAIN blocks :
           Terminate(blocks, cur, t)[c].term = IF c = cur THEN t ELSE blocks[c].term
  BY <1>2, <1>3, TerminateBlocks
<1>5. bb' = Terminate(blocks, cur, t)
  BY DEF blocks
<1>. QED
  BY <1>2, <1>4, <1>5 DEF Blocks

\* The blocks after one of them is ended.
LEMMA EndBlock ==
  ASSUME TypeOK, NEW b \in Blocks, NEW t \in Term, bb' = Terminate(bb, b, t)
  PROVE  /\ bb' \in Seq(Block)
         /\ Blocks' = Blocks
         /\ \A c \in Blocks : bb'[c].term = IF c = b THEN t ELSE bb[c].term
  BY TerminateBlocks DEF TypeOK, Blocks

\* The blocks after an instruction is appended to one of them.
LEMMA AppendCode ==
  ASSUME bb \in Seq(Block), NEW b, NEW i \in Instr, bb' = [bb EXCEPT ![b].code = Append(@, i)]
  PROVE  /\ bb' \in Seq(Block)
         /\ Blocks' = Blocks
         /\ \A c \in Blocks : bb'[c].term = bb[c].term
<1>1. N \in Nat /\ Blocks = 1 .. N /\ bb \in [1 .. N -> Block]
  BY LenProperties DEF N, Blocks
<1>2. ASSUME b \in Blocks
      PROVE  [bb[b] EXCEPT !.code = Append(@, i)] \in Block
  <2>1. bb[b] \in Block /\ bb[b].code \in Seq(Instr)
    BY <1>1, <1>2 DEF Block
  <2>2. Append(bb[b].code, i) \in Seq(Instr)
    BY <2>1
  <2>. QED
    BY <2>1, <2>2 DEF Block
<1>3. bb' \in [1 .. N -> Block]
  BY <1>1, <1>2
<1>4. bb' \in Seq(Block)
  BY <1>1, <1>3, SeqDef
<1>5. ASSUME NEW c \in Blocks
      PROVE  bb'[c].term = bb[c].term
  BY <1>1, <1>5 DEF Block
<1>. QED
  BY <1>1, <1>3, <1>4, <1>5 DEF Blocks

(* Values, terminators and frames are of their types. *)

LEMMA Typed ==
  /\ NoVal \in Val /\ NoTerm \in Term /\ Ret \in Term /\ Exit \in Term
  /\ \A n \in Nat : Br(n) \in Term
  /\ \A v \in Val, t, f \in Nat : CondBr(v, t, f) \in Term
  BY DEF NoVal, Val, NoTerm, Term, Ret, Exit, Br, CondBr

LEMMA OpIs ==
  /\ Ret # NoTerm /\ Exit # NoTerm
  /\ \A n : Br(n) # NoTerm
  /\ \A v, t, f : CondBr(v, t, f) # NoTerm
  /\ Targets(Ret) = {} /\ Targets(Exit) = {} /\ Targets(NoTerm) = {}
  /\ \A n : Targets(Br(n)) = {n} \ {0}
  /\ \A v, t, f : Targets(CondBr(v, t, f)) = {t, f} \ {0}
  BY DEF NoTerm, Ret, Exit, Br, CondBr, Targets

LEMMA CallTyped ==
  ASSUME at \in Nat, NEW kind \in FrameKinds
  PROVE  Call(kind) \in Frame
  BY DEF Call, Frame, NoVal, Val

LEMMA TopTyped ==
  ASSUME frames \in Seq(Frame), Depth > 0
  PROVE  Depth \in DOMAIN frames /\ Top \in Frame
  BY LenProperties, ElementOfSeq DEF Depth, Top

-----------------------------------------------------------------------------
(* The inductive invariant. *)

IInv == TypeOK /\ OpenBlocksAccounted

LEMMA StartIInv == IsAsg(asg) /\ Start => IInv
<1>. SUFFICES ASSUME IsAsg(asg), Start PROVE IInv
  OBVIOUS
<1>1. bb = <<>> /\ frames = <<>> /\ Blocks = {} /\ DOMAIN frames = {}
  BY DEF Start, Blocks
<1>2. TypeOK
  BY <1>1, EmptySeq, Typed DEF TypeOK, IsAsg, Start, BlockOrNull
<1>3. ~InValue /\ ~Live
  BY <1>1 DEF InValue, Depth, Live
<1>. QED
  BY <1>1, <1>2, <1>3 DEF IInv, OpenBlocksAccounted, CallShape, OpenAreKnown, PendingAreOpen,
     PendingAreDistinct, ValueIsLive, TargetsExist

LEMMA InitIInv == Init => IInv
  BY StartIInv, InputsAssumption DEF Init

\* A step keeps TypeOK when it only adds blocks and every frame it leaves is
\* an old one or a well-formed new one.
Fits ==
  /\ asg' = asg /\ at' \in Nat /\ mCurFunc' \in Nat /\ val' \in Val /\ aborted' \in BOOLEAN
  /\ bb' \in Seq(Block) /\ Blocks \subseteq Blocks' /\ cur' \in BlockOrNull'
  /\ any' = any \/ any' \in [DOMAIN asg.nodes -> [cond : BlockOrNull', end : BlockOrNull']]

LEMMA TypeKept ==
  ASSUME TypeOK, Fits, frames' \in Seq(Frame),
         \A i \in DOMAIN frames' :
            (i \in DOMAIN frames /\ frames'[i] = frames[i]) \/ FrameOK(frames[i])'
  PROVE  TypeOK'
<1>1. any' \in [DOMAIN asg'.nodes -> [cond : BlockOrNull', end : BlockOrNull']]
  BY DEF TypeOK, BlockOrNull, Fits
<1>2. \A i \in DOMAIN frames' : FrameOK(frames[i])'
  BY DEF TypeOK, FrameOK, BlockOrNull, Fits
<1>. QED
  BY <1>1, <1>2 DEF TypeOK, Fits

LEMMA TypeSame ==
  ASSUME TypeOK, Fits, frames' = frames
  PROVE  TypeOK'
  BY TypeKept DEF TypeOK

LEMMA TypePop ==
  ASSUME TypeOK, Fits, Depth > 0, frames' = SubSeq(frames, 1, Depth - 1)
  PROVE  TypeOK'
<1>1. /\ frames' \in Seq(Frame)
      /\ \A i \in DOMAIN frames' : i \in DOMAIN frames /\ frames'[i] = frames[i]
  BY PopFrames DEF TypeOK
<1>. QED
  BY <1>1, TypeKept

LEMMA TypePush ==
  ASSUME TypeOK, Fits, NEW f \in Frame, frames' = Append(frames, f), FrameOK(f)'
  PROVE  TypeOK'
<1>1. /\ frames' \in Seq(Frame)
      /\ \A i \in DOMAIN frames' :
            (i \in DOMAIN frames /\ frames'[i] = frames[i]) \/ frames'[i] = f
  BY PushFrames DEF TypeOK
<1>2. \A i \in DOMAIN frames' :
         (i \in DOMAIN frames /\ frames'[i] = frames[i]) \/ FrameOK(frames[i])'
  BY <1>1 DEF FrameOK
<1>. QED
  BY <1>1, <1>2, TypeKept

LEMMA TypeBecome ==
  ASSUME TypeOK, Fits, Depth > 0, NEW f \in Frame, FrameOK(f)',
         frames' = [frames EXCEPT ![Depth] = f]
  PROVE  TypeOK'
<1>1. /\ frames' \in Seq(Frame)
      /\ \A i \in DOMAIN frames' :
            (i \in DOMAIN frames /\ frames'[i] = frames[i]) \/ frames'[i] = f
  BY BecomeFrames DEF TypeOK
<1>2. \A i \in DOMAIN frames' :
         (i \in DOMAIN frames /\ frames'[i] = frames[i]) \/ FrameOK(frames[i])'
  BY <1>1 DEF FrameOK
<1>. QED
  BY <1>1, <1>2, TypeKept

LEMMA Same ==
  ASSUME TypeOK, UNCHANGED <<bb, cur, any>>
  PROVE  /\ bb' \in Seq(Block) /\ Blocks' = Blocks /\ BlockOrNull' = BlockOrNull
         /\ cur' \in BlockOrNull'
  BY DEF TypeOK, Blocks, BlockOrNull

LEMMA TokenTyped ==
  ASSUME TypeOK, at \in DOMAIN asg.nodes
  PROVE  Token \in Node /\ at + 1 \in Nat
  BY LenProperties, ElementOfSeq DEF TypeOK, Token

LEMMA Advances ==
  ASSUME TypeOK, at \in DOMAIN asg.nodes, Advance, mCurFunc' \in Nat, val' \in Val,
         any' = any \/ any' \in [DOMAIN asg.nodes -> [cond : BlockOrNull', end : BlockOrNull']],
         bb' \in Seq(Block), Blocks \subseteq Blocks', cur' \in BlockOrNull'
  PROVE  Fits
  BY TokenTyped DEF TypeOK, Advance, Fits

LEMMA NewFrameOK ==
  ASSUME TypeOK, NEW kind \in FrameKinds \ {"if.then", "if.else", "while.cond", "while.body", "and", "or"},
         NEW f, f = Call(kind)
  PROVE  f \in Frame /\ FrameOK(f)'
  BY CallTyped DEF TypeOK, FrameOK, Call, BlockOrNull

-----------------------------------------------------------------------------
(* Actions that leave the blocks as open or ended as they were. *)

SameTerms == /\ Blocks' = Blocks
             /\ \A b \in Blocks : bb'[b].term = bb[b].term

LEMMA PendingInBlocks ==
  ASSUME TypeOK
  PROVE  \A i \in DOMAIN frames : Pending(frames[i]) \subseteq Blocks
  BY DEF TypeOK, FrameOK, BlockOrNull, Pending

LEMMA QuietOpen ==
  ASSUME TypeOK, OpenBlocksAccounted, SameTerms, cur' = cur, frames' = frames
  PROVE  OpenBlocksAccounted'
<1>1. (InValue' <=> InValue) /\ (Live' <=> Live)
  BY DEF InValue, Live, Top, Depth, SameTerms
<1>2. CallShape' /\ OpenAreKnown' /\ PendingAreOpen' /\ PendingAreDistinct'
  <2>1. CallShape'
    BY DEF OpenBlocksAccounted, CallShape
  <2>2. OpenAreKnown' 
    BY DEF OpenBlocksAccounted, SameTerms, OpenAreKnown
  <2>3. PendingAreOpen'
    BY PendingInBlocks DEF OpenBlocksAccounted, SameTerms, PendingAreOpen
  <2>4. PendingAreDistinct'
    BY DEF OpenBlocksAccounted, PendingAreDistinct
  <2>. QED
    BY <2>1, <2>2, <2>3, <2>4
<1>3. ValueIsLive' /\ TargetsExist'
  BY <1>1 DEF OpenBlocksAccounted, SameTerms, ValueIsLive, TargetsExist
<1>. QED
  BY <1>2, <1>3 DEF OpenBlocksAccounted

-----------------------------------------------------------------------------
(* The call stack keeps its shape. *)

LEMMA ShapePop ==
  ASSUME frames \in Seq(Frame), CallShape, Depth > 0, frames' = SubSeq(frames, 1, Depth - 1)
  PROVE  CallShape'
  BY PopFrames DEF CallShape

LEMMA ShapePush ==
  ASSUME frames \in Seq(Frame), CallShape, NEW f \in Frame, frames' = Append(frames, f),
         f.kind \in {"func", "gvar"} <=> Depth = 0,
         Depth > 0 => IF f.kind \in {"and", "or"} THEN InValue ELSE InList
  PROVE  CallShape'
<1>1. /\ Depth \in Nat
      /\ DOMAIN frames = 1 .. Depth
      /\ DOMAIN frames' = 1 .. Depth + 1
      /\ \A i \in 1 .. Depth : frames'[i] = frames[i]
      /\ frames'[Depth + 1] = f
  BY PushFrames
<1>2. Depth > 0 => IF f.kind \in {"and", "or"} THEN frames[Depth].kind \in ValueKinds
                                             ELSE frames[Depth].kind \in ListKinds
  BY DEF InValue, InList, Top
<1>. QED
  BY <1>1, <1>2 DEF CallShape

LEMMA ShapeBecome ==
  ASSUME frames \in Seq(Frame), CallShape, Depth > 0, NEW f \in Frame,
         frames' = [frames EXCEPT ![Depth] = f],
         f.kind \notin {"and", "or", "func", "gvar"},
         Top.kind \notin {"and", "or", "func", "gvar"}
  PROVE  CallShape'
<1>1. /\ Depth \in Nat
      /\ DOMAIN frames = 1 .. Depth
      /\ DOMAIN frames' = 1 .. Depth
      /\ \A i \in 1 .. Depth - 1 : frames'[i] = frames[i]
      /\ frames'[Depth] = f
  BY BecomeFrames
<1>. QED
  BY <1>1 DEF CallShape, Top

(* Returning from a call that ended, or went on with, all it waited for. *)
LEMMA PopOpen ==
  ASSUME TypeOK, OpenBlocksAccounted, Depth > 0, frames' = SubSeq(frames, 1, Depth - 1),
         Blocks' = Blocks, cur' = cur \/ cur' \in Pending(Top),
         \A b \in Blocks : b \notin Pending(Top) \cup {cur} => bb'[b].term = bb[b].term,
         \A b \in Pending(Top) \cup {cur} : b \in Blocks /\ bb'[b].term = NoTerm => b = cur',
         \A b \in Blocks : Targets(bb'[b].term) \subseteq Blocks,
         Depth = 1 => ~Live',
         Depth > 1 /\ frames[Depth - 1].kind \in ValueKinds => Live'
  PROVE  OpenBlocksAccounted'
<1>1. /\ frames' \in Seq(Frame)
      /\ Depth \in Nat
      /\ Depth' = Depth - 1
      /\ DOMAIN frames = 1 .. Depth
      /\ DOMAIN frames' = 1 .. Depth - 1
      /\ \A i \in 1 .. Depth - 1 : frames'[i] = frames[i]
      /\ Top = frames[Depth]
  BY PopFrames DEF TypeOK, Top
<1>2. CallShape'
  BY ShapePop DEF TypeOK, OpenBlocksAccounted
<1>3. OpenAreKnown'
  <2>. SUFFICES ASSUME NEW b \in Blocks, bb'[b].term = NoTerm, b # cur'
                PROVE  \E i \in DOMAIN frames' : b \in Pending(frames'[i])
    BY DEF OpenAreKnown
  <2>1. b \notin Pending(Top) \cup {cur} /\ bb[b].term = NoTerm
    OBVIOUS
  <2>2. PICK i \in DOMAIN frames : b \in Pending(frames[i])
    BY <2>1 DEF OpenBlocksAccounted, OpenAreKnown
  <2>3. i \in 1 .. Depth - 1
    <3>1. i # Depth
      BY <1>1, <2>1, <2>2
    <3>. QED
      BY <1>1, <3>1
  <2>4. i \in DOMAIN frames' /\ frames'[i] = frames[i]
    BY <1>1, <2>3
  <2>. QED
    BY <2>2, <2>4
<1>4. PendingAreOpen'
  <2>. SUFFICES ASSUME NEW i \in DOMAIN frames', NEW b \in Pending(frames'[i])
                PROVE  b # cur' /\ bb'[b].term = NoTerm
    BY DEF PendingAreOpen
  <2>1. i \in 1 .. Depth - 1 /\ b \in Pending(frames[i])
    BY <1>1
  <2>2. b \in Blocks /\ b # cur /\ bb[b].term = NoTerm
    BY <1>1, <2>1, PendingInBlocks DEF OpenBlocksAccounted, PendingAreOpen
  <2>3. b \notin Pending(Top)
    BY <1>1, <2>1 DEF OpenBlocksAccounted, PendingAreDistinct
  <2>. QED
    BY <2>2, <2>3
<1>5. PendingAreDistinct'
  BY <1>1 DEF OpenBlocksAccounted, PendingAreDistinct
<1>6. ValueIsLive'
  <2>1. frames' = <<>> => Depth = 1
    BY <1>1
  <2>2. InValue' => Depth > 1 /\ frames[Depth - 1].kind \in ValueKinds
    BY <1>1 DEF InValue, Top
  <2>. QED
    BY <2>1, <2>2 DEF ValueIsLive
<1>7. TargetsExist'
  BY DEF TargetsExist
<1>. QED
  BY <1>2, <1>3, <1>4, <1>5, <1>6, <1>7 DEF OpenBlocksAccounted

(* A step within a call: what waits is what waited, less the block gone on with. *)
LEMMA BecomeOpen ==
  ASSUME TypeOK, OpenBlocksAccounted, Depth > 0, NEW f \in Frame,
         frames' = [frames EXCEPT ![Depth] = f],
         f.kind \notin {"and", "or", "func", "gvar"},
         Top.kind \notin {"and", "or", "func", "gvar"},
         f.kind \in ListKinds, f.tail # 0 => f.tail # f.end,
         Blocks' = Blocks, cur' \in Pending(Top),
         Pending(f) \subseteq Pending(Top) \cup {cur}, cur' \notin Pending(f),
         Pending(Top) \subseteq Pending(f) \cup {cur'},
         \A b \in Blocks : b # cur => bb'[b].term = bb[b].term,
         cur \in Blocks => (bb'[cur].term = NoTerm <=> cur \in Pending(f)),
         \A b \in Blocks : Targets(bb'[b].term) \subseteq Blocks
  PROVE  OpenBlocksAccounted'
<1>1. /\ frames' \in Seq(Frame)
      /\ Depth \in Nat
      /\ Depth' = Depth
      /\ DOMAIN frames = 1 .. Depth
      /\ DOMAIN frames' = 1 .. Depth
      /\ \A i \in 1 .. Depth - 1 : frames'[i] = frames[i]
      /\ Top = frames[Depth]
      /\ frames'[Depth] = f
  BY BecomeFrames DEF TypeOK, Top
<1>2. CallShape'
  BY ShapeBecome DEF TypeOK, OpenBlocksAccounted
<1>3. OpenAreKnown'
  <2>. SUFFICES ASSUME NEW b \in Blocks, bb'[b].term = NoTerm, b # cur'
                PROVE  \E i \in DOMAIN frames' : b \in Pending(frames'[i])
    BY DEF OpenAreKnown
  <2>1. CASE b \in Pending(f)
    BY <1>1, <2>1
  <2>2. CASE b \notin Pending(f)
    <3>1. b # cur /\ bb[b].term = NoTerm /\ b \notin Pending(Top)
      BY <2>2
    <3>2. PICK i \in DOMAIN frames : b \in Pending(frames[i])
      BY <3>1 DEF OpenBlocksAccounted, OpenAreKnown
    <3>. QED
      BY <1>1, <3>1, <3>2
  <2>. QED
    BY <2>1, <2>2
<1>4. \A i \in 1 .. Depth - 1 :
        Pending(frames[i]) \cap (Pending(Top) \cup {cur}) = {} /\ Pending(frames[i]) \subseteq Blocks
  BY <1>1, PendingInBlocks DEF OpenBlocksAccounted, PendingAreDistinct, PendingAreOpen
<1>5. PendingAreOpen'
  <2>. SUFFICES ASSUME NEW i \in DOMAIN frames', NEW b \in Pending(frames'[i])
                PROVE  b # cur' /\ bb'[b].term = NoTerm
    BY DEF PendingAreOpen
  <2>1. CASE i = Depth
    <3>1. b \in Pending(f) /\ (b \in Pending(Top) \/ b = cur)
      BY <1>1, <2>1
    <3>2. CASE b = cur
      <4>1. cur \in Blocks
        <5>1. cur # 0
          BY <3>1, <3>2 DEF Pending
        <5>. QED
          BY <5>1 DEF TypeOK, BlockOrNull
      <4>. QED
        BY <3>1, <3>2, <4>1
    <3>3. CASE b # cur
      <4>1. b \in Blocks /\ bb[b].term = NoTerm
        BY <1>1, <3>1, <3>3, PendingInBlocks DEF OpenBlocksAccounted, PendingAreOpen
      <4>. QED
        BY <3>1, <3>3, <4>1
    <3>. QED
      BY <3>2, <3>3
  <2>2. CASE i # Depth
    <3>1. i \in 1 .. Depth - 1 /\ b \in Pending(frames[i])
      BY <1>1, <2>2
    <3>2. b \in Blocks /\ b # cur /\ bb[b].term = NoTerm /\ b \notin Pending(Top)
      BY <1>1, <1>4, <3>1 DEF OpenBlocksAccounted, PendingAreOpen
    <3>. QED
      BY <3>2
  <2>. QED
    BY <2>1, <2>2
<1>6. PendingAreDistinct'
  <2>1. \A i \in DOMAIN frames' : /\ frames'[i].kind = "while.cond" => frames'[i].body # frames'[i].end
                                  /\ frames'[i].tail # 0 => frames'[i].tail # frames'[i].end
    BY <1>1 DEF OpenBlocksAccounted, PendingAreDistinct, ListKinds
  <2>2. ASSUME NEW i \in DOMAIN frames', NEW j \in DOMAIN frames', i # j
        PROVE  Pending(frames'[i]) \cap Pending(frames'[j]) = {}
    BY <1>1, <1>4, <2>2 DEF OpenBlocksAccounted, PendingAreDistinct
  <2>. QED
    BY <2>1, <2>2 DEF PendingAreDistinct
<1>7. ValueIsLive'
  BY <1>1 DEF ValueIsLive, InValue, Top, ListKinds, ValueKinds
<1>8. TargetsExist'
  BY DEF TargetsExist
<1>. QED
  BY <1>2, <1>3, <1>5, <1>6, <1>7, <1>8 DEF OpenBlocksAccounted

(* A call that starts: it may create blocks, of which one is gone on with and *)
(* the others wait. *)
LEMMA PushOpen ==
  ASSUME TypeOK, OpenBlocksAccounted, NEW f \in Frame, frames' = Append(frames, f),
         f.kind \in {"func", "gvar"} <=> Depth = 0,
         Depth > 0 => IF f.kind \in {"and", "or"} THEN InValue ELSE InList,
         f.kind = "while.cond" => f.body # f.end, f.tail = 0,
         Blocks \subseteq Blocks', Live', cur' = cur \/ cur' \notin Blocks,
         Pending(f) \cap Blocks = {}, cur' \notin Pending(f),
         \A b \in Pending(f) : bb'[b].term = NoTerm,
         \A b \in Blocks' \ Blocks : b \in Pending(f) \cup {cur'},
         \A b \in Blocks : b # cur => bb'[b].term = bb[b].term,
         cur \in Blocks /\ bb'[cur].term = NoTerm => cur = cur',
         \A b \in Blocks' : Targets(bb'[b].term) \subseteq Blocks'
  PROVE  OpenBlocksAccounted'
<1>1. /\ Depth \in Nat
      /\ DOMAIN frames = 1 .. Depth
      /\ DOMAIN frames' = 1 .. Depth + 1
      /\ \A i \in 1 .. Depth : frames'[i] = frames[i]
      /\ frames'[Depth + 1] = f
  BY PushFrames DEF TypeOK
<1>2. CallShape'
  BY ShapePush DEF TypeOK, OpenBlocksAccounted
<1>3. OpenAreKnown'
  <2>. SUFFICES ASSUME NEW b \in Blocks', bb'[b].term = NoTerm, b # cur'
                PROVE  \E i \in DOMAIN frames' : b \in Pending(frames'[i])
    BY DEF OpenAreKnown
  <2>1. CASE b \notin Blocks
    BY <1>1, <2>1
  <2>2. CASE b \in Blocks
    <3>1. b # cur /\ bb[b].term = NoTerm
      BY <2>2
    <3>2. PICK i \in DOMAIN frames : b \in Pending(frames[i])
      BY <2>2, <3>1 DEF OpenBlocksAccounted, OpenAreKnown
    <3>3. i \in DOMAIN frames' /\ frames'[i] = frames[i]
      BY <1>1
    <3>. QED
      BY <3>2, <3>3
  <2>. QED
    BY <2>1, <2>2
<1>4. \A i \in 1 .. Depth : Pending(frames[i]) \subseteq Blocks \ {cur}
  BY <1>1, PendingInBlocks DEF OpenBlocksAccounted, PendingAreOpen
<1>5. PendingAreOpen'
  <2>. SUFFICES ASSUME NEW i \in DOMAIN frames', NEW b \in Pending(frames'[i])
                PROVE  b # cur' /\ bb'[b].term = NoTerm
    BY DEF PendingAreOpen
  <2>1. CASE i = Depth + 1
    BY <1>1, <2>1
  <2>2. CASE i # Depth + 1
    <3>1. i \in DOMAIN frames /\ i \in 1 .. Depth /\ b \in Pending(frames[i])
      BY <1>1, <2>2
    <3>2. b \in Blocks /\ b # cur /\ bb[b].term = NoTerm
      BY <1>4, <3>1 DEF OpenBlocksAccounted, PendingAreOpen
    <3>. QED
      BY <3>2
  <2>. QED
    BY <2>1, <2>2
<1>6. PendingAreDistinct'
  <2>1. \A i \in DOMAIN frames' : /\ frames'[i].kind = "while.cond" => frames'[i].body # frames'[i].end
                                  /\ frames'[i].tail # 0 => frames'[i].tail # frames'[i].end
    BY <1>1 DEF OpenBlocksAccounted, PendingAreDistinct
  <2>2. ASSUME NEW i \in DOMAIN frames', NEW j \in DOMAIN frames', i # j
        PROVE  Pending(frames'[i]) \cap Pending(frames'[j]) = {}
    <3>1. CASE i \in 1 .. Depth /\ j \in 1 .. Depth
      BY <1>1, <2>2, <3>1 DEF OpenBlocksAccounted, PendingAreDistinct
    <3>2. CASE i = Depth + 1 /\ j \in 1 .. Depth
      BY <1>1, <1>4, <3>2
    <3>3. CASE j = Depth + 1 /\ i \in 1 .. Depth
      BY <1>1, <1>4, <3>3
    <3>4. i \in 1 .. Depth + 1 /\ j \in 1 .. Depth + 1 /\ Depth \in Nat
      BY <1>1
    <3>5. \/ i \in 1 .. Depth /\ j \in 1 .. Depth
          \/ i = Depth + 1 /\ j \in 1 .. Depth
          \/ j = Depth + 1 /\ i \in 1 .. Depth
      BY <2>2, <3>4
    <3>. QED
      BY <3>1, <3>2, <3>3, <3>5
  <2>. QED
    BY <2>1, <2>2 DEF PendingAreDistinct
<1>7. ValueIsLive'
  <2>1. frames' # <<>>
    BY <1>1
  <2>. QED
    BY <2>1 DEF ValueIsLive
<1>8. TargetsExist'
  BY DEF TargetsExist
<1>. QED
  BY <1>2, <1>3, <1>5, <1>6, <1>7, <1>8 DEF OpenBlocksAccounted

\* The insertion block is ended within a list of statements.
LEMMA EndOpen ==
  ASSUME TypeOK, OpenBlocksAccounted, InList, frames' = frames, cur' = cur, cur \in Blocks,
         NEW t \in Term, t # NoTerm, Targets(t) \subseteq Blocks, bb' = Terminate(bb, cur, t)
  PROVE  OpenBlocksAccounted'
<1>1. /\ Blocks' = Blocks
      /\ \A b \in Blocks : bb'[b].term = IF b = cur THEN t ELSE bb[b].term
  BY EndBlock
<1>2. ~InValue' /\ frames' # <<>>
  BY DEF InValue, InList, Top, Depth, ListKinds, ValueKinds
<1>3. CallShape' /\ PendingAreDistinct'
  BY DEF OpenBlocksAccounted, CallShape, PendingAreDistinct
<1>4. OpenAreKnown'
  BY <1>1 DEF OpenBlocksAccounted, OpenAreKnown
<1>5. PendingAreOpen'
  BY <1>1, PendingInBlocks DEF OpenBlocksAccounted, PendingAreOpen
<1>6. ValueIsLive' /\ TargetsExist'
  BY <1>1, <1>2 DEF OpenBlocksAccounted, ValueIsLive, TargetsExist
<1>. QED
  BY <1>3, <1>4, <1>5, <1>6 DEF OpenBlocksAccounted

-----------------------------------------------------------------------------
(* One lemma per action: it keeps the invariant and ends no block twice. *)

Final == \A b \in Blocks : bb[b].term # NoTerm => bb'[b].term = bb[b].term

\* An instruction is appended to a block.
LEMMA AppendKeeps ==
  ASSUME TypeOK, NEW b, NEW i \in Instr, bb' = [bb EXCEPT ![b].code = Append(@, i)],
         at \in DOMAIN asg.nodes, Advance, cur' = cur, mCurFunc' = mCurFunc, any' = any, val' \in Val
  PROVE  Fits /\ SameTerms /\ Final
<1>1. /\ bb' \in Seq(Block)
      /\ Blocks' = Blocks
      /\ \A c \in Blocks : bb'[c].term = bb[c].term
  BY AppendCode DEF TypeOK
<1>. QED
  BY <1>1, TokenTyped DEF Fits, Advance, TypeOK, BlockOrNull, SameTerms, Final

LEMMA AtomKeeps ==
  ASSUME TypeOK, OpenBlocksAccounted, Atom
  PROVE  TypeOK' /\ OpenBlocksAccounted' /\ Final
<1>1. PICK i : i = [op |-> "atom", n |-> at]
  OBVIOUS
<1>2. PICK b : b = cur
  OBVIOUS
<1>3. i \in Instr /\ val' \in Val
  BY <1>1 DEF Atom, Instr, Val, TypeOK
<1>4. bb' = [bb EXCEPT ![b].code = Append(@, i)]
  BY <1>1, <1>2 DEF Atom, Emit
<1>5. Fits /\ SameTerms /\ Final
  BY <1>3, <1>4, AppendKeeps DEF Atom, Visiting
<1>. QED
  BY <1>5, TypeSame, QuietOpen DEF Atom

LEMMA ShortCircuitKeeps ==
  ASSUME TypeOK, OpenBlocksAccounted, NEW kind \in {"and", "or"}, ShortCircuit(kind)
  PROVE  TypeOK' /\ OpenBlocksAccounted' /\ Final
<1>1. PICK t : /\ t = IF kind = "and" THEN CondBr(val, N + 2, N + 1) ELSE CondBr(val, N + 1, N + 2)
               /\ bb' = Terminate(Grow(2, mCurFunc), cur, t)
  BY DEF ShortCircuit
<1>2. PICK f : f = [Call(kind) EXCEPT !.from = cur, !.end = N + 1]
  OBVIOUS
<1>3. cur \in Blocks /\ bb[cur].term = NoTerm
  BY DEF ShortCircuit, OpenBlocksAccounted, ValueIsLive, Live
<1>4. N \in Nat
  BY LenProperties DEF N, TypeOK
<1>5. t \in Term /\ t # NoTerm /\ Targets(t) \subseteq {N + 1, N + 2}
  BY <1>1, <1>4, Typed, OpIs DEF TypeOK
<1>6. /\ bb' \in Seq(Block)
      /\ Blocks = 1 .. N
      /\ Blocks' = 1 .. N + 2
      /\ \A b \in 1 .. N + 2 :
            bb'[b].term = IF b = cur THEN t ELSE IF b <= N THEN bb[b].term ELSE NoTerm
  BY <1>1, <1>3, <1>5, GrowAndEnd
<1>7. f \in Frame /\ f.kind = kind /\ f.from = cur /\ f.end = N + 1 /\ f.body = 0 /\ f.tail = 0
  <2>1. f = [kind |-> kind, node |-> at, from |-> cur, body |-> 0, end |-> N + 1, tail |-> 0,
             val |-> NoVal]
    BY <1>2 DEF Call
  <2>2. kind \in FrameKinds /\ at \in Nat /\ cur \in Nat /\ N + 1 \in Nat /\ NoVal \in Val
    BY <1>3, <1>4, <1>6, Typed DEF TypeOK, FrameKinds
  <2>. QED
    BY <2>1, <2>2 DEF Frame
<1>8. FrameOK(f)' /\ Pending(f) = {N + 1}
  BY <1>3, <1>4, <1>6, <1>7 DEF FrameOK, BlockOrNull, Pending
<1>9. frames' = Append(frames, f) /\ cur' = N + 2 /\ Depth > 0 /\ Depth # 0 /\ InValue
  BY <1>2 DEF ShortCircuit, Push, InValue
<1>10. Fits
  <2>1. at \in DOMAIN asg.nodes /\ Advance /\ UNCHANGED <<mCurFunc, any, val>>
    BY DEF ShortCircuit, Visiting
  <2>2. cur' \in BlockOrNull' /\ Blocks \subseteq Blocks'
    BY <1>4, <1>6, <1>9 DEF BlockOrNull
  <2>. QED
    BY <1>6, <2>1, <2>2, Advances DEF TypeOK
<1>11. Live' /\ Final
  BY <1>3, <1>4, <1>6, <1>9 DEF Live, Final
<1>12. TargetsExist'
  BY <1>4, <1>5, <1>6, OpIs DEF OpenBlocksAccounted, TargetsExist
<1>13. /\ \A b \in Pending(f) : bb'[b].term = NoTerm
       /\ \A b \in Blocks' \ Blocks : b \in Pending(f) \cup {cur'}
       /\ Pending(f) \cap Blocks = {} /\ cur' \notin Pending(f) /\ cur' \notin Blocks
       /\ \A b \in Blocks : b # cur => bb'[b].term = bb[b].term
       /\ bb'[cur].term # NoTerm
       /\ Blocks \subseteq Blocks'
  BY <1>3, <1>4, <1>5, <1>6, <1>8, <1>9
<1>14. OpenBlocksAccounted'
  BY <1>7, <1>9, <1>11, <1>12, <1>13, PushOpen DEF TargetsExist
<1>. QED
  BY <1>7, <1>8, <1>9, <1>10, <1>11, <1>14, TypePush

\* The innermost call: what it waits for and which call made it.
LEMMA ShapeTop ==
  ASSUME TypeOK, OpenBlocksAccounted, Depth > 0
  PROVE  /\ FrameOK(Top)
         /\ Pending(Top) \subseteq Blocks
         /\ \A b \in Pending(Top) : b # cur /\ bb[b].term = NoTerm
         /\ Top.kind \in {"func", "gvar"} <=> Depth = 1
         /\ Depth > 1 => IF Top.kind \in {"and", "or"} THEN frames[Depth - 1].kind \in ValueKinds
                                                       ELSE frames[Depth - 1].kind \notin ValueKinds
         /\ Top.kind = "while.cond" => Top.body # Top.end
         /\ Top.tail # 0 => Top.tail # Top.end
<1>1. Depth \in DOMAIN frames /\ Top = frames[Depth] /\ DOMAIN frames = 1 .. Depth /\ Depth \in Nat
  BY TopTyped, LenProperties DEF TypeOK, Top, Depth
<1>2. FrameOK(Top) /\ Pending(Top) \subseteq Blocks
  BY <1>1, PendingInBlocks DEF TypeOK
<1>3. \A b \in Pending(Top) : b # cur /\ bb[b].term = NoTerm
  BY <1>1 DEF OpenBlocksAccounted, PendingAreOpen
<1>4. /\ Top.kind = "while.cond" => Top.body # Top.end
      /\ Top.tail # 0 => Top.tail # Top.end
  <2>1. \A i \in DOMAIN frames : /\ frames[i].kind = "while.cond" => frames[i].body # frames[i].end
                                 /\ frames[i].tail # 0 => frames[i].tail # frames[i].end
    BY DEF OpenBlocksAccounted, PendingAreDistinct
  <2>. QED
    BY <1>1, <2>1
<1>. QED
  BY <1>1, <1>2, <1>3, <1>4 DEF OpenBlocksAccounted, CallShape, ListKinds, ValueKinds

LEMMA DropStmtKeeps ==
  ASSUME TypeOK, OpenBlocksAccounted, DropStmt
  PROVE  TypeOK' /\ OpenBlocksAccounted' /\ Final
<1>1. Token \in Node
  BY TokenTyped DEF DropStmt, Visiting
<1>2. at' \in Nat
  BY <1>1 DEF DropStmt, AfterStmt, Node
<1>3. Fits
  BY <1>2, Same DEF Fits, DropStmt, TypeOK
<1>4. SameTerms /\ Final
  BY DEF DropStmt, SameTerms, Final, Blocks
<1>. QED
  BY <1>3, <1>4, TypeSame, QuietOpen DEF DropStmt

LEMMA CallWithValueKeeps ==
  ASSUME TypeOK, OpenBlocksAccounted, InList, Live, at \in DOMAIN asg.nodes,
         NEW kind \in {"expr", "ret", "if.cond"}, CallWithValue(kind)
  PROVE  TypeOK' /\ OpenBlocksAccounted' /\ Final
<1>1. PICK f : f = Call(kind)
  OBVIOUS
<1>2. f \in Frame /\ FrameOK(f)'
  BY <1>1, NewFrameOK DEF FrameKinds
<1>3. frames' = Append(frames, f) /\ bb' = bb /\ cur' = cur /\ Advance /\ UNCHANGED <<mCurFunc, any, val>>
  BY <1>1 DEF CallWithValue, Push
<1>4. Fits
  BY <1>3, Same, Advances DEF TypeOK
<1>5. /\ f.kind = kind /\ f.tail = 0 /\ Pending(f) = {}
  BY <1>1 DEF Call, Pending
<1>6. Live' /\ Blocks' = Blocks /\ Final /\ Depth > 0 /\ Depth # 0
  BY <1>3 DEF Live, Blocks, Final, InList
<1>7. \A b \in Blocks' : Targets(bb'[b].term) \subseteq Blocks'
  BY <1>3, <1>6 DEF OpenBlocksAccounted, TargetsExist
<1>8. OpenBlocksAccounted'
  BY <1>2, <1>3, <1>5, <1>6, <1>7, PushOpen
<1>. QED
  BY <1>2, <1>3, <1>4, <1>6, <1>8, TypePush

LEMMA ExprStmtEndKeeps ==
  ASSUME TypeOK, OpenBlocksAccounted, ExprStmtEnd
  PROVE  TypeOK' /\ OpenBlocksAccounted' /\ Final
<1>1. /\ Depth > 0 /\ Top.kind = "expr" /\ frames' = SubSeq(frames, 1, Depth - 1)
      /\ bb' = bb /\ cur' = cur /\ Advance /\ UNCHANGED <<mCurFunc, any, val>>
      /\ at \in DOMAIN asg.nodes
  BY DEF ExprStmtEnd, InCall, Pop, Visiting
<1>2. Fits
  BY <1>1, Same, Advances DEF TypeOK
<1>3. Pending(Top) = {} /\ Depth # 1
  BY <1>1, ShapeTop DEF FrameOK, Pending
<1>4. Live /\ Live' /\ Blocks' = Blocks /\ Final
  BY <1>1 DEF Live, Blocks, Final, OpenBlocksAccounted, ValueIsLive, InValue, ValueKinds
<1>5. \A b \in Blocks : Targets(bb'[b].term) \subseteq Blocks
  BY <1>1 DEF OpenBlocksAccounted, TargetsExist
<1>6. OpenBlocksAccounted'
  BY <1>1, <1>3, <1>4, <1>5, PopOpen
<1>. QED
  BY <1>1, <1>2, <1>4, <1>6, TypePop

LEMMA LocalVarDeclKeeps ==
  ASSUME TypeOK, OpenBlocksAccounted, LocalVarDecl
  PROVE  TypeOK' /\ OpenBlocksAccounted' /\ Final
<1>1. PICK i : i = [op |-> "alloca", n |-> at]
  OBVIOUS
<1>2. PICK b : b = Entry
  OBVIOUS
<1>3. i \in Instr
  BY <1>1 DEF Instr, TypeOK
<1>4. bb' = [bb EXCEPT ![b].code = Append(@, i)]
  BY <1>1, <1>2 DEF LocalVarDecl
<1>5. at \in DOMAIN asg.nodes /\ Advance /\ UNCHANGED <<cur, mCurFunc, any, val>> /\ InList /\ Live
  BY DEF LocalVarDecl, Stmt, Visiting
<1>6. Fits /\ SameTerms /\ Final
  BY <1>3, <1>4, <1>5, AppendKeeps DEF TypeOK
<1>7. CASE frames' = frames
  BY <1>5, <1>6, <1>7, TypeSame, QuietOpen
<1>8. CASE Push(Call("decl"))
  <2>1. PICK f : f = Call("decl")
    OBVIOUS
  <2>2. f \in Frame /\ FrameOK(f)'
    BY <2>1, NewFrameOK DEF FrameKinds
  <2>3. frames' = Append(frames, f)
    BY <1>8, <2>1 DEF Push
  <2>4. f.kind = "decl" /\ f.tail = 0 /\ Pending(f) = {}
    BY <2>1 DEF Call, Pending
  <2>5. Live' /\ Blocks' = Blocks /\ Depth > 0 /\ Depth # 0
    BY <1>5, <1>6 DEF Live, SameTerms, InList
  <2>6. \A c \in Blocks' : Targets(bb'[c].term) \subseteq Blocks'
    BY <1>6 DEF SameTerms, OpenBlocksAccounted, TargetsExist
  <2>7. OpenBlocksAccounted'
    BY <1>5, <1>6, <2>2, <2>3, <2>4, <2>5, <2>6, PushOpen DEF SameTerms
  <2>. QED
    BY <1>6, <2>2, <2>3, <2>7, TypePush
<1>. QED
  BY <1>7, <1>8 DEF LocalVarDecl

LEMMA LocalVarInitKeeps ==
  ASSUME TypeOK, OpenBlocksAccounted, LocalVarInit
  PROVE  TypeOK' /\ OpenBlocksAccounted' /\ Final
<1>1. PICK i : i = [op |-> "store", n |-> Top.node]
  OBVIOUS
<1>2. PICK b : b = cur
  OBVIOUS
<1>3. /\ Depth > 0 /\ Top.kind = "decl" /\ frames' = SubSeq(frames, 1, Depth - 1)
      /\ cur' = cur /\ Advance /\ UNCHANGED <<mCurFunc, any, val>>
      /\ at \in DOMAIN asg.nodes
      /\ bb' = [bb EXCEPT ![b].code = Append(@, i)]
  BY <1>1, <1>2 DEF LocalVarInit, InCall, Pop, Visiting, Emit
<1>4. i \in Instr
  BY <1>1, <1>3, TopTyped DEF Instr, TypeOK, Frame
<1>5. Fits /\ SameTerms /\ Final
  BY <1>3, <1>4, AppendKeeps DEF TypeOK
<1>6. Pending(Top) = {} /\ Depth # 1
  BY <1>3, ShapeTop DEF FrameOK, Pending
<1>7. Live /\ Live' /\ Blocks' = Blocks
  BY <1>3, <1>5 DEF Live, SameTerms, OpenBlocksAccounted, ValueIsLive, InValue, ValueKinds
<1>8. \A c \in Blocks : bb'[c].term = bb[c].term /\ Targets(bb'[c].term) \subseteq Blocks
  BY <1>5 DEF SameTerms, OpenBlocksAccounted, TargetsExist
<1>9. OpenBlocksAccounted'
  <2>1. \A c \in Pending(Top) \cup {cur} : c \in Blocks /\ bb'[c].term = NoTerm => c = cur'
    BY <1>3, <1>6
  <2>. QED
    BY <1>3, <1>6, <1>7, <1>8, <2>1, PopOpen
<1>. QED
  BY <1>3, <1>5, <1>9, TypePop

\* Returning from a call after a ret.
LEMMA RetKeeps ==
  ASSUME TypeOK, OpenBlocksAccounted, Depth > 0, Top.kind \in {"ret", "gvar"},
         frames' = SubSeq(frames, 1, Depth - 1), bb' = Terminate(bb, cur, Ret),
         at \in DOMAIN asg.nodes, Advance, UNCHANGED <<cur, mCurFunc, any, val>>
  PROVE  TypeOK' /\ OpenBlocksAccounted' /\ Final
<1>1. cur \in Blocks /\ bb[cur].term = NoTerm
  BY DEF OpenBlocksAccounted, ValueIsLive, InValue, ValueKinds, Live
<1>2. /\ bb' \in Seq(Block)
      /\ Blocks' = Blocks
      /\ \A c \in Blocks : bb'[c].term = IF c = cur THEN Ret ELSE bb[c].term
  BY <1>1, EndBlock, Typed
<1>3. Fits
  BY <1>1, <1>2, Advances DEF TypeOK, BlockOrNull
<1>4. Pending(Top) = {} /\ (Depth > 1 => frames[Depth - 1].kind \notin ValueKinds)
  BY ShapeTop DEF FrameOK, Pending
<1>5. ~Live' /\ Final
  BY <1>1, <1>2, OpIs DEF Live, Final
<1>6. \A c \in Blocks : Targets(bb'[c].term) \subseteq Blocks
  BY <1>2, OpIs DEF OpenBlocksAccounted, TargetsExist
<1>7. OpenBlocksAccounted'
  BY <1>2, <1>4, <1>5, <1>6, PopOpen
<1>. QED
  BY <1>3, <1>5, <1>7, TypePop

LEMMA ReturnStmtKeeps ==
  ASSUME TypeOK, OpenBlocksAccounted, ReturnStmt
  PROVE  TypeOK' /\ OpenBlocksAccounted' /\ Final
<1>1. bb' = Terminate(bb, cur, Ret) /\ Advance /\ UNCHANGED <<cur, mCurFunc, any, val>>
      /\ at \in DOMAIN asg.nodes
  BY DEF ReturnStmt, Stmt, Visiting
<1>2. CASE Visiting("fin") /\ InCall("ret") /\ Pop
  BY <1>1, <1>2, RetKeeps DEF InCall, Pop
<1>3. CASE Stmt("retv") /\ UNCHANGED frames
  <2>1. cur \in Blocks /\ bb[cur].term = NoTerm /\ InList /\ frames' = frames
    BY <1>3 DEF Stmt, Live
  <2>2. /\ bb' \in Seq(Block)
        /\ Blocks' = Blocks
        /\ \A c \in Blocks : bb'[c].term = IF c = cur THEN Ret ELSE bb[c].term
    BY <1>1, <2>1, EndBlock, Typed
  <2>3. Fits
    BY <1>1, <2>1, <2>2, Advances DEF TypeOK, BlockOrNull
  <2>4. OpenBlocksAccounted'
    BY <1>1, <2>1, EndOpen, Typed, OpIs
  <2>. QED
    BY <2>1, <2>2, <2>3, <2>4, TypeSame DEF Final
<1>. QED
  BY <1>2, <1>3 DEF ReturnStmt

LEMMA GlobalVarEndKeeps ==
  ASSUME TypeOK, OpenBlocksAccounted, GlobalVarEnd
  PROVE  TypeOK' /\ OpenBlocksAccounted' /\ Final
  BY RetKeeps DEF GlobalVarEnd, Visiting, InCall, Pop

LEMMA JumpKeeps ==
  ASSUME TypeOK, OpenBlocksAccounted, Jump
  PROVE  TypeOK' /\ OpenBlocksAccounted' /\ Final
<1>1. PICK t : t = JumpTarget
  OBVIOUS
<1>2. /\ bb' = Terminate(bb, cur, Br(t)) /\ Advance /\ UNCHANGED <<frames, cur, mCurFunc, any, val>>
      /\ at \in DOMAIN asg.nodes /\ InList /\ cur \in Blocks /\ bb[cur].term = NoTerm
      /\ t # 0
  BY <1>1 DEF Jump, Stmt, Visiting, Live
<1>3. t \in Blocks
  <2>1. \A l \in DOMAIN any : any[l].end \in BlockOrNull /\ any[l].cond \in BlockOrNull
    BY DEF TypeOK
  <2>. QED
    BY <1>1, <1>2, <2>1 DEF JumpTarget, TargetIn, BlockOrNull
<1>4. t \in Nat
  BY <1>3, LenProperties DEF Blocks, TypeOK
<1>5. Br(t) \in Term /\ Br(t) # NoTerm /\ Targets(Br(t)) \subseteq Blocks
  BY <1>3, <1>4, Typed, OpIs
<1>6. PICK term : term = Br(t)
  OBVIOUS
<1>7. /\ bb' \in Seq(Block)
      /\ Blocks' = Blocks
      /\ \A c \in Blocks : bb'[c].term = IF c = cur THEN term ELSE bb[c].term
  BY <1>2, <1>5, <1>6, EndBlock
<1>8. Fits
  BY <1>2, <1>7, Advances DEF TypeOK, BlockOrNull
<1>9. OpenBlocksAccounted'
  BY <1>2, <1>5, <1>6, EndOpen
<1>. QED
  BY <1>2, <1>7, <1>8, <1>9, TypeSame DEF Final

LEMMA JumpNowhereKeeps ==
  ASSUME TypeOK, OpenBlocksAccounted, JumpNowhere
  PROVE  TypeOK' /\ OpenBlocksAccounted' /\ Final
<1>1. Fits
  BY Same DEF Fits, JumpNowhere, TypeOK
<1>2. SameTerms /\ Final
  BY DEF JumpNowhere, SameTerms, Final, Blocks
<1>. QED
  BY <1>1, <1>2, TypeSame, QuietOpen DEF JumpNowhere

LEMMA PrototypeKeeps ==
  ASSUME TypeOK, OpenBlocksAccounted, Prototype
  PROVE  TypeOK' /\ OpenBlocksAccounted' /\ Final
<1>1. Fits
  BY Same, TokenTyped DEF Fits, Prototype, TypeOK, Visiting, Advance
<1>2. SameTerms /\ Final
  BY DEF Prototype, SameTerms, Final, Blocks
<1>. QED
  BY <1>1, <1>2, TypeSame, QuietOpen DEF Prototype

LEMMA LocalPrototypeKeeps ==
  ASSUME TypeOK, OpenBlocksAccounted, LocalPrototype
  PROVE  TypeOK' /\ OpenBlocksAccounted' /\ Final
<1>1. Token.next \in Nat
  BY TokenTyped DEF LocalPrototype, Visiting, Node
<1>2. Fits
  BY <1>1, Same DEF Fits, LocalPrototype, TypeOK, AfterStmt
<1>3. SameTerms /\ Final
  BY DEF LocalPrototype, SameTerms, Final, Blocks
<1>. QED
  BY <1>2, <1>3, TypeSame, QuietOpen DEF LocalPrototype

\* The insertion block is ended unless it has ended.
LEMMA EndIfLive ==
  ASSUME TypeOK, NEW t \in Term, t # NoTerm, Targets(t) \subseteq Blocks, TargetsExist,
         bb' = IF Live THEN Terminate(bb, cur, t) ELSE bb
  PROVE  /\ bb' \in Seq(Block)
         /\ Blocks' = Blocks
         /\ \A c \in Blocks : c # cur => bb'[c].term = bb[c].term
         /\ cur \in Blocks => bb'[cur].term # NoTerm
         /\ \A c \in Blocks : bb[c].term # NoTerm => bb'[c].term = bb[c].term
         /\ \A c \in Blocks : Targets(bb'[c].term) \subseteq Blocks
<1>1. CASE Live
  <2>1. /\ bb' \in Seq(Block)
        /\ Blocks' = Blocks
        /\ \A c \in Blocks : bb'[c].term = IF c = cur THEN t ELSE bb[c].term
    BY <1>1, EndBlock DEF Live
  <2>. QED
    BY <1>1, <2>1 DEF Live, TargetsExist
<1>2. CASE ~Live
  BY <1>2 DEF Live, TypeOK, Blocks, TargetsExist
<1>. QED
  BY <1>1, <1>2

LEMMA FunctionEndKeeps ==
  ASSUME TypeOK, OpenBlocksAccounted, FunctionEnd
  PROVE  TypeOK' /\ OpenBlocksAccounted' /\ Final
<1>1. /\ Depth > 0 /\ Top.kind = "func" /\ frames' = SubSeq(frames, 1, Depth - 1)
      /\ cur' = cur /\ Advance /\ UNCHANGED <<mCurFunc, any, val>>
      /\ at \in DOMAIN asg.nodes
      /\ bb' = IF Live THEN Terminate(bb, cur, Exit) ELSE bb
  BY DEF FunctionEnd, InCall, Pop, Visiting
<1>2. /\ bb' \in Seq(Block)
      /\ Blocks' = Blocks
      /\ \A c \in Blocks : c # cur => bb'[c].term = bb[c].term
      /\ cur \in Blocks => bb'[cur].term # NoTerm
      /\ \A c \in Blocks : bb[c].term # NoTerm => bb'[c].term = bb[c].term
      /\ \A c \in Blocks : Targets(bb'[c].term) \subseteq Blocks
  BY <1>1, EndIfLive, Typed, OpIs DEF OpenBlocksAccounted
<1>3. Fits
  BY <1>1, <1>2, Advances DEF TypeOK, BlockOrNull
<1>4. Pending(Top) = {} /\ Depth = 1
  BY <1>1, ShapeTop DEF FrameOK, Pending
<1>5. ~Live'
  BY <1>1, <1>2 DEF Live
<1>6. OpenBlocksAccounted'
  BY <1>1, <1>2, <1>4, <1>5, PopOpen
<1>. QED
  BY <1>1, <1>2, <1>3, <1>6, TypePop DEF Final

LEMMA IfEndKeeps ==
  ASSUME TypeOK, OpenBlocksAccounted, IfEnd
  PROVE  TypeOK' /\ OpenBlocksAccounted' /\ Final
<1>1. PICK e : e = Top.end
  OBVIOUS
<1>2. /\ Depth > 0 /\ Top.kind \in {"if.then", "if.else"} /\ frames' = SubSeq(frames, 1, Depth - 1)
      /\ cur' = e /\ Advance /\ UNCHANGED <<mCurFunc, any, val>>
      /\ at \in DOMAIN asg.nodes
      /\ Top.tail = 0 \/ Top.kind = "if.else"
      /\ bb' = IF Live THEN Terminate(bb, cur, Br(e)) ELSE bb
  BY <1>1 DEF IfEnd, InCall, Pop, Visiting, BranchIfLive
<1>3. /\ Pending(Top) = {e} /\ e \in Blocks /\ e # cur /\ bb[e].term = NoTerm
      /\ Depth # 1 /\ (Depth > 1 => frames[Depth - 1].kind \notin ValueKinds)
  BY <1>1, <1>2, ShapeTop DEF FrameOK, Pending
<1>4. e \in Nat
  BY <1>3, LenProperties DEF Blocks, TypeOK
<1>5. PICK t : t = Br(e)
  OBVIOUS
<1>6. t \in Term /\ t # NoTerm /\ Targets(t) \subseteq Blocks
  BY <1>3, <1>4, <1>5, Typed, OpIs
<1>7. /\ bb' \in Seq(Block)
      /\ Blocks' = Blocks
      /\ \A c \in Blocks : c # cur => bb'[c].term = bb[c].term
      /\ cur \in Blocks => bb'[cur].term # NoTerm
      /\ \A c \in Blocks : bb[c].term # NoTerm => bb'[c].term = bb[c].term
      /\ \A c \in Blocks : Targets(bb'[c].term) \subseteq Blocks
  BY <1>2, <1>5, <1>6, EndIfLive DEF OpenBlocksAccounted
<1>8. Fits
  BY <1>2, <1>3, <1>7, Advances DEF TypeOK, BlockOrNull
<1>9. OpenBlocksAccounted'
  BY <1>2, <1>3, <1>7, PopOpen
<1>. QED
  BY <1>2, <1>7, <1>8, <1>9, TypePop DEF Final

LEMMA IfElseKeeps ==
  ASSUME TypeOK, OpenBlocksAccounted, IfElse
  PROVE  TypeOK' /\ OpenBlocksAccounted' /\ Final
<1>1. PICK e, b, f : e = Top.end /\ b = Top.tail /\ f = [Top EXCEPT !.kind = "if.else", !.tail = 0]
  OBVIOUS
<1>2. /\ Depth > 0 /\ Top.kind = "if.then" /\ frames' = [frames EXCEPT ![Depth] = f]
      /\ cur' = b /\ Advance /\ UNCHANGED <<mCurFunc, any, val>>
      /\ at \in DOMAIN asg.nodes
      /\ b # 0
      /\ bb' = IF Live THEN Terminate(bb, cur, Br(e)) ELSE bb
  BY <1>1 DEF IfElse, InCall, Become, Visiting, BranchIfLive
<1>3. /\ f \in Frame /\ f.kind = "if.else" /\ f.tail = 0 /\ f.end = e
      /\ f.from = Top.from /\ f.body = Top.body
  BY <1>1, <1>2, TopTyped DEF TypeOK, Frame, FrameKinds
<1>4. /\ Pending(Top) = {e, b} /\ Pending(f) = {e}
      /\ e \in Blocks /\ e # cur /\ bb[e].term = NoTerm
      /\ b \in Blocks /\ b # cur /\ bb[b].term = NoTerm
      /\ FrameOK(Top)
  BY <1>1, <1>2, <1>3, ShapeTop DEF FrameOK, Pending
<1>5. e # b
  BY <1>1, <1>2, ShapeTop
<1>6. e \in Nat
  BY <1>4, LenProperties DEF Blocks, TypeOK
<1>7. PICK t : t = Br(e)
  OBVIOUS
<1>8. t \in Term /\ t # NoTerm /\ Targets(t) \subseteq Blocks
  BY <1>4, <1>6, <1>7, Typed, OpIs
<1>9. /\ bb' \in Seq(Block)
      /\ Blocks' = Blocks
      /\ \A c \in Blocks : c # cur => bb'[c].term = bb[c].term
      /\ cur \in Blocks => bb'[cur].term # NoTerm
      /\ \A c \in Blocks : bb[c].term # NoTerm => bb'[c].term = bb[c].term
      /\ \A c \in Blocks : Targets(bb'[c].term) \subseteq Blocks
  BY <1>2, <1>7, <1>8, EndIfLive DEF OpenBlocksAccounted
<1>10. Fits /\ FrameOK(f)'
  <2>1. cur' \in BlockOrNull' /\ BlockOrNull' = BlockOrNull
    BY <1>2, <1>4, <1>9 DEF BlockOrNull
  <2>2. Fits
    BY <1>2, <1>9, <2>1, Advances DEF TypeOK
  <2>. QED
    BY <1>1, <1>2, <1>3, <1>4, <2>1, <2>2 DEF FrameOK, BlockOrNull
<1>11. OpenBlocksAccounted'
  BY <1>2, <1>3, <1>4, <1>5, <1>9, BecomeOpen DEF ListKinds
<1>. QED
  BY <1>2, <1>3, <1>9, <1>10, <1>11, TypeBecome DEF Final

LEMMA WhileBodyKeeps ==
  ASSUME TypeOK, OpenBlocksAccounted, WhileBody
  PROVE  TypeOK' /\ OpenBlocksAccounted' /\ Final
<1>1. PICK e, b, f : /\ e = Top.end /\ b = Top.body
                     /\ f = [Top EXCEPT !.kind = "while.body", !.tail = cur, !.val = val]
  OBVIOUS
<1>2. /\ Depth > 0 /\ Top.kind = "while.cond" /\ frames' = [frames EXCEPT ![Depth] = f]
      /\ cur' = b /\ Advance /\ UNCHANGED <<bb, mCurFunc, any, val>>
      /\ at \in DOMAIN asg.nodes
  BY <1>1 DEF WhileBody, InCall, Become, Visiting
<1>3. cur \in Blocks /\ bb[cur].term = NoTerm /\ cur # 0 /\ cur \in Nat
  BY <1>2, LenProperties DEF OpenBlocksAccounted, ValueIsLive, InValue, ValueKinds, Live, Blocks, TypeOK
<1>4. /\ f \in Frame /\ f.kind = "while.body" /\ f.tail = cur /\ f.end = e
      /\ f.from = Top.from /\ f.body = b
  BY <1>1, <1>2, <1>3, TopTyped DEF TypeOK, Frame, FrameKinds
<1>5. /\ Pending(Top) = {e, b} /\ Pending(f) = {e, cur}
      /\ e \in Blocks /\ e # cur /\ bb[e].term = NoTerm
      /\ b \in Blocks /\ b # cur /\ bb[b].term = NoTerm
      /\ FrameOK(Top)
  BY <1>1, <1>2, <1>3, <1>4, ShapeTop DEF FrameOK, Pending
<1>6. e # b
  BY <1>1, <1>2, ShapeTop
<1>7. Blocks' = Blocks /\ BlockOrNull' = BlockOrNull /\ bb' \in Seq(Block) /\ cur' \in BlockOrNull'
  BY <1>2, <1>5 DEF Blocks, BlockOrNull, TypeOK
<1>8. Fits /\ FrameOK(f)'
  <2>1. Fits
    BY <1>2, <1>7, Advances DEF TypeOK
  <2>. QED
    BY <1>1, <1>2, <1>3, <1>4, <1>5, <1>7, <2>1 DEF FrameOK, BlockOrNull
<1>9. \A c \in Blocks : Targets(bb'[c].term) \subseteq Blocks
  BY <1>2 DEF OpenBlocksAccounted, TargetsExist
<1>10. OpenBlocksAccounted'
  BY <1>2, <1>3, <1>4, <1>5, <1>6, <1>7, <1>9, BecomeOpen DEF ListKinds
<1>. QED
  BY <1>2, <1>4, <1>8, <1>10, TypeBecome DEF Final

LEMMA WhileEndKeeps ==
  ASSUME TypeOK, OpenBlocksAccounted, WhileEnd
  PROVE  TypeOK' /\ OpenBlocksAccounted' /\ Final
<1>1. PICK e, l, h, t, u : /\ e = Top.end /\ l = Top.tail /\ h = Top.from
                           /\ t = CondBr(Top.val, Top.body, Top.end) /\ u = Br(Top.from)
  OBVIOUS
<1>2. PICK blocks : blocks = Terminate(bb, l, t)
  OBVIOUS
<1>3. /\ Depth > 0 /\ Top.kind = "while.body" /\ frames' = SubSeq(frames, 1, Depth - 1)
      /\ cur' = e /\ Advance /\ UNCHANGED <<mCurFunc, any, val>>
      /\ at \in DOMAIN asg.nodes
      /\ bb' = IF Live THEN Terminate(blocks, cur, u) ELSE blocks
  BY <1>1, <1>2 DEF WhileEnd, InCall, Pop, Visiting, BranchIfLive
<1>4. /\ FrameOK(Top) /\ Pending(Top) = {e, l}
      /\ e \in Blocks /\ e # cur /\ bb[e].term = NoTerm
      /\ l \in Blocks /\ l # cur /\ bb[l].term = NoTerm /\ l # e
      /\ Depth # 1 /\ (Depth > 1 => frames[Depth - 1].kind \notin ValueKinds)
  BY <1>1, <1>3, ShapeTop DEF FrameOK, Pending
<1>5. h \in Blocks /\ Top.body \in Blocks
  BY <1>1, <1>3, <1>4 DEF FrameOK, BlockOrNull
<1>6. \A b \in Blocks : b \in Nat
  BY LenProperties DEF Blocks, TypeOK
<1>7. /\ t \in Term /\ t # NoTerm /\ Targets(t) \subseteq Blocks
      /\ u \in Term /\ u # NoTerm /\ Targets(u) \subseteq Blocks
  <2>1. Top.val \in Val
    BY <1>3, TopTyped DEF TypeOK, Frame
  <2>. QED
    BY <1>1, <1>4, <1>5, <1>6, <2>1, Typed, OpIs
<1>8. /\ blocks \in Seq(Block)
      /\ DOMAIN blocks = Blocks
      /\ \A c \in Blocks : blocks[c].term = IF c = l THEN t ELSE bb[c].term
  <2>1. bb \in Seq(Block) /\ l \in DOMAIN bb /\ t \in Term
    BY <1>4, <1>7 DEF TypeOK, Blocks
  <2>2. /\ Terminate(bb, l, t) \in Seq(Block)
        /\ DOMAIN Terminate(bb, l, t) = DOMAIN bb
        /\ \A c \in DOMAIN bb : Terminate(bb, l, t)[c].term = IF c = l THEN t ELSE bb[c].term
    BY <2>1, TerminateBlocks
  <2>. QED
    BY <1>2, <2>1, <2>2 DEF Blocks
<1>9. /\ bb' \in Seq(Block)
      /\ Blocks' = Blocks
      /\ \A c \in Blocks : c # cur => bb'[c].term = blocks[c].term
      /\ cur \in Blocks => bb'[cur].term = IF Live THEN u ELSE bb[cur].term
  <2>1. CASE Live
    <3>1. /\ bb' \in Seq(Block)
          /\ DOMAIN bb' = DOMAIN blocks
          /\ \A c \in Blocks : bb'[c].term = IF c = cur THEN u ELSE blocks[c].term
      <4>1. cur \in DOMAIN blocks /\ bb' = Terminate(blocks, cur, u)
        BY <1>3, <1>8, <2>1 DEF Live
      <4>2. /\ Terminate(blocks, cur, u) \in Seq(Block)
            /\ DOMAIN Terminate(blocks, cur, u) = DOMAIN blocks
            /\ \A c \in DOMAIN blocks :
                 Terminate(blocks, cur, u)[c].term = IF c = cur THEN u ELSE blocks[c].term
        BY <1>7, <1>8, <4>1, TerminateBlocks
      <4>. QED
        BY <1>8, <4>1, <4>2
    <3>. QED
      BY <1>8, <2>1, <3>1 DEF Blocks
  <2>2. CASE ~Live
    BY <1>3, <1>4, <1>8, <2>2 DEF Blocks
  <2>. QED
    BY <2>1, <2>2
<1>10. Final /\ (cur \in Blocks => bb'[cur].term # NoTerm)
  BY <1>4, <1>7, <1>8, <1>9 DEF Live, Final
<1>11. Fits
  BY <1>3, <1>4, <1>9, Advances DEF TypeOK, BlockOrNull
<1>12. \A c \in Blocks : Targets(bb'[c].term) \subseteq Blocks
  BY <1>7, <1>8, <1>9 DEF OpenBlocksAccounted, TargetsExist
<1>13. /\ \A b \in Blocks : b \notin Pending(Top) \cup {cur} => bb'[b].term = bb[b].term
       /\ \A b \in Pending(Top) \cup {cur} : b \in Blocks /\ bb'[b].term = NoTerm => b = cur'
  BY <1>3, <1>4, <1>7, <1>8, <1>9, <1>10
<1>14. OpenBlocksAccounted'
  BY <1>3, <1>4, <1>9, <1>12, <1>13, PopOpen
<1>. QED
  BY <1>3, <1>10, <1>11, <1>14, TypePop

\* A block is given its phi.
WithPhi(blocks, b, p) == [blocks EXCEPT ![b].phi = p]

LEMMA PhiBlocks ==
  ASSUME NEW blocks \in Seq(Block), NEW b \in DOMAIN blocks, NEW p \in SUBSET Incoming
  PROVE  /\ WithPhi(blocks, b, p) \in Seq(Block)
         /\ DOMAIN WithPhi(blocks, b, p) = DOMAIN blocks
         /\ \A c \in DOMAIN blocks : WithPhi(blocks, b, p)[c].term = blocks[c].term
<1>1. [blocks[b] EXCEPT !.phi = p] \in Block
  <2>1. blocks[b] \in Block
    BY LenProperties, ElementOfSeq
  <2>. QED
    BY <2>1 DEF Block
<1>2. [blocks[b] EXCEPT !.phi = p].term = blocks[b].term
  <2>1. blocks[b] \in Block
    BY LenProperties, ElementOfSeq
  <2>. QED
    BY <2>1 DEF Block
<1>3. DOMAIN blocks = 1 .. Len(blocks)
  BY LenProperties
<1>. QED
  BY <1>1, <1>2, <1>3, ExceptSeq DEF WithPhi

LEMMA ShortCircuitEndKeeps ==
  ASSUME TypeOK, OpenBlocksAccounted, ShortCircuitEnd
  PROVE  TypeOK' /\ OpenBlocksAccounted' /\ Final
<1>1. PICK e, p, t, blocks : /\ e = Top.end /\ p = Incomings /\ t = Br(Top.end)
                             /\ blocks = Terminate(bb, cur, t)
  OBVIOUS
<1>2. /\ Depth > 0 /\ Top.kind \in {"and", "or"} /\ frames' = SubSeq(frames, 1, Depth - 1)
      /\ cur' = e /\ Advance /\ UNCHANGED <<mCurFunc, any>>
      /\ at \in DOMAIN asg.nodes
      /\ bb' = WithPhi(blocks, e, p)
      /\ val' = [kind |-> "phi", n |-> e]
  BY <1>1 DEF WithPhi, ShortCircuitEnd, InCall, Pop, Visiting
<1>3. cur \in Blocks /\ bb[cur].term = NoTerm
  BY <1>2 DEF OpenBlocksAccounted, ValueIsLive, InValue, ValueKinds, Live
<1>4. \A b \in Blocks : b \in Nat
  BY LenProperties DEF Blocks, TypeOK
<1>5. /\ Pending(Top) = {e} /\ e \in Blocks /\ e # cur /\ bb[e].term = NoTerm
      /\ Depth # 1
  BY <1>1, <1>2, ShapeTop DEF FrameOK, Pending
<1>6. t \in Term /\ t # NoTerm /\ Targets(t) \subseteq Blocks
  BY <1>1, <1>4, <1>5, Typed, OpIs
<1>7. p \in SUBSET Incoming
  <2>1. Top \in Frame
    BY <1>2, TopTyped DEF TypeOK
  <2>2. Top.from \in Nat /\ cur \in Nat /\ val \in Val /\ Short \in Val
    BY <1>3, <1>4, <2>1 DEF TypeOK, Frame, Short, Val
  <2>. QED
    BY <1>1, <2>2 DEF Incomings, Incoming
<1>8. /\ blocks \in Seq(Block)
      /\ DOMAIN blocks = Blocks
      /\ \A c \in Blocks : blocks[c].term = IF c = cur THEN t ELSE bb[c].term
  BY <1>1, <1>3, <1>6, TerminateBlocks DEF TypeOK, Blocks
<1>9. /\ bb' \in Seq(Block)
      /\ Blocks' = Blocks
      /\ \A c \in Blocks : bb'[c].term = IF c = cur THEN t ELSE bb[c].term
  <2>1. e \in DOMAIN blocks
    BY <1>5, <1>8
  <2>2. /\ bb' \in Seq(Block)
        /\ DOMAIN bb' = DOMAIN blocks
        /\ \A c \in DOMAIN blocks : bb'[c].term = blocks[c].term
    BY <1>2, <1>7, <1>8, <2>1, PhiBlocks
  <2>. QED
    BY <1>8, <2>2 DEF Blocks
<1>10. Fits
  <2>1. val' \in Val
    BY <1>2, <1>4, <1>5 DEF Val
  <2>. QED
    BY <1>2, <1>5, <1>9, <2>1, Advances DEF TypeOK, BlockOrNull
<1>11. Live' /\ Final
  BY <1>2, <1>3, <1>5, <1>9 DEF Live, Final
<1>12. \A c \in Blocks : Targets(bb'[c].term) \subseteq Blocks
  BY <1>6, <1>9 DEF OpenBlocksAccounted, TargetsExist
<1>13. OpenBlocksAccounted'
  BY <1>2, <1>3, <1>5, <1>6, <1>9, <1>11, <1>12, PopOpen
<1>. QED
  BY <1>2, <1>10, <1>11, <1>13, TypePop

LEMMA WhileBeginKeeps ==
  ASSUME TypeOK, OpenBlocksAccounted, WhileBegin
  PROVE  TypeOK' /\ OpenBlocksAccounted' /\ Final
<1>1. PICK t : t = Br(N + 1)
  OBVIOUS
<1>2. PICK f : f = [Call("while.cond") EXCEPT !.from = N + 1, !.body = N + 2, !.end = N + 3]
  OBVIOUS
<1>3. /\ bb' = Terminate(Grow(3, mCurFunc), cur, t)
      /\ cur' = N + 1 /\ frames' = Append(frames, f)
      /\ any' = [any EXCEPT ![at] = [cond |-> N + 1, end |-> N + 3]]
      /\ Advance /\ UNCHANGED <<mCurFunc, val>>
      /\ at \in DOMAIN asg.nodes /\ InList /\ cur \in Blocks /\ bb[cur].term = NoTerm
  BY <1>1, <1>2 DEF WhileBegin, Stmt, Visiting, Live, Push
<1>4. N \in Nat
  BY LenProperties DEF N, TypeOK
<1>5. t \in Term /\ t # NoTerm /\ Targets(t) = {N + 1}
  BY <1>1, <1>4, Typed, OpIs
<1>6. /\ bb' \in Seq(Block)
      /\ Blocks = 1 .. N
      /\ Blocks' = 1 .. N + 3
      /\ \A b \in 1 .. N + 3 :
            bb'[b].term = IF b = cur THEN t ELSE IF b <= N THEN bb[b].term ELSE NoTerm
  BY <1>3, <1>5, GrowAndEnd
<1>7. /\ f \in Frame /\ f.kind = "while.cond" /\ f.from = N + 1 /\ f.body = N + 2
      /\ f.end = N + 3 /\ f.tail = 0
  <2>1. f = [kind |-> "while.cond", node |-> at, from |-> N + 1, body |-> N + 2, end |-> N + 3,
             tail |-> 0, val |-> NoVal]
    BY <1>2 DEF Call
  <2>2. at \in Nat /\ NoVal \in Val
    BY Typed DEF TypeOK
  <2>. QED
    BY <1>4, <2>1, <2>2 DEF Frame, FrameKinds
<1>8. FrameOK(f)' /\ Pending(f) = {N + 2, N + 3}
  BY <1>4, <1>6, <1>7 DEF FrameOK, BlockOrNull, Pending
<1>9. Fits
  <2>1. [cond |-> N + 1, end |-> N + 3] \in [cond : BlockOrNull', end : BlockOrNull']
    BY <1>4, <1>6 DEF BlockOrNull
  <2>2. any \in [DOMAIN asg.nodes -> [cond : BlockOrNull', end : BlockOrNull']]
    BY <1>4, <1>6 DEF TypeOK, BlockOrNull
  <2>3. any' \in [DOMAIN asg.nodes -> [cond : BlockOrNull', end : BlockOrNull']]
    BY <1>3, <2>1, <2>2
  <2>4. cur' \in BlockOrNull' /\ Blocks \subseteq Blocks'
    BY <1>3, <1>4, <1>6 DEF BlockOrNull
  <2>. QED
    BY <1>3, <1>6, <2>3, <2>4, Advances DEF TypeOK
<1>10. Live' /\ Final /\ Depth > 0 /\ Depth # 0
  BY <1>3, <1>4, <1>6 DEF Live, Final, InList
<1>11. \A b \in Blocks' : Targets(bb'[b].term) \subseteq Blocks'
  <2>. SUFFICES ASSUME NEW b \in 1 .. N + 3 PROVE Targets(bb'[b].term) \subseteq 1 .. N + 3
    BY <1>6
  <2>1. CASE b = cur
    BY <1>4, <1>5, <1>6, <2>1
  <2>2. CASE b # cur /\ b \in Blocks
    <3>1. bb'[b].term = bb[b].term
      BY <1>6, <2>2
    <3>2. Targets(bb[b].term) \subseteq 1 .. N
      BY <1>6, <2>2 DEF OpenBlocksAccounted, TargetsExist
    <3>3. 1 .. N \subseteq 1 .. N + 3
      BY <1>4
    <3>. QED
      BY <3>1, <3>2, <3>3
  <2>3. CASE b # cur /\ b \notin Blocks
    <3>1. bb'[b].term = NoTerm
      BY <1>6, <2>3
    <3>. QED
      BY <3>1, OpIs
  <2>. QED
    BY <2>1, <2>2, <2>3
<1>12. /\ \A b \in Pending(f) : bb'[b].term = NoTerm
       /\ \A b \in Blocks' \ Blocks : b \in Pending(f) \cup {cur'}
       /\ Pending(f) \cap Blocks = {} /\ cur' \notin Pending(f) /\ cur' \notin Blocks
       /\ \A b \in Blocks : b # cur => bb'[b].term = bb[b].term
       /\ bb'[cur].term # NoTerm
       /\ Blocks \subseteq Blocks'
  BY <1>3, <1>4, <1>5, <1>6, <1>8
<1>13. f.body # f.end
  BY <1>4, <1>7
<1>14. OpenBlocksAccounted'
  BY <1>3, <1>7, <1>10, <1>11, <1>12, <1>13, PushOpen
<1>. QED
  BY <1>3, <1>7, <1>8, <1>9, <1>10, <1>14, TypePush

LEMMA FunctionBeginKeeps ==
  ASSUME TypeOK, OpenBlocksAccounted, FunctionBegin
  PROVE  TypeOK' /\ OpenBlocksAccounted' /\ Final
<1>1. PICK kind \in {"func", "gvar"} : Visiting(kind) /\ Push(Call(kind))
  BY DEF FunctionBegin
<1>2. PICK f : f = Call(kind)
  OBVIOUS
<1>3. /\ bb' = Grow(1, at) /\ cur' = N + 1 /\ frames' = Append(frames, f) /\ mCurFunc' = at
      /\ Advance /\ UNCHANGED <<any, val>> /\ at \in DOMAIN asg.nodes /\ frames = <<>>
  BY <1>1, <1>2 DEF FunctionBegin, Visiting, Push, EnterFunction
<1>4. ~Live /\ Depth = 0
  BY <1>3 DEF OpenBlocksAccounted, ValueIsLive, Depth
<1>5. at \in Nat
  BY DEF TypeOK
<1>6. /\ bb' \in Seq(Block)
      /\ N \in Nat
      /\ Blocks = 1 .. N
      /\ DOMAIN bb' = 1 .. N + 1
      /\ \A b \in 1 .. N + 1 : bb'[b].term = IF b <= N THEN bb[b].term ELSE NoTerm
  <2>1. /\ Grow(1, at) \in Seq(Block)
        /\ N \in Nat
        /\ Blocks = 1 .. N
        /\ DOMAIN Grow(1, at) = 1 .. N + 1
        /\ \A b \in 1 .. N + 1 : Grow(1, at)[b].term = IF b <= N THEN bb[b].term ELSE NoTerm
    BY <1>5, GrowBlocks
  <2>. QED
    BY <1>3, <2>1
<1>7. Blocks' = 1 .. N + 1
  BY <1>6 DEF Blocks
<1>8. f \in Frame /\ f.kind = kind /\ f.tail = 0 /\ Pending(f) = {} /\ FrameOK(f)'
  <2>1. f.kind = kind /\ f.tail = 0 /\ Pending(f) = {}
    BY <1>2 DEF Call, Pending
  <2>. QED
    BY <1>2, <2>1, NewFrameOK DEF FrameKinds
<1>9. Fits
  <2>1. cur' \in BlockOrNull' /\ Blocks \subseteq Blocks'
    BY <1>3, <1>6, <1>7 DEF BlockOrNull
  <2>. QED
    BY <1>3, <1>6, <2>1, Advances DEF TypeOK
<1>10. Live' /\ Final
  BY <1>3, <1>6, <1>7 DEF Live, Final
<1>11. \A b \in Blocks' : Targets(bb'[b].term) \subseteq Blocks'
  <2>. SUFFICES ASSUME NEW b \in 1 .. N + 1 PROVE Targets(bb'[b].term) \subseteq 1 .. N + 1
    BY <1>7
  <2>1. CASE b \in Blocks
    <3>1. bb'[b].term = bb[b].term
      BY <1>6, <2>1
    <3>2. Targets(bb[b].term) \subseteq 1 .. N
      BY <1>6, <2>1 DEF OpenBlocksAccounted, TargetsExist
    <3>. QED
      BY <1>6, <3>1, <3>2
  <2>2. CASE b \notin Blocks
    <3>1. bb'[b].term = NoTerm
      BY <1>6, <2>2
    <3>. QED
      BY <3>1, OpIs
  <2>. QED
    BY <2>1, <2>2
<1>12. /\ \A b \in Blocks' \ Blocks : b \in Pending(f) \cup {cur'}
       /\ cur' \notin Pending(f) /\ cur' \notin Blocks
       /\ \A b \in Blocks : bb'[b].term = bb[b].term
       /\ cur \in Blocks => bb'[cur].term # NoTerm
       /\ Blocks \subseteq Blocks'
  BY <1>3, <1>4, <1>6, <1>7, <1>8 DEF Live
<1>13. OpenBlocksAccounted'
  BY <1>3, <1>4, <1>8, <1>10, <1>11, <1>12, PushOpen
<1>. QED
  BY <1>3, <1>8, <1>9, <1>10, <1>13, TypePush

\* A condition that is followed by branches of its own.
LEMMA BranchOpen ==
  ASSUME TypeOK, OpenBlocksAccounted, Depth > 0, Top.kind = "if.cond",
         NEW f \in Frame, f.kind = "if.then", f.tail # 0 => f.tail # f.end,
         frames' = [frames EXCEPT ![Depth] = f],
         Blocks \subseteq Blocks', Live', cur' \notin Blocks,
         Pending(f) \cap Blocks = {}, cur' \notin Pending(f),
         \A b \in Pending(f) : bb'[b].term = NoTerm,
         \A b \in Blocks' \ Blocks : b \in Pending(f) \cup {cur'},
         \A b \in Blocks : b # cur => bb'[b].term = bb[b].term,
         bb'[cur].term # NoTerm,
         \A b \in Blocks' : Targets(bb'[b].term) \subseteq Blocks'
  PROVE  OpenBlocksAccounted'
<1>1. /\ frames' \in Seq(Frame)
      /\ Depth \in Nat
      /\ DOMAIN frames = 1 .. Depth
      /\ DOMAIN frames' = 1 .. Depth
      /\ \A i \in 1 .. Depth - 1 : frames'[i] = frames[i]
      /\ Top = frames[Depth]
      /\ frames'[Depth] = f
  BY BecomeFrames DEF TypeOK, Top
<1>2. CallShape'
  BY ShapeBecome DEF TypeOK, OpenBlocksAccounted
<1>3. Pending(Top) = {}
  BY ShapeTop DEF FrameOK, Pending
<1>4. OpenAreKnown'
  <2>. SUFFICES ASSUME NEW b \in Blocks', bb'[b].term = NoTerm, b # cur'
                PROVE  \E i \in DOMAIN frames' : b \in Pending(frames'[i])
    BY DEF OpenAreKnown
  <2>1. CASE b \notin Blocks
    BY <1>1, <2>1
  <2>2. CASE b \in Blocks
    <3>1. b # cur /\ bb[b].term = NoTerm
      BY <2>2
    <3>2. PICK i \in DOMAIN frames : b \in Pending(frames[i])
      BY <2>2, <3>1 DEF OpenBlocksAccounted, OpenAreKnown
    <3>3. i # Depth
      BY <1>1, <1>3, <3>2
    <3>4. i \in DOMAIN frames' /\ frames'[i] = frames[i]
      BY <1>1, <3>3
    <3>. QED
      BY <3>2, <3>4
  <2>. QED
    BY <2>1, <2>2
<1>5. \A i \in 1 .. Depth - 1 : Pending(frames[i]) \subseteq Blocks \ {cur}
  BY <1>1, PendingInBlocks DEF OpenBlocksAccounted, PendingAreOpen
<1>6. PendingAreOpen'
  <2>. SUFFICES ASSUME NEW i \in DOMAIN frames', NEW b \in Pending(frames'[i])
                PROVE  b # cur' /\ bb'[b].term = NoTerm
    BY DEF PendingAreOpen
  <2>1. CASE i = Depth
    BY <1>1, <2>1
  <2>2. CASE i # Depth
    <3>1. i \in DOMAIN frames /\ i \in 1 .. Depth - 1 /\ b \in Pending(frames[i])
      BY <1>1, <2>2
    <3>2. b \in Blocks /\ b # cur /\ bb[b].term = NoTerm
      BY <1>5, <3>1 DEF OpenBlocksAccounted, PendingAreOpen
    <3>. QED
      BY <3>2
  <2>. QED
    BY <2>1, <2>2
<1>7. PendingAreDistinct'
  <2>1. \A i \in DOMAIN frames' : /\ frames'[i].kind = "while.cond" => frames'[i].body # frames'[i].end
                                  /\ frames'[i].tail # 0 => frames'[i].tail # frames'[i].end
    BY <1>1 DEF OpenBlocksAccounted, PendingAreDistinct
  <2>2. ASSUME NEW i \in DOMAIN frames', NEW j \in DOMAIN frames', i # j
        PROVE  Pending(frames'[i]) \cap Pending(frames'[j]) = {}
    <3>1. CASE i \in 1 .. Depth - 1 /\ j \in 1 .. Depth - 1
      BY <1>1, <2>2, <3>1 DEF OpenBlocksAccounted, PendingAreDistinct
    <3>2. CASE i = Depth /\ j \in 1 .. Depth - 1
      BY <1>1, <1>5, <3>2
    <3>3. CASE j = Depth /\ i \in 1 .. Depth - 1
      BY <1>1, <1>5, <3>3
    <3>4. i \in 1 .. Depth /\ j \in 1 .. Depth /\ Depth \in Nat
      BY <1>1
    <3>5. \/ i \in 1 .. Depth - 1 /\ j \in 1 .. Depth - 1
          \/ i = Depth /\ j \in 1 .. Depth - 1
          \/ j = Depth /\ i \in 1 .. Depth - 1
      BY <2>2, <3>4
    <3>. QED
      BY <3>1, <3>2, <3>3, <3>5
  <2>. QED
    BY <2>1, <2>2 DEF PendingAreDistinct
<1>8. ValueIsLive'
  <2>1. frames' # <<>>
    BY <1>1
  <2>. QED
    BY <2>1 DEF ValueIsLive
<1>9. TargetsExist'
  BY DEF TargetsExist
<1>. QED
  BY <1>2, <1>4, <1>6, <1>7, <1>8, <1>9 DEF OpenBlocksAccounted

LEMMA IfThenKeeps ==
  ASSUME TypeOK, OpenBlocksAccounted, IfThen
  PROVE  TypeOK' /\ OpenBlocksAccounted' /\ Final
<1>1. PICK elseBegin, k, other :
         /\ elseBegin = IF asg.nodes[Top.node].alt = 0 THEN 0 ELSE N + 3
         /\ k = IF elseBegin = 0 THEN 2 ELSE 3
         /\ other = IF elseBegin = 0 THEN N + 2 ELSE elseBegin
  OBVIOUS
<1>2. PICK t, f : /\ t = CondBr(val, N + 1, other)
                  /\ f = [Top EXCEPT !.kind = "if.then", !.end = N + 2, !.tail = elseBegin]
  OBVIOUS
<1>3. /\ bb' = Terminate(Grow(k, mCurFunc), cur, t)
      /\ cur' = N + 1 /\ frames' = [frames EXCEPT ![Depth] = f]
      /\ Advance /\ UNCHANGED <<mCurFunc, any, val>>
      /\ at \in DOMAIN asg.nodes /\ Depth > 0 /\ Top.kind = "if.cond"
  BY <1>1, <1>2 DEF IfThen, InCall, Visiting, Become
<1>4. cur \in Blocks /\ bb[cur].term = NoTerm
  BY <1>3 DEF OpenBlocksAccounted, ValueIsLive, InValue, ValueKinds, Live
<1>5. N \in Nat
  BY LenProperties DEF N, TypeOK
<1>6. \/ k = 2 /\ elseBegin = 0 /\ other = N + 2
      \/ k = 3 /\ elseBegin = N + 3 /\ other = N + 3
  BY <1>1, <1>5
<1>7. t \in Term /\ t # NoTerm /\ Targets(t) = {N + 1, other}
  <2>1. other \in Nat /\ other # 0 /\ val \in Val
    BY <1>5, <1>6 DEF TypeOK
  <2>. QED
    BY <1>2, <1>5, <2>1, Typed, OpIs
<1>8. /\ bb' \in Seq(Block)
      /\ Blocks = 1 .. N
      /\ Blocks' = 1 .. N + k
      /\ \A b \in 1 .. N + k :
            bb'[b].term = IF b = cur THEN t ELSE IF b <= N THEN bb[b].term ELSE NoTerm
  BY <1>3, <1>4, <1>6, <1>7, GrowAndEnd
<1>9. f \in Frame /\ f.kind = "if.then" /\ f.end = N + 2 /\ f.tail = elseBegin
      /\ f.from = Top.from /\ f.body = Top.body
  <2>1. Top \in Frame
    BY <1>3, TopTyped DEF TypeOK
  <2>2. N + 2 \in Nat /\ elseBegin \in Nat /\ "if.then" \in FrameKinds
    BY <1>5, <1>6 DEF FrameKinds
  <2>. QED
    BY <1>2, <2>1, <2>2 DEF Frame
<1>10. Pending(f) = {N + 2, elseBegin} \ {0}
  BY <1>9 DEF Pending
<1>11. FrameOK(f)'
  <2>1. FrameOK(Top)
    BY <1>3, ShapeTop
  <2>. QED
    BY <1>5, <1>6, <1>8, <1>9, <2>1 DEF FrameOK, BlockOrNull
<1>12. Fits
  <2>1. cur' \in BlockOrNull' /\ Blocks \subseteq Blocks'
    BY <1>3, <1>5, <1>6, <1>8 DEF BlockOrNull
  <2>. QED
    BY <1>3, <1>8, <2>1, Advances DEF TypeOK
<1>13. Live' /\ Final
  <2>1. N + 1 \in 1 .. N + k /\ N + 1 # cur /\ ~(N + 1 <= N) /\ 1 .. N \subseteq 1 .. N + k
    BY <1>4, <1>5, <1>6, <1>8
  <2>2. bb'[N + 1].term = NoTerm
    BY <1>8, <2>1
  <2>3. \A b \in 1 .. N : b # cur => bb'[b].term = bb[b].term
    BY <1>5, <1>8, <2>1
  <2>. QED
    BY <1>3, <1>4, <1>8, <2>1, <2>2, <2>3 DEF Live, Final
<1>14. \A b \in Blocks' : Targets(bb'[b].term) \subseteq Blocks'
  <2>. SUFFICES ASSUME NEW b \in 1 .. N + k PROVE Targets(bb'[b].term) \subseteq 1 .. N + k
    BY <1>8
  <2>1. CASE b = cur
    BY <1>5, <1>6, <1>7, <1>8, <2>1
  <2>2. CASE b # cur /\ b \in Blocks
    <3>1. bb'[b].term = bb[b].term
      BY <1>8, <2>2
    <3>2. Targets(bb[b].term) \subseteq 1 .. N
      BY <1>8, <2>2 DEF OpenBlocksAccounted, TargetsExist
    <3>3. 1 .. N \subseteq 1 .. N + k
      BY <1>5, <1>6
    <3>. QED
      BY <3>1, <3>2, <3>3
  <2>3. CASE b # cur /\ b \notin Blocks
    <3>1. bb'[b].term = NoTerm
      BY <1>8, <2>3
    <3>. QED
      BY <3>1, OpIs
  <2>. QED
    BY <2>1, <2>2, <2>3
<1>15. /\ \A b \in Pending(f) : bb'[b].term = NoTerm
       /\ \A b \in Blocks' \ Blocks : b \in Pending(f) \cup {cur'}
       /\ Pending(f) \cap Blocks = {} /\ cur' \notin Pending(f) /\ cur' \notin Blocks
       /\ \A b \in Blocks : b # cur => bb'[b].term = bb[b].term
       /\ bb'[cur].term # NoTerm
       /\ Blocks \subseteq Blocks'
       /\ f.tail # 0 => f.tail # f.end
  <2>1. CASE k = 2
    BY <1>3, <1>4, <1>5, <1>6, <1>7, <1>8, <1>9, <1>10, <2>1
  <2>2. CASE k = 3
    BY <1>3, <1>4, <1>5, <1>6, <1>7, <1>8, <1>9, <1>10, <2>2
  <2>. QED
    BY <1>6, <2>1, <2>2
<1>16. OpenBlocksAccounted'
  BY <1>3, <1>9, <1>13, <1>14, <1>15, BranchOpen
<1>. QED
  BY <1>3, <1>9, <1>11, <1>12, <1>13, <1>16, TypeBecome

-----------------------------------------------------------------------------
(* The theorems. *)

LEMMA NextKeeps ==
  ASSUME IInv, [Next]_vars
  PROVE  IInv' /\ Final
<1>. TypeOK /\ OpenBlocksAccounted
  BY DEF IInv
<1>. SUFFICES TypeOK' /\ OpenBlocksAccounted' /\ Final
  BY DEF IInv
<1>1. CASE UNCHANGED vars
  <2>1. Fits /\ SameTerms /\ Final /\ cur' = cur /\ frames' = frames
    BY <1>1, Same DEF vars, Fits, SameTerms, Final, TypeOK
  <2>. QED
    BY <2>1, TypeSame, QuietOpen
<1>2. CASE Next
  <2>1. CASE Stmt("expr") /\ CallWithValue("expr")
    BY <2>1, CallWithValueKeeps DEF Stmt, Visiting
  <2>2. CASE Stmt("ret") /\ CallWithValue("ret")
    BY <2>2, CallWithValueKeeps DEF Stmt, Visiting
  <2>3. CASE Stmt("if") /\ CallWithValue("if.cond")
    BY <2>3, CallWithValueKeeps DEF Stmt, Visiting
  <2>4. ASSUME NEW kind \in {"and", "or"}, ShortCircuit(kind)
        PROVE  TypeOK' /\ OpenBlocksAccounted' /\ Final
    BY <2>4, ShortCircuitKeeps
  <2>. QED
    BY <1>2, <2>1, <2>2, <2>3, <2>4, AtomKeeps, ShortCircuitEndKeeps, DropStmtKeeps, ExprStmtEndKeeps,
       LocalVarDeclKeeps, LocalVarInitKeeps, ReturnStmtKeeps, IfThenKeeps, IfElseKeeps, IfEndKeeps,
       WhileBeginKeeps, WhileBodyKeeps, WhileEndKeeps, JumpKeeps, JumpNowhereKeeps,
       FunctionBeginKeeps, FunctionEndKeeps, GlobalVarEndKeeps, PrototypeKeeps, LocalPrototypeKeeps
       DEF Next, ExprStmtBegin, ReturnStmtBegin, IfBegin
<1>. QED
  BY <1>1, <1>2

LEMMA Invariant == Spec => []IInv
<1>1. IInv /\ [Next]_vars => IInv'
  BY NextKeeps
<1>. QED
  BY <1>1, InitIInv, PTL DEF Spec

\* Every block number that the walk keeps, in mCurIrb, in its calls in
\* progress or in an any field, is that of a block of the module.
THEOREM TypeCorrect == Spec => []TypeOK
<1>1. IInv => TypeOK
  BY DEF IInv
<1>. QED
  BY <1>1, Invariant, PTL

\* At every point of the walk an unterminated block is the insertion block or
\* is waited for by exactly one call of EmitIR::operator(), and expressions are
\* only emitted into an unterminated block.
THEOREM OpenAccounted == Spec => []OpenBlocksAccounted
<1>1. IInv => OpenBlocksAccounted
  BY DEF IInv
<1>. QED
  BY <1>1, Invariant, PTL

LEMMA EndsImplied == IInv => EveryBlockEnds
<1>. SUFFICES ASSUME IInv, Finished, NEW b \in Blocks
              PROVE  bb[b].term # NoTerm /\ Targets(bb[b].term) \subseteq Blocks
  BY DEF EveryBlockEnds
<1>1. frames = <<>> /\ DOMAIN frames = {} /\ ~Live
  BY DEF Finished, IInv, OpenBlocksAccounted, ValueIsLive
<1>. QED
  BY <1>1 DEF IInv, OpenBlocksAccounted, OpenAreKnown, Live, TargetsExist

\* When the walk is over every block has its terminator, and it branches to
\* blocks that exist.
THEOREM AllBlocksEnd == Spec => []EveryBlockEnds
<1>. QED
  BY EndsImplied, Invariant, PTL

\* No step of the walk gives a terminated block another terminator.
THEOREM TerminatorsStay == Spec => TerminatorsAreFinal
<1>1. IInv /\ [Next]_vars => [Final]_vars
  BY NextKeeps
<1>. QED
  BY <1>1, Invariant, PTL DEF Spec, TerminatorsAreFinal, Final

-----------------------------------------------------------------------------
(* What a step does to the blocks: it adds empty ones to function fn, and ends *)
(* blocks of S with branches to T.                                             *)

Step(fn, S, T) ==
  /\ Blocks \subseteq Blocks'
  /\ \A b \in Blocks' \ Blocks : /\ bb'[b].fn = fn /\ bb'[b].phi = {} /\ bb'[b].code = <<>>
                                 /\ bb'[b].term = NoTerm
                                 /\ \A c \in Blocks : c < b
  /\ \A b \in Blocks : /\ bb'[b].fn = bb[b].fn
                       /\ bb'[b].term = bb[b].term \/ (b \in S /\ Targets(bb'[b].term) \subseteq T)

SamePhi == \A b \in Blocks : bb'[b].phi = bb[b].phi
SameCode == \A b \in Blocks : bb'[b].code = bb[b].code

LEMMA BlocksAre ==
  ASSUME TypeOK
  PROVE  N \in Nat /\ Blocks = 1 .. N /\ bb \in Seq(Block) /\ \A b \in Blocks : bb[b] \in Block
<1>1. bb \in Seq(Block)
  BY DEF TypeOK
<1>. QED
  BY <1>1, LenProperties, ElementOfSeq DEF N, Blocks

LEMMA QuietStep ==
  ASSUME bb' = bb, NEW fn
  PROVE  Step(fn, {}, {}) /\ SamePhi /\ SameCode
  BY DEF Step, SamePhi, SameCode, Blocks

LEMMA TerminateFields ==
  ASSUME NEW blocks \in Seq(Block), NEW b \in DOMAIN blocks, NEW t \in Term
  PROVE  \A c \in DOMAIN blocks : /\ Terminate(blocks, b, t)[c].fn = blocks[c].fn
                                  /\ Terminate(blocks, b, t)[c].phi = blocks[c].phi
                                  /\ Terminate(blocks, b, t)[c].code = blocks[c].code
<1>1. \A c \in DOMAIN blocks : blocks[c] \in Block
  BY LenProperties, ElementOfSeq
<1>2. DEFINE u == [blocks[b] EXCEPT !.term = t]
<1>3. u.fn = blocks[b].fn /\ u.phi = blocks[b].phi /\ u.code = blocks[b].code
  BY <1>1 DEF Block
<1>4. Terminate(blocks, b, t) = [blocks EXCEPT ![b] = u]
  BY DEF Terminate
<1>. HIDE DEF u
<1>. QED
  BY <1>3, <1>4

LEMMA EndStep ==
  ASSUME TypeOK, NEW b \in Blocks, NEW t \in Term, bb' = Terminate(bb, b, t), NEW fn
  PROVE  Step(fn, {b}, Targets(t)) /\ SamePhi /\ SameCode
<1>1. Blocks' = Blocks /\ \A c \in Blocks : bb'[c].term = IF c = b THEN t ELSE bb[c].term
  BY EndBlock
<1>2. \A c \in Blocks : bb'[c].fn = bb[c].fn /\ bb'[c].phi = bb[c].phi /\ bb'[c].code = bb[c].code
  BY TerminateFields, BlocksAre DEF Blocks
<1>. QED
  BY <1>1, <1>2 DEF Step, SamePhi, SameCode

LEMMA GrowFields ==
  ASSUME TypeOK, NEW k \in Nat, NEW fn
  PROVE  /\ \A b \in Blocks : Grow(k, fn)[b] = bb[b]
         /\ \A b \in 1 .. N + k \ Blocks :
              /\ Grow(k, fn)[b].fn = fn /\ Grow(k, fn)[b].phi = {} /\ Grow(k, fn)[b].code = <<>>
              /\ Grow(k, fn)[b].term = NoTerm
<1>1. N \in Nat /\ Blocks = 1 .. N
  BY BlocksAre
<1>2. \A b \in 1 .. N + k : Grow(k, fn)[b] = IF b \in Blocks THEN bb[b] ELSE [NewBlock EXCEPT !.fn = fn]
  BY DEF Grow
<1>3. DEFINE new == [NewBlock EXCEPT !.fn = fn]
<1>4. new.fn = fn /\ new.phi = {} /\ new.code = <<>> /\ new.term = NoTerm
  BY DEF NewBlock
<1>5. \A b \in 1 .. N + k : Grow(k, fn)[b] = IF b \in Blocks THEN bb[b] ELSE new
  BY <1>2
<1>6. \A b \in Blocks : b \in 1 .. N + k
  BY <1>1
<1>. HIDE DEF new
<1>. QED
  BY <1>4, <1>5, <1>6

LEMMA GrowEndStep ==
  ASSUME TypeOK, cur \in Blocks, NEW k \in Nat, NEW t \in Term,
         bb' = Terminate(Grow(k, mCurFunc), cur, t)
  PROVE  Step(mCurFunc, {cur}, Targets(t)) /\ SamePhi /\ SameCode
<1>. DEFINE blocks == Grow(k, mCurFunc)
<1>1. N \in Nat /\ Blocks = 1 .. N /\ Blocks' = 1 .. N + k
      /\ \A b \in 1 .. N + k :
           bb'[b].term = IF b = cur THEN t ELSE IF b <= N THEN bb[b].term ELSE NoTerm
  BY GrowAndEnd
<1>2. mCurFunc \in Nat
  BY DEF TypeOK
<1>3. blocks \in Seq(Block) /\ DOMAIN blocks = 1 .. N + k
  BY <1>2, GrowBlocks, Zenon
<1>4. cur \in DOMAIN blocks
  BY <1>1, <1>3
<1>5. /\ \A b \in Blocks : blocks[b] = bb[b]
      /\ \A b \in 1 .. N + k \ Blocks :
           blocks[b].fn = mCurFunc /\ blocks[b].phi = {} /\ blocks[b].code = <<>>
  BY GrowFields
<1>. HIDE DEF blocks
<1>6. \A b \in 1 .. N + k : /\ bb'[b].fn = blocks[b].fn
                            /\ bb'[b].phi = blocks[b].phi
                            /\ bb'[b].code = blocks[b].code
  BY <1>3, <1>4, TerminateFields DEF blocks
<1>7. \A b \in Blocks : b \in 1 .. N + k /\ b <= N
  BY <1>1
<1>8. \A b \in Blocks : /\ bb'[b].fn = bb[b].fn /\ bb'[b].phi = bb[b].phi /\ bb'[b].code = bb[b].code
                        /\ bb'[b].term = IF b = cur THEN t ELSE bb[b].term
  BY <1>1, <1>5, <1>6, <1>7
<1>9. \A b \in Blocks' \ Blocks : /\ bb'[b].fn = mCurFunc /\ bb'[b].phi = {} /\ bb'[b].code = <<>>
                                  /\ bb'[b].term = NoTerm
                                  /\ \A c \in Blocks : c < b
  <2>1. SUFFICES ASSUME NEW b \in Blocks' \ Blocks
                 PROVE  /\ bb'[b].fn = mCurFunc /\ bb'[b].phi = {} /\ bb'[b].code = <<>>
                        /\ bb'[b].term = NoTerm
                        /\ \A c \in Blocks : c < b
    OBVIOUS
  <2>2. b \in 1 .. N + k \ Blocks /\ b \in Nat /\ b > N /\ b # cur
    BY <1>1, <2>1
  <2>. QED
    BY <1>1, <1>5, <1>6, <2>2
<1>. QED
  BY <1>1, <1>7, <1>8, <1>9 DEF Step, SamePhi, SameCode

\* An instruction is appended to a block.
LEMMA CodeStep ==
  ASSUME TypeOK, NEW b, NEW i \in Instr, bb' = [bb EXCEPT ![b].code = Append(@, i)], NEW fn
  PROVE  /\ Step(fn, {}, {}) /\ SamePhi
         /\ Blocks' = Blocks
         /\ \A c \in Blocks : bb'[c].code = IF c = b THEN Append(bb[c].code, i) ELSE bb[c].code
<1>1. Blocks' = Blocks /\ \A c \in Blocks : bb'[c].term = bb[c].term
  BY AppendCode, BlocksAre
<1>2. bb \in [Blocks -> Block]
  BY BlocksAre DEF Blocks
<1>3. \A c \in Blocks : /\ bb'[c].fn = bb[c].fn /\ bb'[c].phi = bb[c].phi
                        /\ bb'[c].code = IF c = b THEN Append(bb[c].code, i) ELSE bb[c].code
  BY <1>2 DEF Block
<1>. QED
  BY <1>1, <1>3 DEF Step, SamePhi

-----------------------------------------------------------------------------
(* The blocks that the walk keeps to branch to: those of the calls in         *)
(* progress, of the loops, and of the phis to come.                           *)

Dest(f) ==
  (CASE f.kind \in {"while.cond", "while.body"} -> {f.from, f.body, f.end}
     [] f.kind = "if.then" -> {f.end, f.tail}
     [] f.kind = "if.else" -> {f.end}
     [] OTHER -> {}) \ {0}

FrameDests == UNION {Dest(frames[i]) : i \in DOMAIN frames}
Tails == {frames[i].tail : i \in DOMAIN frames} \ {0}
AnyDests == (UNION {{any[w].cond, any[w].end} : w \in DOMAIN any}) \ {0}
Joining == {i \in DOMAIN frames : frames[i].kind \in {"and", "or"}}
New == Blocks' \ Blocks

\* The calls in progress are the old ones, or f.
FramesOr(f) ==
  \A i \in DOMAIN frames' : (i \in DOMAIN frames /\ frames'[i] = frames[i]) \/ frames'[i] = f

\* What most actions do: they end the insertion block, or the tail of a call, with
\* branches to the blocks of the calls or to new ones.
Plainly ==
  /\ Step(mCurFunc, {cur} \cup Tails, FrameDests \cup New)
  /\ SamePhi
  /\ cur' \in {cur} \cup FrameDests \cup New
  /\ mCurFunc' = mCurFunc
  /\ frames # <<>> \/ (frames' = <<>> /\ cur' = cur /\ bb' = bb)
  /\ FrameDests' \subseteq FrameDests \cup New
  /\ Tails' \subseteq Tails \cup {cur} \cup New
  /\ \A i \in Joining' : i \in Joining /\ frames'[i] = frames[i]
  /\ DOMAIN any' = DOMAIN any
  /\ \A w \in DOMAIN any : any'[w] = any[w] \/ (w = at /\ {any'[w].cond, any'[w].end} \subseteq New)

LEMMA FramesSame ==
  ASSUME frames' = frames
  PROVE  /\ FrameDests' = FrameDests /\ Tails' = Tails
         /\ \A i \in Joining' : i \in Joining /\ frames'[i] = frames[i]
  BY DEF FrameDests, Tails, Joining, Dest

\* The calls are the old ones, or fewer, or one of them is f.
LEMMA FramesNew ==
  ASSUME NEW f, FramesOr(f)
  PROVE  /\ FrameDests' \subseteq FrameDests \cup Dest(f)
         /\ Tails' \subseteq Tails \cup ({f.tail} \ {0})
         /\ f.kind \notin {"and", "or"} => \A i \in Joining' : i \in Joining /\ frames'[i] = frames[i]
<1>1. ASSUME NEW i \in DOMAIN frames', NEW b \in Dest(frames'[i])
      PROVE  b \in FrameDests \cup Dest(f)
  BY <1>1 DEF FramesOr, FrameDests
<1>2. ASSUME NEW i \in DOMAIN frames', frames'[i].tail # 0
      PROVE  frames'[i].tail \in Tails \cup ({f.tail} \ {0})
  BY <1>2 DEF FramesOr, Tails
<1>3. ASSUME f.kind \notin {"and", "or"}, NEW i \in DOMAIN frames', frames'[i].kind \in {"and", "or"}
      PROVE  i \in Joining /\ frames'[i] = frames[i]
  BY <1>3 DEF FramesOr, Joining
<1>4. FrameDests' = UNION {Dest(frames'[i]) : i \in DOMAIN frames'}
  BY DEF FrameDests, Dest
<1>. QED
  BY <1>1, <1>2, <1>3, <1>4 DEF Tails, Joining

LEMMA FramesPopped ==
  ASSUME frames \in Seq(Frame), Depth > 0, frames' = SubSeq(frames, 1, Depth - 1)
  PROVE  /\ FrameDests' \subseteq FrameDests /\ Tails' \subseteq Tails
         /\ \A i \in Joining' : i \in Joining /\ frames'[i] = frames[i]
         /\ frames # <<>>
<1>1. \A i \in DOMAIN frames' : i \in DOMAIN frames /\ frames'[i] = frames[i]
  BY PopFrames
<1>2. FrameDests' = UNION {Dest(frames'[i]) : i \in DOMAIN frames'}
  BY DEF FrameDests, Dest
<1>3. frames # <<>>
  BY EmptySeq DEF Depth
<1>. QED
  BY <1>1, <1>2, <1>3 DEF FrameDests, Tails, Joining

LEMMA FramesPushed ==
  ASSUME frames \in Seq(Frame), NEW f \in Frame, frames' = Append(frames, f)
  PROVE  FramesOr(f)
  BY PushFrames DEF FramesOr

LEMMA FramesBecome ==
  ASSUME frames \in Seq(Frame), Depth > 0, NEW f \in Frame, frames' = [frames EXCEPT ![Depth] = f]
  PROVE  FramesOr(f)
  BY BecomeFrames DEF FramesOr

LEMMA TopDests ==
  ASSUME TypeOK, Depth > 0
  PROVE  Dest(Top) \subseteq FrameDests /\ {Top.tail} \ {0} \subseteq Tails /\ frames # <<>>
<1>1. Depth \in DOMAIN frames
  BY TopTyped DEF TypeOK
<1>. QED
  BY <1>1, EmptySeq DEF FrameDests, Tails, Top, TypeOK

\* A call that has no blocks yet.
LEMMA NewCall ==
  ASSUME NEW kind \in {"func", "gvar", "expr", "decl", "ret", "if.cond"}, NEW f, f = Call(kind)
  PROVE  f.kind = kind /\ Dest(f) = {} /\ f.tail = 0 /\ f.node = at
  BY DEF Call, Dest

-----------------------------------------------------------------------------
(* What each action does to the blocks. *)

\* A step that changes no block.
LEMMA NoBlocks ==
  ASSUME TypeOK, bb' = bb, cur' \in {cur} \cup FrameDests, mCurFunc' = mCurFunc, any' = any,
         frames # <<>> \/ (frames' = <<>> /\ cur' = cur),
         FrameDests' \subseteq FrameDests, Tails' \subseteq Tails \cup {cur},
         \A i \in Joining' : i \in Joining /\ frames'[i] = frames[i]
  PROVE  Plainly /\ SameCode
<1>1. Step(mCurFunc, {cur} \cup Tails, FrameDests \cup New) /\ SamePhi /\ SameCode
  BY QuietStep DEF Step
<1>. QED
  BY <1>1 DEF Plainly

LEMMA QuietActions ==
  ASSUME TypeOK,
         DropStmt \/ JumpNowhere \/ Prototype \/ LocalPrototype \/ ExprStmtEnd \/ UNCHANGED vars
  PROVE  Plainly /\ SameCode
<1>1. bb' = bb /\ cur' = cur /\ mCurFunc' = mCurFunc /\ any' = any
  BY DEF DropStmt, JumpNowhere, Prototype, LocalPrototype, ExprStmtEnd, vars
<1>2. CASE ExprStmtEnd
  <2>1. Depth > 0 /\ frames' = SubSeq(frames, 1, Depth - 1)
    BY <1>2 DEF ExprStmtEnd, InCall, Pop
  <2>. QED
    BY <1>1, <2>1, FramesPopped, NoBlocks DEF TypeOK
<1>3. CASE frames' = frames
  BY <1>1, <1>3, FramesSame, NoBlocks
<1>. QED
  BY <1>2, <1>3 DEF DropStmt, JumpNowhere, Prototype, LocalPrototype, vars

LEMMA CallWithValueDoes ==
  ASSUME TypeOK, InList, NEW kind \in {"expr", "ret", "if.cond"}, CallWithValue(kind)
  PROVE  Plainly /\ SameCode
<1>1. PICK f : f = Call(kind)
  OBVIOUS
<1>2. f \in Frame /\ f.kind = kind /\ Dest(f) = {} /\ f.tail = 0
  BY <1>1, CallTyped, NewCall DEF TypeOK, FrameKinds
<1>3. frames' = Append(frames, f) /\ bb' = bb /\ cur' = cur /\ mCurFunc' = mCurFunc /\ any' = any
  BY <1>1 DEF CallWithValue, Push
<1>4. FramesOr(f)
  BY <1>2, <1>3, FramesPushed DEF TypeOK
<1>5. frames # <<>>
  BY TopDests DEF InList
<1>. QED
  BY <1>2, <1>3, <1>4, <1>5, FramesNew, NoBlocks

LEMMA WhileBodyDoes ==
  ASSUME TypeOK, OpenBlocksAccounted, WhileBody
  PROVE  Plainly /\ SameCode
<1>1. PICK f : f = [Top EXCEPT !.kind = "while.body", !.tail = cur, !.val = val]
  OBVIOUS
<1>2. /\ Depth > 0 /\ Top.kind = "while.cond" /\ frames' = [frames EXCEPT ![Depth] = f]
      /\ bb' = bb /\ cur' = Top.body /\ mCurFunc' = mCurFunc /\ any' = any
  BY <1>1 DEF WhileBody, InCall, Become
<1>3. Top \in Frame /\ FrameOK(Top)
  BY <1>2, TopTyped, ShapeTop DEF TypeOK
<1>4. cur \in Nat
  BY BlocksAre DEF TypeOK, BlockOrNull
<1>5. /\ f \in Frame /\ f.kind = "while.body" /\ f.tail = cur
      /\ f.from = Top.from /\ f.body = Top.body /\ f.end = Top.end
  BY <1>1, <1>3, <1>4 DEF TypeOK, Frame, FrameKinds
<1>6. Dest(f) = Dest(Top) /\ Top.body \in Dest(Top)
  BY <1>2, <1>3, <1>5 DEF Dest, FrameOK
<1>7. FramesOr(f)
  BY <1>2, <1>5, FramesBecome DEF TypeOK
<1>8. /\ FrameDests' \subseteq FrameDests /\ Tails' \subseteq Tails \cup {cur}
      /\ \A i \in Joining' : i \in Joining /\ frames'[i] = frames[i]
  BY <1>2, <1>5, <1>6, <1>7, FramesNew, TopDests
<1>9. cur' \in FrameDests /\ frames # <<>>
  BY <1>2, <1>6, TopDests
<1>. QED
  BY <1>2, <1>8, <1>9, NoBlocks

\* An instruction is appended to block b.
Grows(b, i) ==
  /\ Blocks' = Blocks
  /\ \A c \in Blocks : bb'[c].code = IF c = b THEN Append(bb[c].code, i) ELSE bb[c].code

LEMMA CodeDoes ==
  ASSUME TypeOK, NEW b, NEW i \in Instr, bb' = [bb EXCEPT ![b].code = Append(@, i)],
         cur' = cur, mCurFunc' = mCurFunc, any' = any, frames # <<>>,
         FrameDests' \subseteq FrameDests, Tails' \subseteq Tails,
         \A j \in Joining' : j \in Joining /\ frames'[j] = frames[j]
  PROVE  Plainly /\ Grows(b, i)
<1>1. Step(mCurFunc, {}, {}) /\ SamePhi /\ Grows(b, i)
  BY CodeStep DEF Grows
<1>2. Step(mCurFunc, {cur} \cup Tails, FrameDests \cup New)
  BY <1>1 DEF Step
<1>. QED
  BY <1>1, <1>2 DEF Plainly

AtomInstr == [op |-> "atom", n |-> at]
AllocaInstr == [op |-> "alloca", n |-> at]
StoreInstr == [op |-> "store", n |-> Top.node]

LEMMA AtomDoes ==
  ASSUME TypeOK, OpenBlocksAccounted, Atom
  PROVE  Plainly /\ Grows(cur, AtomInstr) /\ Live
<1>1. AtomInstr \in Instr /\ bb' = [bb EXCEPT ![cur].code = Append(@, AtomInstr)]
  BY DEF Atom, Emit, AtomInstr, Instr, TypeOK
<1>2. cur' = cur /\ mCurFunc' = mCurFunc /\ any' = any /\ frames' = frames /\ InValue
  BY DEF Atom
<1>3. Live /\ frames # <<>>
  BY <1>2, TopDests DEF OpenBlocksAccounted, ValueIsLive, InValue
<1>4. PICK b, i : b = cur /\ i = AtomInstr
  OBVIOUS
<1>. HIDE DEF AtomInstr
<1>. QED
  BY <1>1, <1>2, <1>3, <1>4, FramesSame, CodeDoes

LEMMA LocalVarDeclDoes ==
  ASSUME TypeOK, LocalVarDecl
  PROVE  /\ Plainly /\ Grows(Entry, AllocaInstr) /\ InList
         /\ frames' = frames \/ \E f \in Frame : /\ f.kind = "decl" /\ f.node = at
                                                  /\ frames' = Append(frames, f)
<1>1. AllocaInstr \in Instr /\ bb' = [bb EXCEPT ![Entry].code = Append(@, AllocaInstr)]
  BY DEF LocalVarDecl, AllocaInstr, Instr, TypeOK
<1>2. cur' = cur /\ mCurFunc' = mCurFunc /\ any' = any /\ InList
  BY DEF LocalVarDecl, Stmt
<1>3. frames # <<>>
  BY <1>2, TopDests DEF InList
<1>4. PICK f : f = Call("decl")
  OBVIOUS
<1>5. f \in Frame /\ f.kind = "decl" /\ Dest(f) = {} /\ f.tail = 0 /\ f.node = at
  BY <1>4, CallTyped, NewCall DEF TypeOK, FrameKinds
<1>6. frames' = Append(frames, f) \/ frames' = frames
  BY <1>4 DEF LocalVarDecl, Push
<1>7. FramesOr(f)
  BY <1>5, <1>6, FramesPushed DEF TypeOK, FramesOr
<1>8. PICK b, i : b = Entry /\ i = AllocaInstr
  OBVIOUS
<1>. HIDE DEF AllocaInstr
<1>9. Plainly /\ Grows(b, i)
  BY <1>1, <1>2, <1>3, <1>5, <1>7, <1>8, FramesNew, CodeDoes
<1>. QED
  BY <1>2, <1>5, <1>6, <1>8, <1>9

LEMMA LocalVarInitDoes ==
  ASSUME TypeOK, OpenBlocksAccounted, LocalVarInit
  PROVE  /\ Plainly /\ Grows(cur, StoreInstr) /\ Live
         /\ Depth > 0 /\ Top.kind = "decl" /\ frames' = SubSeq(frames, 1, Depth - 1)
<1>1. /\ Depth > 0 /\ Top.kind = "decl" /\ frames' = SubSeq(frames, 1, Depth - 1)
      /\ cur' = cur /\ mCurFunc' = mCurFunc /\ any' = any
      /\ bb' = [bb EXCEPT ![cur].code = Append(@, StoreInstr)]
  BY DEF LocalVarInit, InCall, Pop, Emit, StoreInstr
<1>2. StoreInstr \in Instr
  BY <1>1, TopTyped DEF TypeOK, Frame, StoreInstr, Instr
<1>3. Live
  BY <1>1 DEF OpenBlocksAccounted, ValueIsLive, InValue, ValueKinds
<1>4. PICK b, i : b = cur /\ i = StoreInstr
  OBVIOUS
<1>. HIDE DEF StoreInstr
<1>. QED
  BY <1>1, <1>2, <1>3, <1>4, FramesPopped, CodeDoes DEF TypeOK

\* The insertion block is ended with a terminator that branches nowhere.
LEMMA RetStep ==
  ASSUME TypeOK, cur \in Blocks, NEW t \in {Ret, Exit}, bb' = Terminate(bb, cur, t)
  PROVE  Step(mCurFunc, {cur}, {}) /\ SamePhi /\ SameCode
<1>1. t \in Term /\ Targets(t) \subseteq {}
  BY Typed, OpIs
<1>2. Step(mCurFunc, {cur}, Targets(t)) /\ SamePhi /\ SameCode
  BY <1>1, EndStep
<1>. QED
  BY <1>1, <1>2 DEF Step

LEMMA ReturnStmtDoes ==
  ASSUME TypeOK, OpenBlocksAccounted, ReturnStmt
  PROVE  Plainly /\ SameCode
<1>1. /\ bb' = Terminate(bb, cur, Ret) /\ cur' = cur /\ mCurFunc' = mCurFunc /\ any' = any
      /\ \/ Depth > 0 /\ Top.kind = "ret" /\ frames' = SubSeq(frames, 1, Depth - 1)
         \/ InList /\ Live /\ frames' = frames
  BY DEF ReturnStmt, InCall, Pop, Stmt
<1>2. cur \in Blocks /\ frames # <<>>
  BY <1>1, TopDests DEF OpenBlocksAccounted, ValueIsLive, InValue, ValueKinds, Live, InList
<1>3. Step(mCurFunc, {cur}, {}) /\ SamePhi /\ SameCode
  BY <1>1, <1>2, RetStep
<1>4. Step(mCurFunc, {cur} \cup Tails, FrameDests \cup New)
  BY <1>3 DEF Step
<1>5. /\ FrameDests' \subseteq FrameDests /\ Tails' \subseteq Tails
      /\ \A i \in Joining' : i \in Joining /\ frames'[i] = frames[i]
  BY <1>1, FramesPopped, FramesSame DEF TypeOK
<1>. QED
  BY <1>1, <1>2, <1>3, <1>4, <1>5 DEF Plainly

LEMMA DeclarationEndDoes ==
  ASSUME TypeOK, OpenBlocksAccounted, FunctionEnd \/ GlobalVarEnd
  PROVE  Plainly /\ SameCode
<1>1. /\ cur' = cur /\ mCurFunc' = mCurFunc /\ any' = any
      /\ Depth > 0 /\ frames' = SubSeq(frames, 1, Depth - 1)
      /\ \/ bb' = bb
         \/ cur \in Blocks /\ bb' = Terminate(bb, cur, Exit)
         \/ Top.kind = "gvar" /\ bb' = Terminate(bb, cur, Ret)
  BY DEF FunctionEnd, GlobalVarEnd, InCall, Pop, Live
<1>2. Top.kind = "gvar" => cur \in Blocks
  BY <1>1 DEF OpenBlocksAccounted, ValueIsLive, InValue, ValueKinds, Live
<1>3. Step(mCurFunc, {cur}, {}) /\ SamePhi /\ SameCode
  <2>1. CASE bb' = bb
    <3>1. Step(mCurFunc, {}, {}) /\ SamePhi /\ SameCode
      BY <2>1, QuietStep
    <3>. QED
      BY <3>1 DEF Step
  <2>2. CASE cur \in Blocks /\ \E t \in {Exit, Ret} : bb' = Terminate(bb, cur, t)
    BY <2>2, RetStep
  <2>. QED
    BY <1>1, <1>2, <2>1, <2>2
<1>4. Step(mCurFunc, {cur} \cup Tails, FrameDests \cup New)
  BY <1>3 DEF Step
<1>. QED
  BY <1>1, <1>3, <1>4, FramesPopped DEF Plainly, TypeOK

\* A branch to e, unless the insertion block has ended.
LEMMA BranchStep ==
  ASSUME TypeOK, NEW e \in Blocks, bb' = BranchIfLive(bb, e)
  PROVE  Step(mCurFunc, {cur}, {e}) /\ SamePhi /\ SameCode
<1>1. CASE Live
  <2>1. PICK t : t = Br(e)
    OBVIOUS
  <2>2. e \in Nat
    BY BlocksAre
  <2>3. t \in Term /\ Targets(t) \subseteq {e}
    BY <2>1, <2>2, Typed, OpIs
  <2>4. cur \in Blocks /\ bb' = Terminate(bb, cur, t)
    BY <1>1, <2>1 DEF BranchIfLive, Live
  <2>5. Step(mCurFunc, {cur}, Targets(t)) /\ SamePhi /\ SameCode
    BY <2>3, <2>4, EndStep
  <2>. QED
    BY <2>3, <2>5 DEF Step
<1>2. CASE ~Live
  <2>1. Step(mCurFunc, {}, {}) /\ SamePhi /\ SameCode
    BY <1>2, QuietStep DEF BranchIfLive
  <2>. QED
    BY <2>1 DEF Step
<1>. QED
  BY <1>1, <1>2

LEMMA IfElseDoes ==
  ASSUME TypeOK, OpenBlocksAccounted, IfElse
  PROVE  Plainly /\ SameCode
<1>1. PICK e, f : e = Top.end /\ f = [Top EXCEPT !.kind = "if.else", !.tail = 0]
  OBVIOUS
<1>2. /\ Depth > 0 /\ Top.kind = "if.then" /\ frames' = [frames EXCEPT ![Depth] = f]
      /\ bb' = BranchIfLive(bb, e) /\ cur' = Top.tail /\ Top.tail # 0
      /\ mCurFunc' = mCurFunc /\ any' = any
  BY <1>1 DEF IfElse, InCall, Become
<1>3. Top \in Frame /\ FrameOK(Top)
  BY <1>2, TopTyped, ShapeTop DEF TypeOK
<1>4. f \in Frame /\ f.kind = "if.else" /\ f.tail = 0 /\ Dest(f) \subseteq Dest(Top)
  BY <1>1, <1>2, <1>3 DEF Frame, FrameKinds, Dest
<1>5. e \in Blocks /\ e \in Dest(Top) /\ Top.tail \in Dest(Top)
  BY <1>1, <1>2, <1>3 DEF FrameOK, BlockOrNull, Dest
<1>6. Step(mCurFunc, {cur}, {e}) /\ SamePhi /\ SameCode
  BY <1>2, <1>5, BranchStep
<1>7. e \in FrameDests /\ Top.tail \in FrameDests /\ Dest(f) \subseteq FrameDests /\ frames # <<>>
  BY <1>2, <1>4, <1>5, TopDests
<1>8. Step(mCurFunc, {cur} \cup Tails, FrameDests \cup New)
  BY <1>6, <1>7 DEF Step
<1>9. FramesOr(f)
  BY <1>2, <1>4, FramesBecome DEF TypeOK
<1>. QED
  BY <1>2, <1>4, <1>6, <1>7, <1>8, <1>9, FramesNew DEF Plainly

LEMMA IfEndDoes ==
  ASSUME TypeOK, OpenBlocksAccounted, IfEnd
  PROVE  Plainly /\ SameCode
<1>1. PICK e : e = Top.end
  OBVIOUS
<1>2. /\ Depth > 0 /\ Top.kind \in {"if.then", "if.else"} /\ frames' = SubSeq(frames, 1, Depth - 1)
      /\ bb' = BranchIfLive(bb, e) /\ cur' = e /\ mCurFunc' = mCurFunc /\ any' = any
  BY <1>1 DEF IfEnd, InCall, Pop
<1>3. e \in Blocks /\ e \in FrameDests /\ frames # <<>>
  <2>1. FrameOK(Top)
    BY <1>2, ShapeTop
  <2>2. e \in Blocks /\ e \in Dest(Top)
    BY <1>1, <1>2, <2>1 DEF FrameOK, BlockOrNull, Dest
  <2>. QED
    BY <1>2, <2>2, TopDests
<1>4. Step(mCurFunc, {cur}, {e}) /\ SamePhi /\ SameCode
  BY <1>2, <1>3, BranchStep
<1>5. Step(mCurFunc, {cur} \cup Tails, FrameDests \cup New)
  BY <1>3, <1>4 DEF Step
<1>. QED
  BY <1>2, <1>3, <1>4, <1>5, FramesPopped DEF Plainly, TypeOK

\* Blocks are added and the insertion block is ended with branches to them.
LEMMA SplitDoes ==
  ASSUME TypeOK, cur \in Blocks, frames # <<>>, NEW k \in Nat, NEW t \in Term,
         bb' = Terminate(Grow(k, mCurFunc), cur, t), Targets(t) \subseteq N + 1 .. N + k,
         cur' \in N + 1 .. N + k, mCurFunc' = mCurFunc,
         NEW f, FramesOr(f), f.kind \notin {"and", "or"},
         Dest(f) \subseteq N + 1 .. N + k, {f.tail} \ {0} \subseteq N + 1 .. N + k,
         DOMAIN any' = DOMAIN any,
         \A w \in DOMAIN any :
            any'[w] = any[w] \/ (w = at /\ {any'[w].cond, any'[w].end} \subseteq N + 1 .. N + k)
  PROVE  Plainly /\ SameCode
<1>1. Step(mCurFunc, {cur}, Targets(t)) /\ SamePhi /\ SameCode
  BY GrowEndStep
<1>2. New = N + 1 .. N + k
  <2>1. N \in Nat /\ Blocks = 1 .. N /\ Blocks' = 1 .. N + k
    BY GrowAndEnd
  <2>. QED
    BY <2>1 DEF New
<1>3. Step(mCurFunc, {cur} \cup Tails, FrameDests \cup New)
  BY <1>1, <1>2 DEF Step
<1>4. /\ FrameDests' \subseteq FrameDests \cup New /\ Tails' \subseteq Tails \cup {cur} \cup New
      /\ \A i \in Joining' : i \in Joining /\ frames'[i] = frames[i]
  BY <1>2, FramesNew
<1>. QED
  BY <1>1, <1>2, <1>3, <1>4 DEF Plainly

LEMMA IfThenDoes ==
  ASSUME TypeOK, OpenBlocksAccounted, IfThen
  PROVE  Plainly /\ SameCode
<1>1. PICK elseBegin, k, other :
         /\ elseBegin = IF asg.nodes[Top.node].alt = 0 THEN 0 ELSE N + 3
         /\ k = IF elseBegin = 0 THEN 2 ELSE 3
         /\ other = IF elseBegin = 0 THEN N + 2 ELSE elseBegin
  OBVIOUS
<1>2. PICK t, f : /\ t = CondBr(val, N + 1, other)
                  /\ f = [Top EXCEPT !.kind = "if.then", !.end = N + 2, !.tail = elseBegin]
  OBVIOUS
<1>3. /\ bb' = Terminate(Grow(k, mCurFunc), cur, t)
      /\ cur' = N + 1 /\ frames' = [frames EXCEPT ![Depth] = f]
      /\ mCurFunc' = mCurFunc /\ any' = any /\ Depth > 0 /\ Top.kind = "if.cond"
  BY <1>1, <1>2 DEF IfThen, InCall, Become
<1>4. cur \in Blocks /\ frames # <<>>
  BY <1>3, TopDests DEF OpenBlocksAccounted, ValueIsLive, InValue, ValueKinds, Live
<1>5. N \in Nat
  BY BlocksAre
<1>6. \/ k = 2 /\ elseBegin = 0 /\ other = N + 2
      \/ k = 3 /\ elseBegin = N + 3 /\ other = N + 3
  BY <1>1, <1>5
<1>7. t \in Term /\ Targets(t) = {N + 1, other}
  <2>1. other \in Nat /\ other # 0 /\ val \in Val
    BY <1>5, <1>6 DEF TypeOK
  <2>. QED
    BY <1>2, <1>5, <2>1, Typed, OpIs
<1>8. f \in Frame /\ f.kind = "if.then" /\ f.tail = elseBegin /\ f.end = N + 2
  <2>1. Top \in Frame
    BY <1>3, TopTyped DEF TypeOK
  <2>2. N + 2 \in Nat /\ elseBegin \in Nat /\ "if.then" \in FrameKinds
    BY <1>5, <1>6 DEF FrameKinds
  <2>. QED
    BY <1>2, <2>1, <2>2 DEF Frame
<1>0. Dest(f) = {f.end, f.tail} \ {0}
  BY <1>8 DEF Dest
<1>9. FramesOr(f)
  BY <1>3, <1>8, FramesBecome DEF TypeOK
<1>10. k \in Nat /\ {N + 1, other, N + 2, elseBegin} \ {0} \subseteq N + 1 .. N + k /\ N + 1 # 0 /\ other # 0
  BY <1>5, <1>6
<1>. QED
  BY <1>0, <1>3, <1>4, <1>7, <1>8, <1>9, <1>10, SplitDoes

LEMMA WhileBeginDoes ==
  ASSUME TypeOK, WhileBegin
  PROVE  Plainly /\ SameCode /\ any' = [any EXCEPT ![at] = [cond |-> N + 1, end |-> N + 3]]
<1>1. PICK t : t = Br(N + 1)
  OBVIOUS
<1>2. PICK f : f = [Call("while.cond") EXCEPT !.from = N + 1, !.body = N + 2, !.end = N + 3]
  OBVIOUS
<1>3. /\ bb' = Terminate(Grow(3, mCurFunc), cur, t)
      /\ cur' = N + 1 /\ frames' = Append(frames, f)
      /\ any' = [any EXCEPT ![at] = [cond |-> N + 1, end |-> N + 3]]
      /\ mCurFunc' = mCurFunc /\ cur \in Blocks /\ InList
  BY <1>1, <1>2 DEF WhileBegin, Stmt, Live, Push
<1>4. N \in Nat /\ frames # <<>>
  BY <1>3, BlocksAre, TopDests DEF InList
<1>5. t \in Term /\ Targets(t) = {N + 1}
  BY <1>1, <1>4, Typed, OpIs
<1>6. /\ f \in Frame /\ f.kind = "while.cond" /\ f.from = N + 1 /\ f.body = N + 2
      /\ f.end = N + 3 /\ f.tail = 0
  <2>1. f = [kind |-> "while.cond", node |-> at, from |-> N + 1, body |-> N + 2, end |-> N + 3,
             tail |-> 0, val |-> NoVal]
    BY <1>2 DEF Call
  <2>2. at \in Nat /\ NoVal \in Val
    BY Typed DEF TypeOK
  <2>. QED
    BY <1>4, <2>1, <2>2 DEF Frame, FrameKinds
<1>7. Dest(f) \subseteq N + 1 .. N + 3
  BY <1>4, <1>6 DEF Dest
<1>8. FramesOr(f)
  BY <1>3, <1>6, FramesPushed DEF TypeOK
<1>9. /\ DOMAIN any' = DOMAIN any
      /\ \A w \in DOMAIN any :
            any'[w] = any[w] \/ (w = at /\ {any'[w].cond, any'[w].end} \subseteq N + 1 .. N + 3)
  BY <1>3, <1>4 DEF TypeOK
<1>10. N + 1 \in N + 1 .. N + 3 /\ 3 \in Nat
  BY <1>4
<1>. QED
  BY <1>3, <1>4, <1>5, <1>6, <1>7, <1>8, <1>9, <1>10, SplitDoes

LEMMA WhileEndDoes ==
  ASSUME TypeOK, OpenBlocksAccounted, WhileEnd
  PROVE  Plainly /\ SameCode
<1>1. PICK e, l, h, t, u : /\ e = Top.end /\ l = Top.tail /\ h = Top.from
                           /\ t = CondBr(Top.val, Top.body, Top.end) /\ u = Br(Top.from)
  OBVIOUS
<1>2. PICK blocks : blocks = Terminate(bb, l, t)
  OBVIOUS
<1>3. /\ Depth > 0 /\ Top.kind = "while.body" /\ frames' = SubSeq(frames, 1, Depth - 1)
      /\ cur' = e /\ mCurFunc' = mCurFunc /\ any' = any
      /\ bb' = IF Live THEN Terminate(blocks, cur, u) ELSE blocks
  BY <1>1, <1>2 DEF WhileEnd, InCall, Pop, BranchIfLive
<1>4. /\ {e, h, Top.body} \subseteq Blocks /\ l \in Blocks
      /\ {e, h, Top.body} \subseteq FrameDests /\ l \in Tails /\ frames # <<>>
  <2>1. FrameOK(Top) /\ 0 \notin Blocks
    BY <1>3, ShapeTop, BlocksAre
  <2>2. {e, h, Top.body} \subseteq Blocks /\ l \in Blocks
    BY <1>1, <1>3, <2>1 DEF FrameOK, BlockOrNull
  <2>3. {e, h, Top.body} \subseteq Dest(Top) /\ l # 0
    BY <1>1, <1>3, <2>1, <2>2 DEF Dest
  <2>. QED
    BY <1>1, <1>3, <2>2, <2>3, TopDests
<1>5. /\ t \in Term /\ Targets(t) \subseteq {e, h, Top.body}
      /\ u \in Term /\ Targets(u) \subseteq {e, h, Top.body}
  <2>1. Top.val \in Val
    BY <1>3, TopTyped DEF TypeOK, Frame
  <2>2. \A b \in Blocks : b \in Nat
    BY BlocksAre
  <2>. QED
    BY <1>1, <1>4, <2>1, <2>2, Typed, OpIs
<1>6. bb \in Seq(Block) /\ l \in DOMAIN bb /\ DOMAIN bb = Blocks
  BY <1>4 DEF TypeOK, Blocks
<1>7. /\ blocks \in Seq(Block) /\ DOMAIN blocks = Blocks
      /\ \A c \in Blocks : /\ blocks[c].fn = bb[c].fn /\ blocks[c].phi = bb[c].phi
                           /\ blocks[c].code = bb[c].code
                           /\ blocks[c].term = IF c = l THEN t ELSE bb[c].term
  <2>1. PICK old : old = Blocks
    OBVIOUS
  <2>2. bb \in Seq(Block) /\ l \in DOMAIN bb /\ t \in Term /\ DOMAIN bb = old
    BY <1>5, <1>6, <2>1
  <2>3. /\ Terminate(bb, l, t) \in Seq(Block) /\ DOMAIN Terminate(bb, l, t) = DOMAIN bb
        /\ \A c \in DOMAIN bb : Terminate(bb, l, t)[c].term = IF c = l THEN t ELSE bb[c].term
    BY <2>2, TerminateBlocks
  <2>4. \A c \in DOMAIN bb : /\ Terminate(bb, l, t)[c].fn = bb[c].fn
                             /\ Terminate(bb, l, t)[c].phi = bb[c].phi
                             /\ Terminate(bb, l, t)[c].code = bb[c].code
    BY <2>2, TerminateFields
  <2>. QED
    BY <1>2, <2>1, <2>2, <2>3, <2>4
<1>8. /\ Blocks' = Blocks
      /\ \A c \in Blocks : /\ bb'[c].fn = blocks[c].fn /\ bb'[c].phi = blocks[c].phi
                           /\ bb'[c].code = blocks[c].code
                           /\ bb'[c].term = blocks[c].term \/ (c = cur /\ bb'[c].term = u)
  <2>1. CASE Live
    <3>1. cur \in DOMAIN blocks /\ bb' = Terminate(blocks, cur, u)
      BY <1>3, <1>7, <2>1 DEF Live
    <3>2. /\ DOMAIN Terminate(blocks, cur, u) = DOMAIN blocks
          /\ \A c \in DOMAIN blocks :
               /\ Terminate(blocks, cur, u)[c].fn = blocks[c].fn
               /\ Terminate(blocks, cur, u)[c].phi = blocks[c].phi
               /\ Terminate(blocks, cur, u)[c].code = blocks[c].code
               /\ Terminate(blocks, cur, u)[c].term = IF c = cur THEN u ELSE blocks[c].term
      BY <1>5, <1>7, <3>1, TerminateBlocks, TerminateFields
    <3>. QED
      BY <1>7, <3>1, <3>2 DEF Blocks
  <2>2. CASE ~Live
    BY <1>3, <1>7, <2>2 DEF Blocks
  <2>. QED
    BY <2>1, <2>2
<1>9. \A c \in Blocks : \/ bb'[c].term = bb[c].term
                        \/ c \in {cur, l} /\ Targets(bb'[c].term) \subseteq {e, h, Top.body}
  BY <1>5, <1>7, <1>8
<1>10. Step(mCurFunc, {cur} \cup Tails, FrameDests \cup New) /\ SamePhi /\ SameCode
  BY <1>4, <1>7, <1>8, <1>9 DEF Step, SamePhi, SameCode
<1>. QED
  BY <1>3, <1>4, <1>10, FramesPopped DEF Plainly, TypeOK

\* A jump ends the insertion block with a branch to a block of its loop.
LEMMA JumpDoes ==
  ASSUME TypeOK, Jump
  PROVE  /\ JumpTarget \in AnyDests /\ JumpTarget \in Blocks /\ asg.loop[at] \in DOMAIN any
         /\ JumpTarget \in {any[asg.loop[at]].cond, any[asg.loop[at]].end}
         /\ Step(mCurFunc, {cur}, {JumpTarget}) /\ SamePhi /\ SameCode
         /\ cur \in Blocks /\ frames # <<>> /\ at \in Jumps(asg.nodes)
         /\ UNCHANGED <<frames, cur, mCurFunc, any>>
<1>1. PICK b, t : b = JumpTarget /\ t = Br(b)
  OBVIOUS
<1>2. /\ bb' = Terminate(bb, cur, t) /\ UNCHANGED <<frames, cur, mCurFunc, any>>
      /\ at \in DOMAIN asg.nodes /\ InList /\ cur \in Blocks /\ b # 0
      /\ asg.nodes[at].kind \in JumpKinds
  BY <1>1 DEF Jump, Stmt, Visiting, Live, Token, JumpKinds
<1>3. asg.loop[at] \in DOMAIN any /\ b \in {any[asg.loop[at]].cond, any[asg.loop[at]].end}
  BY <1>1, <1>2 DEF JumpTarget, TargetIn
<1>4. b \in BlockOrNull
  BY <1>3 DEF TypeOK
<1>5. b \in Blocks /\ b \in AnyDests
  BY <1>2, <1>3, <1>4 DEF BlockOrNull, AnyDests
<1>6. t \in Term /\ Targets(t) \subseteq {b}
  BY <1>1, <1>5, BlocksAre, Typed, OpIs
<1>7. Step(mCurFunc, {cur}, Targets(t)) /\ SamePhi /\ SameCode
  BY <1>2, <1>6, EndStep
<1>8. Step(mCurFunc, {cur}, {b})
  BY <1>6, <1>7 DEF Step
<1>9. frames # <<>>
  BY <1>2, TopDests DEF InList
<1>. QED
  BY <1>1, <1>2, <1>3, <1>5, <1>7, <1>8, <1>9 DEF Jumps

\* && and ||: the block after the operator waits for its phi.
LEMMA ShortCircuitDoes ==
  ASSUME TypeOK, OpenBlocksAccounted, NEW kind \in {"and", "or"}, ShortCircuit(kind)
  PROVE  \E f \in Frame :
           /\ Step(mCurFunc, {cur}, New) /\ SamePhi /\ SameCode
           /\ f.kind = kind /\ f.from = cur /\ f.tail = 0
           /\ f.end \in New /\ f.end \in Targets(bb'[cur].term)
           /\ frames' = Append(frames, f) /\ frames # <<>>
           /\ cur \in Blocks /\ cur' \in New
           /\ UNCHANGED <<mCurFunc, any>>
<1>1. PICK t : /\ t = IF kind = "and" THEN CondBr(val, N + 2, N + 1) ELSE CondBr(val, N + 1, N + 2)
               /\ bb' = Terminate(Grow(2, mCurFunc), cur, t)
  BY DEF ShortCircuit
<1>2. PICK f : f = [Call(kind) EXCEPT !.from = cur, !.end = N + 1]
  OBVIOUS
<1>3. cur \in Blocks
  BY DEF ShortCircuit, OpenBlocksAccounted, ValueIsLive, Live
<1>4. N \in Nat
  BY BlocksAre
<1>5. t \in Term /\ Targets(t) = {N + 1, N + 2}
  BY <1>1, <1>4, Typed, OpIs DEF TypeOK
<1>6. Step(mCurFunc, {cur}, Targets(t)) /\ SamePhi /\ SameCode
  BY <1>1, <1>3, <1>5, GrowEndStep
<1>7. /\ Blocks = 1 .. N /\ Blocks' = 1 .. N + 2
      /\ \A b \in 1 .. N + 2 :
            bb'[b].term = IF b = cur THEN t ELSE IF b <= N THEN bb[b].term ELSE NoTerm
  BY <1>1, <1>3, <1>5, GrowAndEnd
<1>8. New = {N + 1, N + 2} /\ bb'[cur].term = t
  BY <1>3, <1>4, <1>7 DEF New
<1>9. Step(mCurFunc, {cur}, New)
  BY <1>5, <1>6, <1>8
<1>10. f \in Frame /\ f.kind = kind /\ f.from = cur /\ f.end = N + 1 /\ f.tail = 0
  <2>1. f = [kind |-> kind, node |-> at, from |-> cur, body |-> 0, end |-> N + 1, tail |-> 0,
             val |-> NoVal]
    BY <1>2 DEF Call
  <2>2. kind \in FrameKinds /\ at \in Nat /\ cur \in Nat /\ N + 1 \in Nat /\ NoVal \in Val
    BY <1>3, <1>4, <1>7, Typed DEF TypeOK, FrameKinds
  <2>. QED
    BY <2>1, <2>2 DEF Frame
<1>11. frames' = Append(frames, f) /\ cur' = N + 2 /\ UNCHANGED <<mCurFunc, any>> /\ frames # <<>>
  BY <1>2, TopDests DEF ShortCircuit, Push, InValue
<1>. QED
  BY <1>3, <1>5, <1>6, <1>8, <1>9, <1>10, <1>11

LEMMA ShortCircuitEndDoes ==
  ASSUME TypeOK, OpenBlocksAccounted, ShortCircuitEnd
  PROVE  /\ Depth > 0 /\ Top.kind \in {"and", "or"} /\ frames' = SubSeq(frames, 1, Depth - 1)
         /\ cur \in Blocks /\ bb[cur].term = NoTerm /\ Top.end \in Blocks /\ cur' = Top.end
         /\ Step(mCurFunc, {cur}, {Top.end}) /\ SameCode
         /\ Targets(bb'[cur].term) = {Top.end}
         /\ \A b \in Blocks : bb'[b].phi = IF b = Top.end THEN Incomings ELSE bb[b].phi
         /\ UNCHANGED <<mCurFunc, any>>
<1>1. PICK e, p, t, blocks : /\ e = Top.end /\ p = Incomings /\ t = Br(Top.end)
                             /\ blocks = Terminate(bb, cur, t)
  OBVIOUS
<1>2. /\ Depth > 0 /\ Top.kind \in {"and", "or"} /\ frames' = SubSeq(frames, 1, Depth - 1)
      /\ cur' = e /\ UNCHANGED <<mCurFunc, any>> /\ bb' = [blocks EXCEPT ![e].phi = p]
  BY <1>1 DEF ShortCircuitEnd, InCall, Pop
<1>3. cur \in Blocks /\ bb[cur].term = NoTerm
  BY <1>2 DEF OpenBlocksAccounted, ValueIsLive, InValue, ValueKinds, Live
<1>4. e \in Blocks /\ e \in Nat /\ e # 0
  <2>1. FrameOK(Top) /\ 0 \notin Blocks /\ \A b \in Blocks : b \in Nat
    BY <1>2, ShapeTop, BlocksAre
  <2>. QED
    BY <1>1, <1>2, <2>1 DEF FrameOK, BlockOrNull
<1>5. t \in Term /\ Targets(t) = {e}
  BY <1>1, <1>4, Typed, OpIs
<1>6. /\ blocks \in Seq(Block) /\ DOMAIN blocks = Blocks
      /\ \A c \in Blocks : /\ blocks[c].fn = bb[c].fn /\ blocks[c].phi = bb[c].phi
                           /\ blocks[c].code = bb[c].code
                           /\ blocks[c].term = IF c = cur THEN t ELSE bb[c].term
  <2>1. bb \in Seq(Block) /\ cur \in DOMAIN bb /\ DOMAIN bb = Blocks
    BY <1>3 DEF TypeOK, Blocks
  <2>. QED
    BY <1>1, <1>5, <2>1, TerminateBlocks, TerminateFields
<1>7. DEFINE u == [blocks[e] EXCEPT !.phi = p]
<1>8. u.fn = blocks[e].fn /\ u.phi = p /\ u.code = blocks[e].code /\ u.term = blocks[e].term
  <2>1. blocks[e] \in Block
    BY <1>4, <1>6, LenProperties, ElementOfSeq
  <2>. QED
    BY <2>1 DEF Block
<1>9. bb' = [blocks EXCEPT ![e] = u]
  BY <1>2
<1>. HIDE DEF u
<1>10. Blocks' = Blocks /\ \A c \in Blocks : bb'[c] = IF c = e THEN u ELSE blocks[c]
  <2>1. DOMAIN bb' = DOMAIN blocks /\ \A c \in DOMAIN blocks : bb'[c] = IF c = e THEN u ELSE blocks[c]
    BY <1>6, <1>9
  <2>. QED
    BY <1>6, <2>1 DEF Blocks
<1>11. \A c \in Blocks : /\ bb'[c].fn = bb[c].fn /\ bb'[c].code = bb[c].code
                         /\ bb'[c].phi = IF c = e THEN p ELSE bb[c].phi
                         /\ bb'[c].term = IF c = cur THEN t ELSE bb[c].term
  BY <1>6, <1>8, <1>10
<1>12. Step(mCurFunc, {cur}, {e}) /\ SameCode
  BY <1>5, <1>10, <1>11 DEF Step, SameCode
<1>. QED
  BY <1>1, <1>2, <1>3, <1>4, <1>5, <1>11, <1>12

LEMMA FunctionBeginDoes ==
  ASSUME TypeOK, OpenBlocksAccounted, FunctionBegin
  PROVE  /\ Step(at, {}, {}) /\ SamePhi /\ SameCode
         /\ cur' \in New /\ New = {cur'} /\ mCurFunc' = at /\ any' = any /\ frames = <<>>
         /\ at \in DOMAIN asg.nodes /\ asg.nodes[at].kind \in {"func", "gvar"}
         /\ \E f \in Frame : /\ f.kind \in {"func", "gvar"} /\ Dest(f) = {} /\ f.tail = 0
                             /\ frames' = Append(frames, f)
<1>1. PICK kind \in {"func", "gvar"} : Visiting(kind) /\ Push(Call(kind))
  BY DEF FunctionBegin
<1>2. PICK f : f = Call(kind)
  OBVIOUS
<1>3. /\ bb' = Grow(1, at) /\ cur' = N + 1 /\ frames' = Append(frames, f) /\ mCurFunc' = at
      /\ any' = any /\ at \in DOMAIN asg.nodes /\ frames = <<>> /\ asg.nodes[at].kind = kind
  BY <1>1, <1>2 DEF FunctionBegin, Visiting, Push, EnterFunction, Token
<1>4. f \in Frame /\ f.kind = kind /\ Dest(f) = {} /\ f.tail = 0
  BY <1>2, CallTyped, NewCall DEF TypeOK, FrameKinds
<1>5. /\ N \in Nat /\ Blocks = 1 .. N /\ Blocks' = 1 .. N + 1
      /\ \A b \in 1 .. N + 1 : bb'[b].term = IF b <= N THEN bb[b].term ELSE NoTerm
  <2>1. /\ N \in Nat /\ Blocks = 1 .. N /\ DOMAIN Grow(1, at) = 1 .. N + 1
        /\ \A b \in 1 .. N + 1 : Grow(1, at)[b].term = IF b <= N THEN bb[b].term ELSE NoTerm
    BY GrowBlocks DEF TypeOK
  <2>2. Blocks' = DOMAIN Grow(1, at)
    BY <1>3 DEF Blocks
  <2>. QED
    BY <1>3, <2>1, <2>2
<1>6. /\ \A b \in Blocks : bb'[b] = bb[b]
      /\ bb'[N + 1].fn = at /\ bb'[N + 1].phi = {} /\ bb'[N + 1].code = <<>>
  <2>1. N + 1 \in 1 .. N + 1 \ Blocks
    BY <1>5
  <2>. QED
    BY <1>3, <2>1, GrowFields
<1>7. Blocks' \ Blocks = {N + 1} /\ bb'[N + 1].term = NoTerm /\ Blocks \subseteq Blocks'
      /\ \A c \in Blocks : c < N + 1
  BY <1>5
<1>8. Step(at, {}, {}) /\ SamePhi /\ SameCode
  BY <1>6, <1>7 DEF Step, SamePhi, SameCode
<1>. QED
  BY <1>3, <1>4, <1>7, <1>8 DEF New

-----------------------------------------------------------------------------
(* The steps that are no different from others as far as the blocks go.       *)

Special == Jump \/ ShortCircuit("and") \/ ShortCircuit("or") \/ ShortCircuitEnd \/ FunctionBegin
WritesCode == Atom \/ LocalVarDecl \/ LocalVarInit

LEMMA NextDoes ==
  ASSUME TypeOK, OpenBlocksAccounted, [Next]_vars, ~Special
  PROVE  Plainly /\ (SameCode \/ WritesCode)
<1>1. CASE Stmt("expr") /\ CallWithValue("expr")
  BY <1>1, CallWithValueDoes DEF Stmt
<1>2. CASE Stmt("ret") /\ CallWithValue("ret")
  BY <1>2, CallWithValueDoes DEF Stmt
<1>3. CASE Stmt("if") /\ CallWithValue("if.cond")
  BY <1>3, CallWithValueDoes DEF Stmt
<1>. QED
  BY <1>1, <1>2, <1>3, QuietActions, AtomDoes, LocalVarDeclDoes, LocalVarInitDoes, ReturnStmtDoes,
     DeclarationEndDoes, IfElseDoes, IfEndDoes, IfThenDoes, WhileBeginDoes, WhileBodyDoes, WhileEndDoes
     DEF Next, ExprStmtBegin, ReturnStmtBegin, IfBegin, Special, WritesCode

LEMMA SpecialKeepsCode ==
  ASSUME TypeOK, OpenBlocksAccounted, Special
  PROVE  SameCode
  BY JumpDoes, ShortCircuitDoes, ShortCircuitEndDoes, FunctionBeginDoes DEF Special

-----------------------------------------------------------------------------
(* No code after a terminator. *)

CodeOnlyWhereLive ==
  \A b \in Blocks :
    bb[b].term # NoTerm =>
      \A k \in DOMAIN bb'[b].code \ DOMAIN bb[b].code : bb'[b].code[k].op = "alloca"

LEMMA GrowsDoes ==
  ASSUME TypeOK, NEW b, NEW i \in Instr, Grows(b, i)
  PROVE  \A c \in Blocks :
           /\ DOMAIN bb[c].code \subseteq DOMAIN bb'[c].code
           /\ \A k \in DOMAIN bb[c].code : bb'[c].code[k] = bb[c].code[k]
           /\ \A k \in DOMAIN bb'[c].code \ DOMAIN bb[c].code :
                c = b /\ bb'[c].code[k] = i /\ \A j \in DOMAIN bb[c].code : j < k
           /\ c = b => \E k \in DOMAIN bb'[c].code : bb'[c].code[k] = i
<1>. SUFFICES ASSUME NEW c \in Blocks
              PROVE  /\ DOMAIN bb[c].code \subseteq DOMAIN bb'[c].code
                     /\ \A k \in DOMAIN bb[c].code : bb'[c].code[k] = bb[c].code[k]
                     /\ \A k \in DOMAIN bb'[c].code \ DOMAIN bb[c].code :
                          c = b /\ bb'[c].code[k] = i /\ \A j \in DOMAIN bb[c].code : j < k
                     /\ c = b => \E k \in DOMAIN bb'[c].code : bb'[c].code[k] = i
  OBVIOUS
<1>. DEFINE s == bb[c].code
<1>1. s \in Seq(Instr)
  BY BlocksAre DEF Block
<1>2. bb'[c].code = IF c = b THEN Append(s, i) ELSE s
  BY DEF Grows
<1>. HIDE DEF s
<1>3. /\ Len(s) \in Nat /\ DOMAIN s = 1 .. Len(s) /\ DOMAIN Append(s, i) = 1 .. Len(s) + 1
      /\ \A k \in 1 .. Len(s) : Append(s, i)[k] = s[k]
      /\ Append(s, i)[Len(s) + 1] = i
  BY <1>1, AppendProperties, LenProperties
<1>4. Len(s) + 1 \in 1 .. Len(s) + 1 /\ \A k \in (1 .. Len(s) + 1) \ (1 .. Len(s)) : k = Len(s) + 1
  BY <1>3
<1>. QED
  BY <1>2, <1>3, <1>4 DEF s

LEMMA CodeKept ==
  ASSUME TypeOK, OpenBlocksAccounted, [Next]_vars
  PROVE  CodeOnlyWhereLive
<1>1. CASE SameCode
  BY <1>1 DEF SameCode, CodeOnlyWhereLive
<1>2. CASE Atom
  <2>1. AtomInstr \in Instr
    BY DEF AtomInstr, Instr, TypeOK
  <2>2. Grows(cur, AtomInstr) /\ Live
    BY <1>2, AtomDoes
  <2>. QED
    BY <2>1, <2>2, GrowsDoes DEF CodeOnlyWhereLive, Live
<1>3. CASE LocalVarDecl
  <2>1. AllocaInstr \in Instr
    BY DEF AllocaInstr, Instr, TypeOK
  <2>2. Grows(Entry, AllocaInstr)
    BY <1>3, LocalVarDeclDoes
  <2>. QED
    BY <2>1, <2>2, GrowsDoes DEF CodeOnlyWhereLive, AllocaInstr
<1>4. CASE LocalVarInit
  <2>1. Grows(cur, StoreInstr) /\ Live /\ Depth > 0
    BY <1>4, LocalVarInitDoes
  <2>2. StoreInstr \in Instr
    BY <2>1, TopTyped DEF TypeOK, Frame, StoreInstr, Instr
  <2>. QED
    BY <2>1, <2>2, GrowsDoes DEF CodeOnlyWhereLive, Live
<1>. QED
  BY <1>1, <1>2, <1>3, <1>4, NextDoes, SpecialKeepsCode DEF WritesCode

-----------------------------------------------------------------------------
(* Phis.  The block of an operator that is being evaluated has one predecessor,   *)
(* and neither it nor any block that has a phi can be branched to by another      *)
(* statement.                                                                     *)

Dests == FrameDests \cup AnyDests

PhiInv ==
  /\ PhisMatchPreds
  /\ \A b \in Dests : b \in Blocks /\ bb[b].phi = {} /\ \A i \in Joining : frames[i].end # b
  /\ \A i \in Joining : frames[i].end \in Blocks /\ Preds(frames[i].end) = {frames[i].from}

LEMMA PredsKept ==
  ASSUME NEW fn, NEW S, NEW T, Step(fn, S, T), Final, NEW b \in Blocks, b \notin T
  PROVE  Preds(b)' = Preds(b)
<1>1. ASSUME NEW p \in Blocks', p \notin Blocks
      PROVE  Targets(bb'[p].term) = {}
  BY <1>1, OpIs DEF Step
<1>2. ASSUME NEW p \in Blocks
      PROVE  p \in Blocks' /\ (b \in Targets(bb'[p].term) <=> b \in Targets(bb[p].term))
  BY <1>2, OpIs DEF Step, Final
<1>3. Preds(b)' = {p \in Blocks' : b \in Targets(bb'[p].term)}
  BY DEF Preds, Targets
<1>. QED
  BY <1>1, <1>2, <1>3 DEF Preds

\* A block to which the step can branch has no phi and waits for none.
LEMMA PhiKept ==
  ASSUME TypeOK, PhiInv, Final, NEW fn, NEW S, NEW T, Step(fn, S, T), T \subseteq Dests \cup New,
         SamePhi, Dests' \subseteq Dests \cup New,
         \A i \in Joining' : i \in Joining /\ frames'[i] = frames[i]
  PROVE  PhiInv'
<1>1. \A b \in New : b \notin Blocks /\ b \in Blocks' /\ bb'[b].phi = {}
  BY DEF New, Step
<1>2. Blocks \subseteq Blocks'
  BY DEF Step
<1>3. ASSUME NEW b \in Blocks', bb'[b].phi # {}
      PROVE  b \in Blocks /\ b \notin T /\ bb'[b].phi = bb[b].phi
  <2>1. b \in Blocks
    BY <1>1, <1>3 DEF New
  <2>2. bb'[b].phi = bb[b].phi
    BY <2>1 DEF SamePhi
  <2>. QED
    BY <1>1, <1>3, <2>1, <2>2 DEF PhiInv
<1>4. PhisMatchPreds'
  <2>1. SUFFICES ASSUME NEW b \in Blocks', bb'[b].phi # {}
                 PROVE  /\ {i.from : i \in bb'[b].phi} = Preds(b)'
                        /\ \A i, j \in bb'[b].phi : i.from = j.from => i = j
    BY DEF PhisMatchPreds
  <2>2. b \in Blocks /\ b \notin T /\ bb'[b].phi = bb[b].phi
    BY <1>3, <2>1
  <2>3. Preds(b)' = Preds(b)
    BY <2>2, PredsKept
  <2>. QED
    BY <2>1, <2>2, <2>3 DEF PhiInv, PhisMatchPreds
<1>5. ASSUME NEW b \in Dests'
      PROVE  b \in Blocks' /\ bb'[b].phi = {} /\ \A i \in Joining' : frames'[i].end # b
  <2>1. CASE b \in New
    BY <1>1, <2>1 DEF PhiInv
  <2>2. CASE b \in Dests
    BY <1>2, <2>2 DEF PhiInv, SamePhi
  <2>. QED
    BY <1>5, <2>1, <2>2
<1>6. ASSUME NEW i \in Joining'
      PROVE  frames'[i].end \in Blocks' /\ Preds(frames[i].end)' = {frames'[i].from}
  <2>1. PICK e : e = frames[i].end
    OBVIOUS
  <2>2. i \in Joining /\ frames'[i] = frames[i] /\ e \in Blocks /\ Preds(e) = {frames[i].from}
    BY <1>6, <2>1 DEF PhiInv
  <2>3. e \notin T
    BY <1>1, <2>1, <2>2 DEF PhiInv
  <2>4. Preds(e)' = Preds(e)
    BY <2>2, <2>3, PredsKept
  <2>5. Preds(frames[i].end)' = Preds(e)'
    BY <2>1, <2>2 DEF Preds
  <2>. QED
    BY <1>2, <2>1, <2>2, <2>4, <2>5
<1>. QED
  BY <1>4, <1>5, <1>6 DEF PhiInv

\* The blocks of the loops: the old ones, and new ones.
LEMMA AnyNew ==
  ASSUME DOMAIN any' = DOMAIN any,
         \A w \in DOMAIN any : any'[w] = any[w] \/ {any'[w].cond, any'[w].end} \subseteq New
  PROVE  AnyDests' \subseteq AnyDests \cup New
  BY DEF AnyDests

LEMMA PlainlyKeepsPhi ==
  ASSUME TypeOK, PhiInv, Final, Plainly
  PROVE  PhiInv'
<1>1. Step(mCurFunc, {cur} \cup Tails, FrameDests \cup New) /\ SamePhi
  BY DEF Plainly
<1>2. AnyDests' \subseteq AnyDests \cup New
  BY AnyNew DEF Plainly
<1>3. Dests' \subseteq Dests \cup New /\ FrameDests \cup New \subseteq Dests \cup New
  BY <1>2 DEF Plainly, Dests
<1>4. \A i \in Joining' : i \in Joining /\ frames'[i] = frames[i]
  BY DEF Plainly
<1>. QED
  BY <1>1, <1>3, <1>4, PhiKept

LEMMA AnySame ==
  ASSUME any' = any
  PROVE  AnyDests' = AnyDests
  BY DEF AnyDests

LEMMA JumpKeepsPhi ==
  ASSUME TypeOK, PhiInv, Final, Jump
  PROVE  PhiInv'
<1>1. Step(mCurFunc, {cur}, {JumpTarget}) /\ SamePhi /\ JumpTarget \in AnyDests
      /\ frames' = frames /\ any' = any
  BY JumpDoes
<1>2. PICK b : b = JumpTarget
  OBVIOUS
<1>3. Step(mCurFunc, {cur}, {b}) /\ {b} \subseteq Dests \cup New
  BY <1>1, <1>2 DEF Dests
<1>4. Dests' \subseteq Dests \cup New /\ \A i \in Joining' : i \in Joining /\ frames'[i] = frames[i]
  BY <1>1, FramesSame, AnySame DEF Dests
<1>. QED
  BY <1>1, <1>3, <1>4, PhiKept

LEMMA FunctionBeginKeepsPhi ==
  ASSUME TypeOK, OpenBlocksAccounted, PhiInv, Final, FunctionBegin
  PROVE  PhiInv'
<1>1. Step(at, {}, {}) /\ SamePhi /\ any' = any
  BY FunctionBeginDoes
<1>2. PICK f \in Frame : /\ f.kind \in {"func", "gvar"} /\ Dest(f) = {}
                         /\ frames' = Append(frames, f)
  BY FunctionBeginDoes
<1>3. FramesOr(f)
  BY <1>2, FramesPushed DEF TypeOK
<1>4. Dests' \subseteq Dests \cup New /\ \A i \in Joining' : i \in Joining /\ frames'[i] = frames[i]
  BY <1>1, <1>2, <1>3, FramesNew, AnySame DEF Dests
<1>. QED
  BY <1>1, <1>4, PhiKept

\* The block of the operator gets its first predecessor.
LEMMA ShortCircuitKeepsPhi ==
  ASSUME TypeOK, OpenBlocksAccounted, PhiInv, Final, NEW kind \in {"and", "or"}, ShortCircuit(kind)
  PROVE  PhiInv'
<1>1. PICK f \in Frame :
           /\ Step(mCurFunc, {cur}, New) /\ SamePhi
           /\ f.kind = kind /\ f.from = cur /\ f.tail = 0
           /\ f.end \in New /\ f.end \in Targets(bb'[cur].term)
           /\ frames' = Append(frames, f) /\ cur \in Blocks /\ any' = any
  BY ShortCircuitDoes
<1>2. PICK e : e = f.end
  OBVIOUS
<1>3. /\ DOMAIN frames = 1 .. Depth /\ DOMAIN frames' = 1 .. Depth + 1 /\ Depth \in Nat
      /\ \A i \in 1 .. Depth : frames'[i] = frames[i]
      /\ frames'[Depth + 1] = f
  BY <1>1, PushFrames DEF TypeOK
<1>4. \A b \in New : b \notin Blocks /\ b \in Blocks' /\ bb'[b].phi = {} /\ bb'[b].term = NoTerm
  BY <1>1 DEF New, Step
<1>5. Blocks \subseteq Blocks' /\ \A b \in Blocks : b \notin New
  BY <1>1 DEF Step, New
<1>6. \A b \in Blocks : Preds(b)' = Preds(b)
  BY <1>1, <1>5, PredsKept
<1>7. ASSUME NEW i \in Joining'
      PROVE  \/ i \in Joining /\ frames'[i] = frames[i]
             \/ frames'[i] = f
  BY <1>3, <1>7 DEF Joining
<1>8. Preds(e)' = {cur}
  <2>1. Preds(e)' = {p \in Blocks' : e \in Targets(bb'[p].term)}
    BY DEF Preds, Targets
  <2>2. ASSUME NEW p \in Blocks', p # cur
        PROVE  e \notin Targets(bb'[p].term)
    <3>1. CASE p \in Blocks
      <4>1. bb'[p].term = bb[p].term
        BY <1>1, <2>2, <3>1 DEF Step
      <4>2. Targets(bb[p].term) \subseteq Blocks
        BY <3>1 DEF OpenBlocksAccounted, TargetsExist
      <4>. QED
        BY <1>1, <1>2, <1>4, <4>1, <4>2
    <3>2. CASE p \in New
      BY <1>4, <3>2, OpIs
    <3>. QED
      BY <2>2, <3>1, <3>2 DEF New
  <2>. QED
    BY <1>1, <1>2, <1>5, <2>1, <2>2
<1>9. PhisMatchPreds'
  <2>1. SUFFICES ASSUME NEW b \in Blocks', bb'[b].phi # {}
                 PROVE  /\ {i.from : i \in bb'[b].phi} = Preds(b)'
                        /\ \A i, j \in bb'[b].phi : i.from = j.from => i = j
    BY DEF PhisMatchPreds
  <2>2. b \in Blocks /\ bb'[b].phi = bb[b].phi
    BY <1>1, <1>4, <2>1 DEF New, SamePhi
  <2>. QED
    BY <1>6, <2>1, <2>2 DEF PhiInv, PhisMatchPreds
<1>10. Dests' \subseteq Dests
  <2>1. Dest(f) = {} /\ FramesOr(f)
    BY <1>1, FramesPushed DEF Dest, TypeOK
  <2>. QED
    BY <1>1, <2>1, FramesNew, AnySame DEF Dests
<1>11. ASSUME NEW b \in Dests'
       PROVE  b \in Blocks' /\ bb'[b].phi = {} /\ \A i \in Joining' : frames'[i].end # b
  <2>1. b \in Blocks /\ bb[b].phi = {} /\ \A i \in Joining : frames[i].end # b
    BY <1>10, <1>11 DEF PhiInv
  <2>2. b # f.end
    BY <1>1, <1>4, <2>1
  <2>. QED
    BY <1>1, <1>5, <1>7, <2>1, <2>2 DEF SamePhi
<1>12. ASSUME NEW i \in Joining'
       PROVE  frames'[i].end \in Blocks' /\ Preds(frames[i].end)' = {frames'[i].from}
  <2>1. CASE frames'[i] = f
    <3>1. Preds(frames[i].end)' = Preds(e)'
      BY <1>2, <2>1 DEF Preds
    <3>. QED
      BY <1>1, <1>2, <1>4, <1>8, <2>1, <3>1
  <2>2. CASE i \in Joining /\ frames'[i] = frames[i]
    <3>1. PICK c : c = frames[i].end
      OBVIOUS
    <3>2. c \in Blocks /\ Preds(c) = {frames[i].from} /\ Preds(c)' = Preds(c)
      BY <1>6, <2>2, <3>1 DEF PhiInv
    <3>3. Preds(frames[i].end)' = Preds(c)'
      BY <2>2, <3>1 DEF Preds
    <3>. QED
      BY <1>5, <2>2, <3>1, <3>2, <3>3
  <2>. QED
    BY <1>7, <1>12, <2>1, <2>2
<1>. QED
  BY <1>9, <1>11, <1>12 DEF PhiInv

\* The block of the operator gets its second predecessor, and its phi.
LEMMA ShortCircuitEndKeepsPhi ==
  ASSUME TypeOK, OpenBlocksAccounted, PhiInv, Final, ShortCircuitEnd
  PROVE  PhiInv'
<1>1. PICK e : e = Top.end
  OBVIOUS
<1>2. /\ Depth > 0 /\ Top.kind \in {"and", "or"} /\ frames' = SubSeq(frames, 1, Depth - 1)
      /\ cur \in Blocks /\ bb[cur].term = NoTerm /\ e \in Blocks
      /\ Step(mCurFunc, {cur}, {e})
      /\ Targets(bb'[cur].term) = {e}
      /\ \A b \in Blocks : bb'[b].phi = IF b = e THEN Incomings ELSE bb[b].phi
      /\ any' = any
  BY <1>1, ShortCircuitEndDoes
<1>3. Depth \in DOMAIN frames /\ Depth \in Joining /\ frames[Depth] = Top /\ frames \in Seq(Frame)
  BY <1>2, TopTyped DEF TypeOK, Joining, Top
<1>4. /\ DOMAIN frames' = 1 .. Depth - 1 /\ Depth \in Nat
      /\ \A i \in DOMAIN frames' : i \in DOMAIN frames /\ frames'[i] = frames[i]
  BY <1>2, <1>3, PopFrames
<1>5. Preds(e) = {Top.from}
  BY <1>1, <1>3 DEF PhiInv
<1>6. Top.from \in Blocks /\ bb[Top.from].term # NoTerm /\ Top.from # cur
  BY <1>2, <1>5, OpIs DEF Preds
<1>7. Blocks \subseteq Blocks' /\ \A b \in New : b \notin Blocks /\ bb'[b].phi = {} /\ bb'[b].term = NoTerm
  BY <1>2 DEF Step, New
<1>8. Preds(e)' = {Top.from, cur}
  <2>1. Preds(e)' = {p \in Blocks' : e \in Targets(bb'[p].term)}
    BY DEF Preds, Targets
  <2>2. ASSUME NEW p \in Blocks', p # cur
        PROVE  e \in Targets(bb'[p].term) <=> p = Top.from
    <3>1. CASE p \in Blocks
      <4>1. bb'[p].term = bb[p].term
        BY <1>2, <2>2, <3>1 DEF Step
      <4>. QED
        BY <1>5, <3>1, <4>1 DEF Preds
    <3>2. CASE p \in New
      BY <1>6, <1>7, <3>2, OpIs
    <3>. QED
      BY <2>2, <3>1, <3>2 DEF New
  <2>. QED
    BY <1>2, <1>6, <1>7, <2>1, <2>2
<1>9. {i.from : i \in Incomings} = {Top.from, cur} /\ \A i, j \in Incomings : i.from = j.from => i = j
  BY <1>6 DEF Incomings
<1>10. \A b \in Blocks : b # e => Preds(b)' = Preds(b)
  BY <1>2, PredsKept
<1>11. PhisMatchPreds'
  <2>1. SUFFICES ASSUME NEW b \in Blocks', bb'[b].phi # {}
                 PROVE  /\ {i.from : i \in bb'[b].phi} = Preds(b)'
                        /\ \A i, j \in bb'[b].phi : i.from = j.from => i = j
    BY DEF PhisMatchPreds
  <2>2. b \in Blocks
    BY <1>7, <2>1 DEF New
  <2>3. CASE b = e
    <3>1. bb'[b].phi = Incomings /\ Preds(b)' = Preds(e)'
      BY <1>2, <2>2, <2>3 DEF Preds
    <3>. QED
      BY <1>8, <1>9, <3>1
  <2>4. CASE b # e
    BY <1>2, <1>10, <2>1, <2>2, <2>4 DEF PhiInv, PhisMatchPreds
  <2>. QED
    BY <2>3, <2>4
<1>12. /\ Dests' \subseteq Dests
       /\ \A i \in Joining' : i \in Joining /\ i # Depth /\ frames'[i] = frames[i]
  BY <1>2, <1>3, <1>4, FramesPopped, AnySame DEF Dests, Joining
<1>13. ASSUME NEW b \in Dests'
       PROVE  b \in Blocks' /\ bb'[b].phi = {} /\ \A i \in Joining' : frames'[i].end # b
  <2>1. b \in Blocks /\ bb[b].phi = {} /\ \A i \in Joining : frames[i].end # b
    BY <1>12, <1>13 DEF PhiInv
  <2>2. b # e
    BY <1>1, <1>3, <2>1
  <2>. QED
    BY <1>2, <1>7, <1>12, <2>1, <2>2
<1>14. ASSUME NEW i \in Joining'
       PROVE  frames'[i].end \in Blocks' /\ Preds(frames[i].end)' = {frames'[i].from}
  <2>1. PICK c : c = frames[i].end
    OBVIOUS
  <2>2. i \in Joining /\ i # Depth /\ frames'[i] = frames[i] /\ c \in Blocks /\ Preds(c) = {frames[i].from}
    BY <1>12, <1>14, <2>1 DEF PhiInv
  <2>3. c # e
    <3>1. \A k \in Joining : frames[k].end \in Pending(frames[k])
      BY BlocksAre DEF PhiInv, Pending
    <3>2. Pending(frames[i]) \cap Pending(frames[Depth]) = {}
      BY <1>3, <2>2 DEF OpenBlocksAccounted, PendingAreDistinct, Joining
    <3>. QED
      BY <1>1, <1>3, <2>1, <2>2, <3>1, <3>2
  <2>4. Preds(c)' = Preds(c)
    BY <1>10, <2>2, <2>3
  <2>5. Preds(frames[i].end)' = Preds(c)'
    BY <2>1, <2>2 DEF Preds
  <2>. QED
    BY <1>7, <2>1, <2>2, <2>4, <2>5
<1>. QED
  BY <1>11, <1>13, <1>14 DEF PhiInv

LEMMA StartPhi == Start => PhiInv
<1>. SUFFICES ASSUME Start PROVE PhiInv
  OBVIOUS
<1>1. Blocks = {} /\ DOMAIN frames = {} /\ \A w \in DOMAIN any : any[w] = [cond |-> 0, end |-> 0]
  BY DEF Start, Blocks
<1>2. Dests = {} /\ Joining = {}
  BY <1>1 DEF Dests, FrameDests, AnyDests, Joining
<1>. QED
  BY <1>1, <1>2 DEF PhiInv, PhisMatchPreds

LEMMA NextKeepsPhi ==
  ASSUME IInv, PhiInv, [Next]_vars
  PROVE  PhiInv'
<1>. TypeOK /\ OpenBlocksAccounted /\ Final
  BY NextKeeps DEF IInv
<1>1. CASE ~Special
  BY <1>1, NextDoes, PlainlyKeepsPhi
<1>2. CASE Special
  BY <1>2, JumpKeepsPhi, ShortCircuitKeepsPhi, ShortCircuitEndKeepsPhi, FunctionBeginKeepsPhi DEF Special
<1>. QED
  BY <1>1, <1>2

-----------------------------------------------------------------------------
(* Functions.  Every block that the walk keeps is of the function that it is in   *)
(* and comes after that function's entry block.                                   *)

\* m is the last function or global before token i, 0 when there is none.
LastHead(i, m) ==
  /\ m \in 0 .. i - 1
  /\ m # 0 => m \in DOMAIN asg.nodes /\ asg.nodes[m].kind \in Heads
  /\ \A h \in m + 1 .. i - 1 : h \in DOMAIN asg.nodes => asg.nodes[h].kind \notin Heads

Inside(b, fn) == b \in Blocks /\ bb[b].fn = fn /\ \E e \in Blocks : e < b /\ bb[e].fn = fn

InsideInv ==
  /\ InOneFunction(asg)
  /\ LastHead(at, mCurFunc)
  /\ frames # <<>> => cur \in Blocks /\ bb[cur].fn = mCurFunc
  /\ \A b \in FrameDests : Inside(b, mCurFunc)
  /\ \A i \in Joining : Inside(frames[i].end, mCurFunc)
  /\ \A b \in Tails : b \in Blocks /\ bb[b].fn = mCurFunc
  /\ \A w \in DOMAIN any : \A b \in {any[w].cond, any[w].end} \ {0} :
       \E m \in Nat : LastHead(w, m) /\ Inside(b, m)
  /\ \A b \in Blocks : \A t \in Targets(bb[b].term) : Inside(t, bb[b].fn)

LEMMA LastHeadSame ==
  ASSUME NEW i \in Nat, NEW j \in Nat, NEW m, NEW n, LastHead(i, m), LastHead(j, n),
         \A h \in DOMAIN asg.nodes : asg.nodes[h].kind \in Heads => (h < i <=> h < j)
  PROVE  m = n
<1>1. m \in Nat /\ n \in Nat /\ (m < i \/ m = 0)
  BY DEF LastHead
<1>2. m <= n
  <2>. SUFFICES ASSUME m > n PROVE FALSE
    BY DEF LastHead
  <2>1. m # 0 /\ m < i /\ m \in DOMAIN asg.nodes /\ asg.nodes[m].kind \in Heads
    BY DEF LastHead
  <2>2. m \in n + 1 .. j - 1
    BY <2>1 DEF LastHead
  <2>. QED
    BY <2>1, <2>2 DEF LastHead
<1>3. n <= m
  <2>. SUFFICES ASSUME n > m PROVE FALSE
    BY DEF LastHead
  <2>1. n # 0 /\ n < j /\ n \in DOMAIN asg.nodes /\ asg.nodes[n].kind \in Heads
    BY DEF LastHead
  <2>2. n \in m + 1 .. i - 1
    BY <2>1 DEF LastHead
  <2>. QED
    BY <2>1, <2>2 DEF LastHead
<1>. QED
  BY <1>2, <1>3 DEF LastHead

\* The walk is past a token that is no head, or past a whole statement.
LEMMA LastHeadKept ==
  ASSUME at \in Nat, LastHead(at, mCurFunc), asg' = asg, mCurFunc' = mCurFunc, at' \in Nat, at <= at',
         \A h \in at .. at' - 1 : h \in DOMAIN asg.nodes => asg.nodes[h].kind \notin Heads
  PROVE  LastHead(at, mCurFunc)'
<1>1. PICK m, k : m = mCurFunc /\ k = at'
  OBVIOUS
<1>2. m \in Nat /\ m <= at - 1 /\ k \in Nat
  BY <1>1 DEF LastHead
<1>3. \A h \in m + 1 .. k - 1 : h \in m + 1 .. at - 1 \/ h \in at .. k - 1
  BY <1>2
<1>4. \A h \in m + 1 .. k - 1 : h \in DOMAIN asg.nodes => asg.nodes[h].kind \notin Heads
  BY <1>1, <1>3 DEF LastHead
<1>5. m \in 0 .. k - 1
  BY <1>1, <1>2
<1>6. m # 0 => m \in DOMAIN asg.nodes /\ asg.nodes[m].kind \in Heads
  BY <1>1 DEF LastHead
<1>. QED
  BY <1>1, <1>4, <1>5, <1>6 DEF LastHead, Heads

LEMMA NextKeepsHead ==
  ASSUME TypeOK, InOneFunction(asg), LastHead(at, mCurFunc), [Next]_vars
  PROVE  asg' = asg /\ InOneFunction(asg)' /\ LastHead(at, mCurFunc)'
<1>0. asg' = asg
  BY DEF Next, vars, Advance, Atom, ShortCircuit, ShortCircuitEnd, DropStmt, ExprStmtBegin, ExprStmtEnd,
     LocalVarDecl, LocalVarInit, ReturnStmtBegin, ReturnStmt, IfBegin, IfThen, IfElse, IfEnd, WhileBegin,
     WhileBody, WhileEnd, Jump, JumpNowhere, FunctionBegin, FunctionEnd, GlobalVarEnd, Prototype,
     LocalPrototype, CallWithValue
<1>1. InOneFunction(asg)'
  BY <1>0 DEF InOneFunction
<1>2. at \in Nat
  BY DEF TypeOK
<1>3. CASE FunctionBegin
  <2>1. at' = at + 1 /\ mCurFunc' = at /\ at \in DOMAIN asg.nodes /\ asg.nodes[at].kind \in Heads
    BY <1>3 DEF FunctionBegin, Advance, EnterFunction, Visiting, Token, Heads
  <2>. QED
    BY <1>0, <1>2, <2>1 DEF LastHead
<1>4. CASE at' = at /\ mCurFunc' = mCurFunc
  BY <1>0, <1>4 DEF LastHead
<1>5. CASE DropStmt \/ (LocalPrototype /\ at' # at)
  <2>1. /\ at \in DOMAIN asg.nodes /\ asg.nodes[at].kind \in StmtKinds \cup {"proto"}
        /\ at' = asg.nodes[at].next /\ mCurFunc' = mCurFunc
    BY <1>5 DEF DropStmt, LocalPrototype, AfterStmt, Token, Visiting
  <2>2. asg.nodes[at] \in Node
    BY <2>1, TokenTyped DEF Token
  <2>3. at' \in Nat /\ at <= at' /\ \A h \in at .. at' - 1 : asg.nodes[h].kind \notin Heads
    BY <1>2, <2>1, <2>2 DEF InOneFunction, StmtsAreWhole, Node
  <2>. QED
    BY <1>0, <1>2, <2>1, <2>3, LastHeadKept
<1>6. CASE at' = at + 1 /\ mCurFunc' = mCurFunc /\ asg.nodes[at].kind \notin Heads
  BY <1>0, <1>2, <1>6, LastHeadKept
<1>7. \/ FunctionBegin \/ DropStmt \/ LocalPrototype
      \/ at' = at /\ mCurFunc' = mCurFunc
      \/ at' = at + 1 /\ mCurFunc' = mCurFunc /\ asg.nodes[at].kind \notin Heads
  BY DEF Next, vars, Advance, Atom, ShortCircuit, ShortCircuitEnd, ExprStmtBegin, ExprStmtEnd,
     LocalVarDecl, LocalVarInit, ReturnStmtBegin, ReturnStmt, IfBegin, IfThen, IfElse, IfEnd, WhileBegin,
     WhileBody, WhileEnd, Jump, JumpNowhere, FunctionEnd, GlobalVarEnd, Prototype,
     CallWithValue, Visiting, Token, Stmt, Heads
<1>8. LocalPrototype => mCurFunc' = mCurFunc
  BY DEF LocalPrototype
<1>. QED
  BY <1>0, <1>1, <1>3, <1>4, <1>5, <1>6, <1>7, <1>8

LEMMA InsideKept ==
  ASSUME TypeOK, InsideInv, asg' = asg, InOneFunction(asg)', LastHead(at, mCurFunc)',
         mCurFunc' = mCurFunc, frames # <<>> \/ New = {},
         NEW S, NEW T, Step(mCurFunc, S, T),
         \A b \in S : b \in Blocks => bb[b].fn = mCurFunc,
         \A b \in T : b \in New \/ Inside(b, mCurFunc),
         frames' # <<>> => cur' \in New \/ (cur' \in Blocks /\ bb[cur'].fn = mCurFunc),
         FrameDests' \subseteq FrameDests \cup New,
         \A b \in Tails' : b \in New \/ (b \in Blocks /\ bb[b].fn = mCurFunc),
         \A i \in Joining' : frames'[i].end \in New \/ Inside(frames'[i].end, mCurFunc),
         DOMAIN any' = DOMAIN any,
         \A w \in DOMAIN any : any'[w] = any[w] \/ (w = at /\ {any'[w].cond, any'[w].end} \subseteq New)
  PROVE  InsideInv'
<1>. DEFINE In(b, fn) == b \in Blocks' /\ bb'[b].fn = fn /\ \E e \in Blocks' : e < b /\ bb'[e].fn = fn
<1>1. Blocks \subseteq Blocks' /\ \A b \in Blocks : bb'[b].fn = bb[b].fn
  BY DEF Step
<1>2. ASSUME NEW b, NEW fn, Inside(b, fn)
      PROVE  In(b, fn)
  BY <1>1, <1>2 DEF Inside
<1>3. ASSUME NEW b \in New
      PROVE  b \in Blocks' /\ bb'[b].fn = mCurFunc /\ bb'[b].term = NoTerm /\ In(b, mCurFunc)
  <2>1. b \in Blocks' /\ bb'[b].fn = mCurFunc /\ bb'[b].term = NoTerm /\ \A c \in Blocks : c < b
    BY <1>3 DEF Step, New
  <2>2. cur \in Blocks /\ bb[cur].fn = mCurFunc
    BY <1>3 DEF InsideInv
  <2>. QED
    BY <1>1, <2>1, <2>2
<1>4. \A b : b \in New \/ Inside(b, mCurFunc) => In(b, mCurFunc)
  BY <1>2, <1>3
<1>5. \A b \in FrameDests' : In(b, mCurFunc)
  BY <1>4 DEF InsideInv
<1>6. \A i \in Joining' : In(frames'[i].end, mCurFunc)
  BY <1>4
<1>7. \A b \in Tails' : b \in Blocks' /\ bb'[b].fn = mCurFunc
  BY <1>1, <1>3
<1>8. frames' # <<>> => cur' \in Blocks' /\ bb'[cur'].fn = mCurFunc
  BY <1>1, <1>3
<1>9. ASSUME NEW w \in DOMAIN any, NEW b \in {any'[w].cond, any'[w].end} \ {0}
      PROVE  \E m \in Nat : LastHead(w, m) /\ In(b, m)
  <2>1. CASE any'[w] = any[w]
    <3>1. b \in {any[w].cond, any[w].end} \ {0}
      BY <1>9, <2>1
    <3>2. PICK m \in Nat : LastHead(w, m) /\ Inside(b, m)
      BY <3>1 DEF InsideInv
    <3>3. In(b, m)
      BY <1>2, <3>2
    <3>. HIDE DEF In
    <3>. QED
      BY <3>2, <3>3
  <2>2. CASE w = at /\ b \in New
    <3>1. LastHead(at, mCurFunc) /\ mCurFunc \in Nat
      BY DEF InsideInv, TypeOK
    <3>. QED
      BY <1>3, <2>2, <3>1
  <2>. QED
    BY <1>9, <2>1, <2>2
<1>10. ASSUME NEW b \in Blocks', NEW t \in Targets(bb'[b].term)
       PROVE  In(t, bb'[b].fn)
  <2>1. CASE b \in New
    BY <1>3, <1>10, <2>1, OpIs
  <2>2. CASE b \in Blocks /\ bb'[b].term = bb[b].term
    <3>1. Inside(t, bb[b].fn)
      BY <1>10, <2>2 DEF InsideInv
    <3>. QED
      BY <1>1, <1>2, <2>2, <3>1
  <2>3. CASE b \in Blocks /\ b \in S /\ Targets(bb'[b].term) \subseteq T
    <3>1. bb'[b].fn = mCurFunc
      BY <1>1, <2>3
    <3>. QED
      BY <1>4, <1>10, <2>3, <3>1
  <2>. QED
    BY <1>10, <2>1, <2>2, <2>3 DEF New, Step
<1>11. \A w, m : LastHead(w, m)' <=> LastHead(w, m)
  BY DEF LastHead
<1>. HIDE DEF In
<1>12. \A b, fn : In(b, fn) => Inside(b, fn)'
  BY DEF In, Inside
<1>13. /\ \A b \in FrameDests' : Inside(b, mCurFunc)'
       /\ \A i \in Joining' : Inside(frames[i].end, mCurFunc)'
  BY <1>5, <1>6 DEF In, Inside
<1>14. \A w \in DOMAIN any' : \A b \in {any'[w].cond, any'[w].end} \ {0} :
         \E m \in Nat : LastHead(w, m)' /\ Inside(b, m)'
  BY <1>9, <1>11, <1>12 DEF LastHead
<1>15. \A b \in Blocks' : \A t \in Targets(bb'[b].term) : Inside(t, bb[b].fn)'
  BY <1>10 DEF In, Inside
<1>. QED
  BY <1>7, <1>8, <1>13, <1>14, <1>15 DEF InsideInv, Targets

\* The first block of a function is entered when no call is in progress.
LEMMA PlainlyKeepsInside ==
  ASSUME TypeOK, InsideInv, Plainly, asg' = asg, InOneFunction(asg)', LastHead(at, mCurFunc)'
  PROVE  InsideInv'
<1>1. /\ Step(mCurFunc, {cur} \cup Tails, FrameDests \cup New) /\ mCurFunc' = mCurFunc
      /\ cur' \in {cur} \cup FrameDests \cup New
      /\ frames # <<>> \/ (frames' = <<>> /\ bb' = bb)
      /\ FrameDests' \subseteq FrameDests \cup New /\ Tails' \subseteq Tails \cup {cur} \cup New
      /\ \A i \in Joining' : i \in Joining /\ frames'[i] = frames[i]
      /\ DOMAIN any' = DOMAIN any
      /\ \A w \in DOMAIN any : any'[w] = any[w] \/ (w = at /\ {any'[w].cond, any'[w].end} \subseteq New)
  BY DEF Plainly
<1>2. bb' = bb => New = {}
  BY DEF New, Blocks
<1>3. \A b \in FrameDests : Inside(b, mCurFunc) /\ b \in Blocks /\ bb[b].fn = mCurFunc
  BY DEF InsideInv, Inside
<1>4. \A i \in Joining : Inside(frames[i].end, mCurFunc)
  BY DEF InsideInv
<1>5. \A b \in Tails : b \in Blocks /\ bb[b].fn = mCurFunc
  BY DEF InsideInv
<1>6. frames # <<>> => cur \in Blocks /\ bb[cur].fn = mCurFunc
  BY DEF InsideInv
<1>7. CASE frames # <<>>
  BY <1>1, <1>3, <1>4, <1>5, <1>6, <1>7, InsideKept
<1>8. CASE frames = <<>>
  <2>1. frames' = <<>> /\ New = {} /\ Tails = {} /\ Tails' = {} /\ FrameDests = {}
    BY <1>1, <1>2, <1>8 DEF Tails, FrameDests
  <2>2. Step(mCurFunc, {}, {})
    BY <1>1, <1>8, QuietStep
  <2>. QED
    BY <1>1, <1>4, <2>1, <2>2, InsideKept
<1>. QED
  BY <1>7, <1>8

LEMMA JumpKeepsInside ==
  ASSUME TypeOK, InsideInv, Jump, asg' = asg, InOneFunction(asg)', LastHead(at, mCurFunc)'
  PROVE  InsideInv'
<1>1. PICK b, l : b = JumpTarget /\ l = asg.loop[at]
  OBVIOUS
<1>2. /\ b \in Blocks /\ l \in DOMAIN any /\ b \in {any[l].cond, any[l].end}
      /\ Step(mCurFunc, {cur}, {b}) /\ cur \in Blocks /\ frames # <<>> /\ at \in Jumps(asg.nodes)
      /\ UNCHANGED <<frames, cur, mCurFunc, any>>
  BY <1>1, JumpDoes
<1>3. DOMAIN any = 1 .. Len(asg.nodes) /\ at \in Nat /\ 0 \notin Blocks
  BY BlocksAre, LenProperties DEF TypeOK
<1>4. PICK m \in Nat : LastHead(l, m) /\ Inside(b, m)
  BY <1>2, <1>3 DEF InsideInv
<1>5. l \in Nat /\ l # 0
  BY <1>2, <1>3
<1>6. \A h \in DOMAIN asg.nodes : asg.nodes[h].kind \in Heads => (h < at <=> h < l)
  BY <1>1, <1>2, <1>5 DEF InsideInv, InOneFunction
<1>7. m = mCurFunc
  BY <1>3, <1>4, <1>5, <1>6, LastHeadSame DEF InsideInv
<1>8. Inside(b, mCurFunc)
  BY <1>4, <1>7
<1>9. /\ FrameDests' = FrameDests /\ Tails' = Tails
      /\ \A i \in Joining' : i \in Joining /\ frames'[i] = frames[i]
  BY <1>2, FramesSame
<1>10. /\ \A i \in Joining : Inside(frames[i].end, mCurFunc)
       /\ \A c \in Tails : c \in Blocks /\ bb[c].fn = mCurFunc
       /\ bb[cur].fn = mCurFunc
  BY <1>2 DEF InsideInv
<1>. QED
  BY <1>2, <1>8, <1>9, <1>10, InsideKept

LEMMA ShortCircuitKeepsInside ==
  ASSUME TypeOK, OpenBlocksAccounted, InsideInv, ShortCircuit("and") \/ ShortCircuit("or"),
         asg' = asg, InOneFunction(asg)', LastHead(at, mCurFunc)'
  PROVE  InsideInv'
<1>1. PICK f \in Frame :
         /\ Step(mCurFunc, {cur}, New) /\ f.kind \in {"and", "or"} /\ f.tail = 0 /\ f.end \in New
         /\ frames' = Append(frames, f) /\ frames # <<>> /\ cur \in Blocks /\ cur' \in New
         /\ UNCHANGED <<mCurFunc, any>>
  BY ShortCircuitDoes
<1>2. Dest(f) = {} /\ FramesOr(f)
  BY <1>1, FramesPushed DEF Dest, TypeOK
<1>3. FrameDests' \subseteq FrameDests /\ Tails' \subseteq Tails
  BY <1>1, <1>2, FramesNew
<1>4. \A i \in Joining' : frames'[i] = f \/ (i \in Joining /\ frames'[i] = frames[i])
  BY <1>2 DEF FramesOr, Joining
<1>5. /\ \A i \in Joining : Inside(frames[i].end, mCurFunc)
      /\ \A c \in Tails : c \in Blocks /\ bb[c].fn = mCurFunc
      /\ bb[cur].fn = mCurFunc
  BY <1>1 DEF InsideInv
<1>. QED
  BY <1>1, <1>3, <1>4, <1>5, InsideKept

LEMMA ShortCircuitEndKeepsInside ==
  ASSUME TypeOK, OpenBlocksAccounted, InsideInv, ShortCircuitEnd,
         asg' = asg, InOneFunction(asg)', LastHead(at, mCurFunc)'
  PROVE  InsideInv'
<1>1. PICK e : e = Top.end
  OBVIOUS
<1>2. /\ Depth > 0 /\ Top.kind \in {"and", "or"} /\ frames' = SubSeq(frames, 1, Depth - 1)
      /\ cur \in Blocks /\ e \in Blocks /\ cur' = e
      /\ Step(mCurFunc, {cur}, {e}) /\ UNCHANGED <<mCurFunc, any>>
  BY <1>1, ShortCircuitEndDoes
<1>3. Depth \in Joining /\ frames[Depth] = Top /\ frames \in Seq(Frame)
  BY <1>2, TopTyped DEF TypeOK, Joining, Top
<1>4. /\ FrameDests' \subseteq FrameDests /\ Tails' \subseteq Tails /\ frames # <<>>
      /\ \A i \in Joining' : i \in Joining /\ frames'[i] = frames[i]
  BY <1>2, <1>3, FramesPopped
<1>5. /\ \A i \in Joining : Inside(frames[i].end, mCurFunc)
      /\ \A c \in Tails : c \in Blocks /\ bb[c].fn = mCurFunc
      /\ bb[cur].fn = mCurFunc
  BY <1>4 DEF InsideInv
<1>6. Inside(e, mCurFunc) /\ bb[e].fn = mCurFunc
  BY <1>1, <1>3, <1>5 DEF Inside
<1>7. /\ \A i \in Joining' : Inside(frames'[i].end, mCurFunc)
      /\ \A b \in {cur} : b \in Blocks => bb[b].fn = mCurFunc
      /\ \A b \in {e} : Inside(b, mCurFunc)
      /\ \A b \in Tails' : b \in Blocks /\ bb[b].fn = mCurFunc
      /\ cur' \in Blocks /\ bb[cur'].fn = mCurFunc
  BY <1>2, <1>4, <1>5, <1>6
<1>8. PICK S, T : S = {cur} /\ T = {e}
  OBVIOUS
<1>9. /\ Step(mCurFunc, S, T) /\ \A b \in S : b \in Blocks => bb[b].fn = mCurFunc
      /\ \A b \in T : Inside(b, mCurFunc)
      /\ FrameDests' \subseteq FrameDests \cup New /\ any' = any /\ mCurFunc' = mCurFunc
  BY <1>2, <1>4, <1>7, <1>8
<1>. QED
  BY <1>4, <1>7, <1>9, InsideKept

\* A new function: no call is in progress, and what the loops keep is of the old ones.
LEMMA FunctionBeginKeepsInside ==
  ASSUME TypeOK, OpenBlocksAccounted, InsideInv, FunctionBegin,
         asg' = asg, InOneFunction(asg)', LastHead(at, mCurFunc)'
  PROVE  InsideInv'
<1>1. /\ Step(at, {}, {}) /\ cur' \in New /\ mCurFunc' = at /\ any' = any /\ frames = <<>>
      /\ at \in DOMAIN asg.nodes /\ asg.nodes[at].kind \in {"func", "gvar"}
  BY FunctionBeginDoes
<1>2. PICK f \in Frame : /\ f.kind \in {"func", "gvar"} /\ Dest(f) = {} /\ f.tail = 0
                         /\ frames' = Append(frames, f)
  BY FunctionBeginDoes
<1>3. FramesOr(f)
  BY <1>2, FramesPushed DEF TypeOK
<1>4. FrameDests = {} /\ Tails = {} /\ Joining = {}
  BY <1>1 DEF FrameDests, Tails, Joining
<1>5. FrameDests' = {} /\ Tails' = {} /\ Joining' = {}
  <2>1. \A i \in Joining' : i \in Joining
    BY <1>2, <1>3, FramesNew
  <2>. QED
    BY <1>2, <1>3, <1>4, <2>1, FramesNew
<1>6. Blocks \subseteq Blocks' /\ \A b \in Blocks : bb'[b].fn = bb[b].fn
      /\ \/ bb'[b].term = bb[b].term
         \/ b \in {} /\ Targets(bb'[b].term) \subseteq {}
  BY <1>1 DEF Step
<1>7. cur' \in Blocks' /\ bb'[cur'].fn = mCurFunc'
  BY <1>1 DEF Step, New
<1>8. \A b, fn : Inside(b, fn) => Inside(b, fn)'
  BY <1>6 DEF Inside
<1>9. \A w, m : LastHead(w, m)' <=> LastHead(w, m)
  BY DEF LastHead
<1>10. ASSUME NEW w \in DOMAIN any', NEW b \in {any'[w].cond, any'[w].end} \ {0}
       PROVE  \E m \in Nat : LastHead(w, m)' /\ Inside(b, m)'
  <2>1. PICK m \in Nat : LastHead(w, m) /\ Inside(b, m)
    BY <1>1, <1>10 DEF InsideInv
  <2>. QED
    BY <1>8, <1>9, <2>1
<1>11. ASSUME NEW b \in Blocks', NEW t \in Targets(bb'[b].term)
       PROVE  Inside(t, bb[b].fn)'
  <2>1. CASE b \in Blocks
    <3>1. bb'[b].term = bb[b].term /\ bb'[b].fn = bb[b].fn
      BY <1>6, <2>1
    <3>2. PICK fn : fn = bb[b].fn
      OBVIOUS
    <3>3. Inside(t, fn)
      BY <1>11, <2>1, <3>1, <3>2 DEF InsideInv
    <3>4. Inside(t, fn)'
      BY <1>8, <3>3
    <3>. QED
      BY <3>1, <3>2, <3>4 DEF Inside
  <2>2. CASE b \notin Blocks
    <3>1. bb'[b].term = NoTerm
      BY <1>1, <1>11, <2>2 DEF Step
    <3>. QED
      BY <1>11, <3>1, OpIs
  <2>. QED
    BY <2>1, <2>2
<1>. QED
  BY <1>5, <1>7, <1>10, <1>11 DEF InsideInv, Targets

LEMMA StartInside == IsAsg(asg) /\ Start => InsideInv
<1>. SUFFICES ASSUME IsAsg(asg), Start PROVE InsideInv
  OBVIOUS
<1>1. /\ at = 1 /\ frames = <<>> /\ mCurFunc = 0 /\ Blocks = {} /\ DOMAIN frames = {}
      /\ \A w \in DOMAIN any : any[w] = [cond |-> 0, end |-> 0]
  BY DEF Start, Blocks
<1>2. InOneFunction(asg)
  BY DEF IsAsg
<1>3. LastHead(at, mCurFunc)
  BY <1>1 DEF LastHead
<1>4. FrameDests = {} /\ Tails = {} /\ Joining = {}
  BY <1>1 DEF FrameDests, Tails, Joining
<1>. QED
  BY <1>1, <1>2, <1>3, <1>4 DEF InsideInv

LEMMA NextKeepsInside ==
  ASSUME IInv, InsideInv, [Next]_vars
  PROVE  InsideInv'
<1>. TypeOK /\ OpenBlocksAccounted
  BY DEF IInv
<1>1. asg' = asg /\ InOneFunction(asg)' /\ LastHead(at, mCurFunc)'
  BY NextKeepsHead DEF InsideInv
<1>2. CASE ~Special
  BY <1>1, <1>2, NextDoes, PlainlyKeepsInside
<1>3. CASE Special
  BY <1>1, <1>3, JumpKeepsInside, ShortCircuitKeepsInside, ShortCircuitEndKeepsInside,
     FunctionBeginKeepsInside DEF Special
<1>. QED
  BY <1>2, <1>3

\* A branch goes to a block of its own function that is not the entry block.
LEMMA InsideImplies ==
  ASSUME TypeOK, InsideInv
  PROVE  BranchesStayInside
<1>1. \A e, t \in Blocks : e < t => e \in 1 .. t - 1
  BY BlocksAre
<1>2. ASSUME NEW b \in Blocks, NEW t \in Targets(bb[b].term)
      PROVE  bb[t].fn = bb[b].fn /\ \E e \in 1 .. t - 1 : bb[e].fn = bb[b].fn
  <2>1. Inside(t, bb[b].fn)
    BY <1>2 DEF InsideInv
  <2>. QED
    BY <1>1, <2>1 DEF Inside
<1>. QED
  BY <1>2 DEF BranchesStayInside

-----------------------------------------------------------------------------
(* Allocas.  The declaration in progress has its alloca in the entry block of     *)
(* its function, and every block of a function has an entry block before it.      *)

IsEntry(e, fn) == e \in Blocks /\ bb[e].fn = fn /\ \A c \in Blocks : bb[c].fn = fn => e <= c

HasAlloca(n, fn) ==
  \E e \in Blocks : IsEntry(e, fn) /\ \E j \in DOMAIN bb[e].code :
                                        bb[e].code[j] = [op |-> "alloca", n |-> n]

AllocaInv ==
  /\ \A b \in Blocks : \E e \in Blocks : IsEntry(e, bb[b].fn)
  /\ \A i \in DOMAIN frames : frames[i].kind = "decl" => HasAlloca(frames[i].node, mCurFunc)
  /\ AllocaBeforeStore

CodeGrows ==
  \A c \in Blocks : /\ DOMAIN bb[c].code \subseteq DOMAIN bb'[c].code
                    /\ \A k \in DOMAIN bb[c].code : bb'[c].code[k] = bb[c].code[k]

\* What every step does.
Steps ==
  \E fn, S, T : Step(fn, S, T) /\ (New = {} \/ (\E b \in Blocks : bb[b].fn = fn) \/ New = {cur'})

LEMMA NextSteps ==
  ASSUME IInv, InsideInv, [Next]_vars
  PROVE  Steps
<1>. TypeOK /\ OpenBlocksAccounted
  BY DEF IInv
<1>1. frames # <<>> => \E b \in Blocks : bb[b].fn = mCurFunc
  BY DEF InsideInv
<1>2. CASE ~Special
  <2>1. /\ Step(mCurFunc, {cur} \cup Tails, FrameDests \cup New)
        /\ frames # <<>> \/ bb' = bb
    BY <1>2, NextDoes DEF Plainly
  <2>2. bb' = bb => New = {}
    BY DEF New, Blocks
  <2>. QED
    BY <1>1, <2>1, <2>2 DEF Steps
<1>3. CASE Jump
  <2>1. Step(mCurFunc, {cur}, {JumpTarget}) /\ frames # <<>>
    BY <1>3, JumpDoes
  <2>. QED
    BY <1>1, <2>1 DEF Steps
<1>4. CASE ShortCircuit("and") \/ ShortCircuit("or")
  <2>1. Step(mCurFunc, {cur}, New) /\ frames # <<>>
    BY <1>4, ShortCircuitDoes
  <2>. QED
    BY <1>1, <2>1 DEF Steps
<1>5. CASE ShortCircuitEnd
  <2>1. Step(mCurFunc, {cur}, {Top.end}) /\ Depth > 0
    BY <1>5, ShortCircuitEndDoes
  <2>2. frames # <<>>
    BY <2>1, TopDests
  <2>. QED
    BY <1>1, <2>1, <2>2 DEF Steps
<1>6. CASE FunctionBegin
  <2>1. Step(at, {}, {}) /\ New = {cur'}
    BY <1>6, FunctionBeginDoes
  <2>. QED
    BY <2>1 DEF Steps
<1>. QED
  BY <1>2, <1>3, <1>4, <1>5, <1>6 DEF Special

\* A step adds blocks after the others, so an entry block remains one.
LEMMA EntryKept ==
  ASSUME TypeOK, TypeOK', NEW fn, NEW S, NEW T, Step(fn, S, T), NEW e, NEW g, IsEntry(e, g)
  PROVE  IsEntry(e, g)' /\ e \in Blocks' /\ bb'[e].fn = g
<1>1. Blocks \subseteq Blocks' /\ \A b \in Blocks : bb'[b].fn = bb[b].fn /\ b \in Nat
  BY BlocksAre DEF Step
<1>2. e \in Blocks
  BY DEF IsEntry
<1>3. ASSUME NEW c \in Blocks', bb'[c].fn = g
      PROVE  e <= c
  <2>1. CASE c \in Blocks
    BY <1>1, <1>3, <2>1 DEF IsEntry
  <2>2. CASE c \notin Blocks
    <3>1. e < c
      BY <1>2, <1>3, <2>2 DEF Step
    <3>2. bb' \in Seq(Block) /\ Blocks' = DOMAIN bb'
      BY DEF TypeOK, Blocks
    <3>3. e \in Nat /\ c \in Nat
      BY <1>1, <1>2, <3>2, LenProperties
    <3>. QED
      BY <3>1, <3>3
  <2>. QED
    BY <2>1, <2>2
<1>. QED
  BY <1>1, <1>2, <1>3 DEF IsEntry

LEMMA EntriesKept ==
  ASSUME TypeOK, TypeOK', Steps, AllocaInv, NEW b \in Blocks'
  PROVE  \E e \in Blocks' : IsEntry(e, bb[b].fn)'
<1>1. PICK fn, S, T : /\ Step(fn, S, T)
                      /\ New = {} \/ (\E c \in Blocks : bb[c].fn = fn) \/ New = {cur'}
  BY DEF Steps
<1>2. Blocks \subseteq Blocks' /\ (\A c \in Blocks : bb'[c].fn = bb[c].fn) /\ \A c \in New : bb'[c].fn = fn
  BY <1>1 DEF Step, New
<1>3. PICK g : g = bb'[b].fn
  OBVIOUS
<1>4. CASE \E c \in Blocks : bb[c].fn = g
  <2>1. PICK e \in Blocks : IsEntry(e, g)
    BY <1>4 DEF AllocaInv
  <2>. QED
    BY <1>1, <1>3, <2>1, EntryKept DEF IsEntry
<1>5. CASE ~ \E c \in Blocks : bb[c].fn = g
  <2>1. b \in New /\ New = {b}
    BY <1>1, <1>2, <1>3, <1>5 DEF New
  <2>2. \A c \in Blocks' : bb'[c].fn = g => c = b
    BY <1>2, <1>5, <2>1 DEF New
  <2>3. b <= b
    BY BlocksAre DEF TypeOK, Blocks
  <2>. QED
    BY <1>3, <2>2, <2>3 DEF IsEntry
<1>. QED
  BY <1>4, <1>5

LEMMA AllocaKept ==
  ASSUME TypeOK, TypeOK', Steps, CodeGrows, NEW n, NEW g, HasAlloca(n, g)
  PROVE  HasAlloca(n, g)'
<1>1. PICK fn, S, T : Step(fn, S, T)
  BY DEF Steps
<1>2. PICK e \in Blocks : /\ IsEntry(e, g)
                          /\ \E j \in DOMAIN bb[e].code : bb[e].code[j] = [op |-> "alloca", n |-> n]
  BY DEF HasAlloca
<1>3. IsEntry(e, g)' /\ e \in Blocks'
  BY <1>1, <1>2, EntryKept
<1>4. \E j \in DOMAIN bb'[e].code : bb'[e].code[j] = [op |-> "alloca", n |-> n]
  BY <1>2 DEF CodeGrows
<1>. QED
  BY <1>3, <1>4 DEF HasAlloca

\* The store that is number k of block b comes after the alloca.
Preceded(b, k) ==
  \E e \in 1 .. b : /\ bb[e].fn = bb[b].fn
                    /\ \A c \in 1 .. e - 1 : bb[c].fn # bb[e].fn
                    /\ \E j \in DOMAIN bb[e].code :
                         /\ bb[e].code[j] = [op |-> "alloca", n |-> bb[b].code[k].n]
                         /\ e = b => j < k

LEMMA StoresPreceded ==
  ASSUME AllocaBeforeStore, NEW b \in Blocks, NEW k \in DOMAIN bb[b].code, bb[b].code[k].op = "store"
  PROVE  Preceded(b, k)
  BY DEF AllocaBeforeStore, Preceded

LEMMA PrecededKept ==
  ASSUME TypeOK, Steps, CodeGrows, NEW b \in Blocks, NEW k \in DOMAIN bb[b].code, Preceded(b, k)
  PROVE  Preceded(b, k)'
<1>1. PICK fn, S, T : Step(fn, S, T)
  BY DEF Steps
<1>2. PICK e \in 1 .. b : /\ bb[e].fn = bb[b].fn
                          /\ \A c \in 1 .. e - 1 : bb[c].fn # bb[e].fn
                          /\ \E j \in DOMAIN bb[e].code :
                               /\ bb[e].code[j] = [op |-> "alloca", n |-> bb[b].code[k].n]
                               /\ e = b => j < k
  BY DEF Preceded
<1>3. \A c \in 1 .. e : c \in Blocks
  BY BlocksAre
<1>4. \A c \in 1 .. e : bb'[c].fn = bb[c].fn
  BY <1>1, <1>3 DEF Step
<1>5. e \in 1 .. e /\ \A c \in 1 .. e - 1 : c \in 1 .. e
  BY <1>2, BlocksAre
<1>6. bb'[b].fn = bb[b].fn /\ bb'[b].code[k] = bb[b].code[k]
  BY <1>1 DEF Step, CodeGrows
<1>7. \E j \in DOMAIN bb'[e].code : /\ bb'[e].code[j] = [op |-> "alloca", n |-> bb'[b].code[k].n]
                                    /\ e = b => j < k
  BY <1>2, <1>3, <1>5, <1>6 DEF CodeGrows
<1>. QED
  BY <1>2, <1>4, <1>5, <1>6, <1>7 DEF Preceded

\* The stores of the blocks after a step are old ones, or the one of LocalVarInit.
OldStore(b, k) == b \in Blocks /\ k \in DOMAIN bb[b].code /\ bb'[b].code[k] = bb[b].code[k]

LEMMA CodeNext ==
  ASSUME IInv, InsideInv, [Next]_vars
  PROVE  /\ CodeGrows
         /\ ~LocalVarInit => \A b \in Blocks' : \A k \in DOMAIN bb'[b].code :
                               bb'[b].code[k].op = "store" => OldStore(b, k)
<1>. TypeOK /\ OpenBlocksAccounted /\ Steps
  BY NextSteps DEF IInv
<1>1. \A b \in Blocks' \ Blocks : DOMAIN bb'[b].code = {}
  BY DEF Steps, Step
<1>2. CASE SameCode
  BY <1>1, <1>2 DEF SameCode, CodeGrows, OldStore
<1>3. ASSUME NEW b, NEW i \in Instr, Grows(b, i), i.op # "store" \/ LocalVarInit
      PROVE  /\ CodeGrows
             /\ ~LocalVarInit => \A c \in Blocks' : \A k \in DOMAIN bb'[c].code :
                                   bb'[c].code[k].op = "store" => OldStore(c, k)
  <2>1. CodeGrows
    BY <1>3, GrowsDoes DEF CodeGrows
  <2>2. Blocks' = Blocks
    BY <1>3 DEF Grows
  <2>3. \A c \in Blocks : \A k \in DOMAIN bb'[c].code \ DOMAIN bb[c].code : bb'[c].code[k] = i
    BY <1>3, GrowsDoes
  <2>. QED
    BY <1>3, <2>1, <2>2, <2>3 DEF CodeGrows, OldStore
<1>4. CASE Atom
  <2>1. AtomInstr \in Instr /\ AtomInstr.op # "store"
    BY DEF AtomInstr, Instr, TypeOK
  <2>. QED
    BY <1>3, <1>4, <2>1, AtomDoes
<1>5. CASE LocalVarDecl
  <2>1. AllocaInstr \in Instr /\ AllocaInstr.op # "store"
    BY DEF AllocaInstr, Instr, TypeOK
  <2>. QED
    BY <1>3, <1>5, <2>1, LocalVarDeclDoes
<1>6. CASE LocalVarInit
  <2>1. Grows(cur, StoreInstr) /\ Depth > 0
    BY <1>6, LocalVarInitDoes
  <2>2. StoreInstr \in Instr
    BY <2>1, TopTyped DEF TypeOK, Frame, StoreInstr, Instr
  <2>. QED
    BY <1>3, <1>6, <2>1, <2>2
<1>. QED
  BY <1>2, <1>4, <1>5, <1>6, NextDoes, SpecialKeepsCode DEF WritesCode

\* The declarations in progress after a step are old ones, unless it begins one.
OldDecl(i) ==
  i \in DOMAIN frames /\ frames[i].kind = "decl" /\ frames'[i].node = frames[i].node

LEMMA DeclsKept ==
  ASSUME TypeOK, OpenBlocksAccounted, [Next]_vars, ~LocalVarDecl
  PROVE  \A i \in DOMAIN frames' : frames'[i].kind = "decl" => OldDecl(i)
<1>. frames \in Seq(Frame) /\ at \in Nat
  BY DEF TypeOK
<1>1. ASSUME NEW f, FramesOr(f), f.kind # "decl"
      PROVE  \A i \in DOMAIN frames' : frames'[i].kind = "decl" => OldDecl(i)
  BY <1>1 DEF FramesOr, OldDecl
<1>2. CASE frames' = frames
  BY <1>2 DEF OldDecl
<1>3. CASE Depth > 0 /\ frames' = SubSeq(frames, 1, Depth - 1)
  <2>1. \A i \in DOMAIN frames' : i \in DOMAIN frames /\ frames'[i] = frames[i]
    BY <1>3, PopFrames
  <2>. QED
    BY <2>1 DEF OldDecl
<1>4. ASSUME NEW kind \in FrameKinds, kind # "decl", frames' = Append(frames, Call(kind))
      PROVE  \A i \in DOMAIN frames' : frames'[i].kind = "decl" => OldDecl(i)
  <2>1. Call(kind) \in Frame /\ Call(kind).kind = kind
    BY CallTyped DEF Call
  <2>2. FramesOr(Call(kind))
    BY <1>4, <2>1, FramesPushed
  <2>. QED
    BY <1>1, <1>4, <2>1, <2>2
<1>5. ASSUME NEW f \in Frame, f.kind # "decl",
             frames' = Append(frames, f) \/ (Depth > 0 /\ frames' = [frames EXCEPT ![Depth] = f])
      PROVE  \A i \in DOMAIN frames' : frames'[i].kind = "decl" => OldDecl(i)
  BY <1>1, <1>5, FramesPushed, FramesBecome
<1>6. CASE ExprStmtBegin \/ ReturnStmtBegin \/ IfBegin \/ FunctionBegin
  BY <1>4, <1>6 DEF ExprStmtBegin, ReturnStmtBegin, IfBegin, FunctionBegin, CallWithValue, Push, FrameKinds
<1>7. CASE ShortCircuit("and") \/ ShortCircuit("or")
  <2>1. PICK f \in Frame : f.kind \in {"and", "or"} /\ frames' = Append(frames, f)
    BY <1>7, ShortCircuitDoes
  <2>. QED
    BY <1>5, <2>1
<1>8. CASE WhileBegin
  <2>1. PICK f : f = [Call("while.cond") EXCEPT !.from = N + 1, !.body = N + 2, !.end = N + 3]
    OBVIOUS
  <2>2. f \in Frame /\ f.kind = "while.cond"
    <3>1. f = [kind |-> "while.cond", node |-> at, from |-> N + 1, body |-> N + 2, end |-> N + 3,
               tail |-> 0, val |-> NoVal]
      BY <2>1 DEF Call
    <3>2. N \in Nat /\ NoVal \in Val
      BY BlocksAre, Typed
    <3>. QED
      BY <3>1, <3>2 DEF Frame, FrameKinds
  <2>3. frames' = Append(frames, f)
    BY <1>8, <2>1 DEF WhileBegin, Push
  <2>. QED
    BY <1>5, <2>2, <2>3
<1>9. CASE WhileBody \/ IfThen \/ IfElse
  <2>1. Depth > 0
    BY <1>9 DEF WhileBody, IfThen, IfElse, InCall
  <2>2. Top \in Frame /\ val \in Val /\ cur \in Nat /\ N \in Nat
    BY <2>1, TopTyped, BlocksAre DEF TypeOK, BlockOrNull
  <2>3. CASE WhileBody
    <3>1. PICK f : f = [Top EXCEPT !.kind = "while.body", !.tail = cur, !.val = val]
      OBVIOUS
    <3>2. f \in Frame /\ f.kind = "while.body" /\ frames' = [frames EXCEPT ![Depth] = f]
      BY <2>2, <2>3, <3>1 DEF WhileBody, Become, Frame, FrameKinds
    <3>. QED
      BY <1>5, <2>1, <3>2
  <2>4. CASE IfThen
    <3>1. PICK e : e = IF asg.nodes[Top.node].alt = 0 THEN 0 ELSE N + 3
      OBVIOUS
    <3>2. PICK f : f = [Top EXCEPT !.kind = "if.then", !.end = N + 2, !.tail = e]
      OBVIOUS
    <3>3. e \in Nat /\ N + 2 \in Nat
      BY <2>2, <3>1
    <3>4. f \in Frame /\ f.kind = "if.then"
      BY <2>2, <3>2, <3>3 DEF Frame, FrameKinds
    <3>5. frames' = [frames EXCEPT ![Depth] = f]
      BY <2>4, <3>1, <3>2 DEF IfThen, Become
    <3>. QED
      BY <1>5, <2>1, <3>4, <3>5
  <2>5. CASE IfElse
    <3>1. PICK f : f = [Top EXCEPT !.kind = "if.else", !.tail = 0]
      OBVIOUS
    <3>2. f \in Frame /\ f.kind = "if.else" /\ frames' = [frames EXCEPT ![Depth] = f]
      BY <2>2, <2>5, <3>1 DEF IfElse, Become, Frame, FrameKinds
    <3>. QED
      BY <1>5, <2>1, <3>2
  <2>. QED
    BY <1>9, <2>3, <2>4, <2>5
<1>10. \/ frames' = frames
       \/ Depth > 0 /\ frames' = SubSeq(frames, 1, Depth - 1)
       \/ ExprStmtBegin \/ ReturnStmtBegin \/ IfBegin \/ FunctionBegin
       \/ ShortCircuit("and") \/ ShortCircuit("or") \/ WhileBegin
       \/ WhileBody \/ IfThen \/ IfElse
  BY DEF Next, vars, Atom, ShortCircuitEnd, DropStmt, ExprStmtEnd, LocalVarInit, ReturnStmt, IfEnd,
     WhileEnd, Jump, JumpNowhere, FunctionEnd, GlobalVarEnd, Prototype, LocalPrototype, InCall, Pop
<1>. QED
  BY <1>2, <1>3, <1>6, <1>7, <1>8, <1>9, <1>10

LEMMA NextKeepsAlloca ==
  ASSUME IInv, IInv', InsideInv, AllocaInv, [Next]_vars
  PROVE  AllocaInv'
<1>. TypeOK /\ TypeOK' /\ OpenBlocksAccounted /\ Steps /\ CodeGrows
  BY NextSteps, CodeNext DEF IInv
<1>1. \A b \in Blocks' : \E e \in Blocks' : IsEntry(e, bb[b].fn)'
  BY EntriesKept
<1>2. ASSUME NEW i \in DOMAIN frames', frames'[i].kind = "decl"
      PROVE  HasAlloca(frames[i].node, mCurFunc)'
  <2>1. CASE OldDecl(i)
    <3>1. PICK n : n = frames[i].node
      OBVIOUS
    <3>2. HasAlloca(n, mCurFunc)
      BY <2>1, <3>1 DEF OldDecl, AllocaInv
    <3>3. mCurFunc' = mCurFunc
      <4>1. frames # <<>>
        BY <2>1 DEF OldDecl
      <4>. QED
        BY <4>1, NextDoes, JumpDoes, ShortCircuitDoes, ShortCircuitEndDoes, FunctionBeginDoes
           DEF Special, Plainly
    <3>4. PICK g : g = mCurFunc
      OBVIOUS
    <3>5. HasAlloca(n, g)'
      BY <3>2, <3>4, AllocaKept
    <3>. QED
      BY <2>1, <3>1, <3>3, <3>4, <3>5 DEF OldDecl, HasAlloca
  <2>2. CASE ~OldDecl(i)
    <3>1. LocalVarDecl
      BY <1>2, <2>2, DeclsKept
    <3>2. PICK f \in Frame : f.kind = "decl" /\ f.node = at /\ frames' = Append(frames, f)
      BY <1>2, <2>2, <3>1, LocalVarDeclDoes DEF OldDecl
    <3>3. frames'[i] = f
      <4>1. FramesOr(f)
        BY <3>2, FramesPushed DEF TypeOK
      <4>. QED
        BY <1>2, <2>2, <4>1 DEF FramesOr, OldDecl
    <3>4. Plainly /\ Grows(Entry, AllocaInstr) /\ InList
      BY <3>1, LocalVarDeclDoes
    <3>5. IsEntry(Entry, mCurFunc)
      <4>1. cur \in Blocks /\ bb[cur].fn = mCurFunc
        BY <3>4, TopDests DEF InList, InsideInv
      <4>2. \E e \in Blocks : IsEntry(e, mCurFunc)
        BY <4>1 DEF AllocaInv
      <4>. QED
        BY <4>2 DEF Entry, IsEntry
    <3>6. PICK e : e = Entry
      OBVIOUS
    <3>7. e \in Blocks /\ IsEntry(e, mCurFunc) /\ AllocaInstr \in Instr
      BY <3>5, <3>6 DEF IsEntry, AllocaInstr, Instr, TypeOK
    <3>8. \E j \in DOMAIN bb'[e].code : bb'[e].code[j] = AllocaInstr
      BY <3>4, <3>6, <3>7, GrowsDoes
    <3>9. Step(mCurFunc, {cur} \cup Tails, FrameDests \cup New) /\ mCurFunc' = mCurFunc
      BY <3>4 DEF Plainly
    <3>10. PICK g : g = mCurFunc
      OBVIOUS
    <3>11. IsEntry(e, g)' /\ e \in Blocks'
      BY <3>7, <3>9, <3>10, EntryKept
    <3>. QED
      BY <3>2, <3>3, <3>8, <3>9, <3>10, <3>11 DEF HasAlloca, AllocaInstr, IsEntry
  <2>. QED
    BY <2>1, <2>2
<1>3. ASSUME NEW b \in Blocks', NEW k \in DOMAIN bb'[b].code, bb'[b].code[k].op = "store"
      PROVE  Preceded(b, k)'
  <2>1. CASE OldStore(b, k)
    <3>1. b \in Blocks /\ k \in DOMAIN bb[b].code /\ bb[b].code[k].op = "store"
      BY <1>3, <2>1 DEF OldStore
    <3>2. AllocaBeforeStore
      BY DEF AllocaInv
    <3>3. Preceded(b, k)
      BY <3>1, <3>2, StoresPreceded
    <3>. QED
      BY <3>1, <3>3, PrecededKept
  <2>2. CASE ~OldStore(b, k)
    <3>1. LocalVarInit
      BY <1>3, <2>2, CodeNext
    <3>2. /\ Plainly /\ Grows(cur, StoreInstr) /\ Live /\ Depth > 0 /\ Top.kind = "decl"
      BY <3>1, LocalVarInitDoes
    <3>3. StoreInstr \in Instr /\ Depth \in DOMAIN frames /\ frames[Depth] = Top
      BY <3>2, TopTyped DEF TypeOK, Frame, StoreInstr, Instr, Top
    <3>4. /\ b = cur /\ b \in Blocks /\ bb'[b].code[k] = StoreInstr
          /\ \A j \in DOMAIN bb[b].code : j < k
      <4>1. PICK i : i = StoreInstr
        OBVIOUS
      <4>2. Grows(cur, i) /\ i \in Instr
        BY <3>2, <3>3, <4>1
      <4>3. b \in Blocks
        BY <4>2 DEF Grows
      <4>4. /\ \A j \in DOMAIN bb[b].code : bb'[b].code[j] = bb[b].code[j]
            /\ \A j \in DOMAIN bb'[b].code \ DOMAIN bb[b].code :
                 b = cur /\ bb'[b].code[j] = i /\ \A h \in DOMAIN bb[b].code : h < j
        BY <4>2, <4>3, GrowsDoes
      <4>5. k \notin DOMAIN bb[b].code
        BY <2>2, <4>3, <4>4 DEF OldStore
      <4>. QED
        BY <1>3, <4>1, <4>3, <4>4, <4>5
    <3>5. HasAlloca(Top.node, mCurFunc)
      BY <3>2, <3>3 DEF AllocaInv
    <3>6. PICK e, j : /\ e \in Blocks /\ j \in DOMAIN bb[e].code /\ IsEntry(e, mCurFunc)
                      /\ bb[e].code[j] = [op |-> "alloca", n |-> Top.node]
      BY <3>5 DEF HasAlloca
    <3>7. bb[b].fn = mCurFunc /\ \A c \in Blocks : bb'[c].fn = bb[c].fn
      <4>1. frames # <<>> /\ Step(mCurFunc, {cur} \cup Tails, FrameDests \cup New)
        BY <3>2, TopDests DEF Plainly
      <4>. QED
        BY <3>4, <4>1 DEF InsideInv, Step
    <3>8. e \in 1 .. b /\ \A c \in 1 .. e - 1 : c \in Blocks /\ bb[c].fn # mCurFunc
      <4>1. e <= b /\ \A c \in Blocks : bb[c].fn = mCurFunc => e <= c
        BY <3>4, <3>6, <3>7 DEF IsEntry
      <4>2. e \in Nat /\ b \in Nat /\ e >= 1 /\ \A c \in 1 .. e - 1 : c \in Blocks /\ c < e
        BY <3>4, <3>6, BlocksAre
      <4>3. \A c \in 1 .. e - 1 : bb[c].fn # mCurFunc
        BY <4>1, <4>2
      <4>. QED
        BY <4>1, <4>2, <4>3
    <3>9. bb'[e].fn = mCurFunc /\ bb'[b].fn = mCurFunc
      BY <3>4, <3>6, <3>7 DEF IsEntry
    <3>10. /\ j \in DOMAIN bb'[e].code /\ bb'[e].code[j] = [op |-> "alloca", n |-> bb'[b].code[k].n]
           /\ e = b => j < k
      BY <3>4, <3>6 DEF CodeGrows, StoreInstr
    <3>. QED
      BY <3>7, <3>8, <3>9, <3>10 DEF Preceded
  <2>. QED
    BY <2>1, <2>2
<1>4. AllocaBeforeStore'
  BY <1>3 DEF AllocaBeforeStore, Preceded, Blocks
<1>. QED
  BY <1>1, <1>2, <1>4 DEF AllocaInv

LEMMA StartAlloca == Start => AllocaInv
<1>. SUFFICES ASSUME Start PROVE AllocaInv
  OBVIOUS
<1>1. Blocks = {} /\ DOMAIN frames = {}
  BY DEF Start, Blocks
<1>. QED
  BY <1>1 DEF AllocaInv, AllocaBeforeStore

-----------------------------------------------------------------------------
(* The theorems. *)

BlockInv == IInv /\ PhiInv /\ InsideInv /\ AllocaInv

LEMMA StartBlockInv == IsAsg(asg) /\ Start => BlockInv
  BY StartIInv, StartPhi, StartInside, StartAlloca DEF BlockInv

LEMMA NextKeepsBlockInv == BlockInv /\ [Next]_vars => BlockInv'
<1>. SUFFICES ASSUME BlockInv, [Next]_vars PROVE BlockInv'
  OBVIOUS
<1>1. IInv /\ IInv' /\ PhiInv /\ InsideInv /\ AllocaInv
  BY NextKeeps DEF BlockInv
<1>. QED
  BY <1>1, NextKeepsPhi, NextKeepsInside, NextKeepsAlloca DEF BlockInv

\* In every state of the walk of EmitIR the open blocks are accounted for, phis
\* match the predecessors, and every block that a call, a loop or a branch names is
\* of the right function, whose entry block comes first and holds its allocas.
THEOREM BlocksInvariant == Spec => []BlockInv
<1>1. Init => BlockInv
  BY StartBlockInv, InputsAssumption DEF Init
<1>. QED
  BY <1>1, NextKeepsBlockInv, PTL DEF Spec

\* A phi has exactly one incoming pair per predecessor of its block, also when
\* the right operand of && or || moved the insertion point.
THEOREM PhisMatch == Spec => []PhisMatchPreds
<1>1. BlockInv => PhisMatchPreds
  BY DEF BlockInv, PhiInv
<1>. QED
  BY <1>1, BlocksInvariant, PTL

\* A branch leads to a block of its own function, never to the entry block.
THEOREM BranchesInside == Spec => []BranchesStayInside
<1>1. BlockInv => BranchesStayInside
  BY InsideImplies DEF BlockInv, IInv
<1>. QED
  BY <1>1, BlocksInvariant, PTL

\* The alloca of a local is in the entry block and before every store to it.
THEOREM AllocaFirst == Spec => []AllocaBeforeStore
<1>1. BlockInv => AllocaBeforeStore
  BY DEF BlockInv, AllocaInv
<1>. QED
  BY <1>1, BlocksInvariant, PTL

\* No step of the walk evaluates or stores anything in a block that has ended:
\* all that such a block still gets is allocas.
THEOREM NoCodeAfter == Spec => NoCodeAfterEnd
<1>1. IInv /\ [Next]_vars => [CodeOnlyWhereLive]_vars
  BY CodeKept DEF IInv
<1>. QED
  BY <1>1, Invariant, PTL DEF Spec, NoCodeAfterEnd, CodeOnlyWhereLive
=============================================================================
