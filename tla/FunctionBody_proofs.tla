------------------------- MODULE FunctionBody_proofs ------------------------
(***************************************************************************)
(* Proofs about FunctionBody for any functions, any numbers of blocks,     *)
(* calls and parameters.  The invariant says of the function being         *)
(* translated that every block id it has used is registered for it, and    *)
(* which blocks are still to be filled: the builder's and those of         *)
(* codegen_ssa's list.                                                     *)
(***************************************************************************)
EXTENDS FunctionBody, SequenceTheorems, FiniteSetTheorems, TLAPS

Labels == Nat \X {"start", "bb", "next", "cleanup", "missing"}
Infos == {None, "none", "value", "_retbuf"} \cup [callee : Functions, args : {CallArgs(g) : g \in Functions}]
Stmts == [of : Functions, kind : Terminators \cup {"call"}, labels : SUBSET Labels, info : Infos]
Blocks == [label : Labels, stmts : Seq(Stmts), terminated : BOOLEAN]
FnDefs == [blocks : Seq(Blocks), retbuf_name : BOOLEAN, invoke_counter : Nat,
           local_decls : Seq({"_retbuf", "__unwind_ctx"})]
Maps == [open : [Functions -> FnDefs], map : [Ids -> Functions \cup {None}]]

(* A block that is complete, and one that is still to be filled. *)
Ended(b) ==
  /\ b.terminated /\ b.stmts # <<>>
  /\ \A k \in 1 .. Len(b.stmts) : (b.stmts[k].kind \in Terminators) <=> (k = Len(b.stmts))
Unended(b) == \A k \in 1 .. Len(b.stmts) : b.stmts[k].kind \notin Terminators

NBlocks(m, f) == Len(m.open[f].blocks)
Blk(m, f, c) == m.open[f].blocks[c + 1]

(* The blocks of f are numbered and registered, those that codegen_ssa     *)
(* knows (ll) exist, and all are complete but for those in the hands of a  *)
(* builder (cb) and those on codegen_ssa's list (ub).                      *)
Sized(f, m, ub) == m \in Maps /\ ub \subseteq AllMir /\ NBlocks(m, f) <= MaxBlocks[f]
Known(f, m, ll) ==
  /\ ll \in [AllMir -> Nat \cup {None}]
  /\ \A b \in AllMir : ll[b] # None => ll[b] \in 0 .. NBlocks(m, f) - 1
Registered(f, m) ==
  \A c \in 0 .. NBlocks(m, f) - 1 : m.map[c] = f /\ Blk(m, f, c).label[1] = c
Covered(f, m, ll, ub, cb) ==
  \A c \in 0 .. NBlocks(m, f) - 1 :
    Ended(Blk(m, f, c)) \/ c \in cb \/ \E b \in ub : ll[b] = c
HeldOpen(f, m, cb) == \A c \in cb : c \in 0 .. NBlocks(m, f) - 1 /\ Unended(Blk(m, f, c))
ListedOpen(f, m, ll, ub, cb) ==
  \A b \in ub : ll[b] \in 0 .. NBlocks(m, f) - 1 /\ ll[b] \notin cb /\ Unended(Blk(m, f, ll[b]))
ListedOnce(ll, ub) == \A a, b \in ub : ll[a] = ll[b] => a = b

Good(f, m, ll, ub, cb) ==
  /\ Sized(f, m, ub) /\ Known(f, m, ll) /\ Registered(f, m) /\ Covered(f, m, ll, ub, cb)
  /\ HeldOpen(f, m, cb) /\ ListedOpen(f, m, ll, ub, cb) /\ ListedOnce(ll, ub)

StmtsIn(fd) == UNION {{b.stmts[k] : k \in 1 .. Len(b.stmts)} :
                        b \in {fd.blocks[k] : k \in 1 .. Len(fd.blocks)}}
LabelsIn(fd) == {fd.blocks[k].label : k \in 1 .. Len(fd.blocks)}

(* What may be in a body of f. *)
StmtOK(f, fd, s) ==
  /\ s.of = f /\ s.labels \subseteq LabelsIn(fd)
  /\ s.kind \in {"call", "invoke"} =>
       \E g \in Functions : s.info = [callee |-> g, args |-> CallArgs(g)]

(* A tail call through a pointer returns nothing: see tail_call. *)
ReturnOK(f, s) ==
  s.kind = "return" =>
    \/ s.info = (CASE Kind[f] = "void" -> "none" [] Kind[f] = "direct" -> "value"
                   [] Kind[f] = "indirect" -> "_retbuf")
    \/ FALSE \in NamedTailCalls

LocalsOf(fd) ==
  (IF fd.retbuf_name THEN <<"_retbuf">> ELSE <<>>) \o
  (IF fd.invoke_counter > 0 THEN <<"__unwind_ctx">> ELSE <<>>)

HeaderOK(f, fd) ==
  /\ fd.retbuf_name = (Kind[f] = "indirect")
  /\ fd.local_decls = LocalsOf(fd)
  /\ fd.invoke_counter > 0 <=> \E s \in StmtsIn(fd) : s.kind = "invoke"

InHand == IF builder = None THEN {} ELSE {builder.bb}

IInv ==
  /\ M \in Maps /\ done \subseteq Functions /\ DOMAIN params = Functions
  /\ cur = None => builder = None /\ unbuilt = {} /\ llbb = [b \in AllMir |-> None]
  /\ cur # None => /\ cur \in Functions \ done
                   /\ Good(cur, M, llbb, unbuilt, InHand)
  /\ builder # None => builder = [fn |-> cur, bb |-> builder.bb]
  /\ \A f \in Functions \ (done \cup {cur}) :
       open[f] = [blocks |-> <<>>, retbuf_name |-> FALSE, invoke_counter |-> 0, local_decls |-> <<>>]
  /\ \A f \in done : \A b \in BlocksOf(f) : Ended(b)
  /\ \A f \in Functions : \A c \in 1 .. Len(open[f].blocks) : open[f].blocks[c].label[1] = c - 1
  /\ \A f \in Functions : \A s \in StmtsIn(open[f]) : StmtOK(f, open[f], s) /\ ReturnOK(f, s)
  /\ \A f \in done \cup ({cur} \ {None}) : HeaderOK(f, open[f]) /\ params[f] = ParamsOf(f)

-----------------------------------------------------------------------------
(* FunctionDef: what new_block and emit do to the blocks of one function.  *)

SameHeader(fd, fd2) ==
  /\ fd2.retbuf_name = fd.retbuf_name /\ fd2.invoke_counter = fd.invoke_counter
  /\ fd2.local_decls = fd.local_decls

BlockNames == {"start", "bb", "next", "cleanup"}

LEMMA FnDefFields ==
  ASSUME NEW fd \in FnDefs
  PROVE  /\ fd.blocks \in Seq(Blocks) /\ Len(fd.blocks) \in Nat
         /\ \A k \in 1 .. Len(fd.blocks) : fd.blocks[k] \in Blocks
  BY DEF FnDefs

LEMMA NewBlock ==
  ASSUME NEW fd \in FnDefs, NEW name \in BlockNames
  PROVE  LET fd2 == new_block(fd, name)
             new == [label |-> <<Len(fd.blocks), name>>, stmts |-> <<>>, terminated |-> FALSE]
         IN  /\ fd2 \in FnDefs /\ SameHeader(fd, fd2) /\ Len(fd2.blocks) = Len(fd.blocks) + 1
             /\ \A k \in 1 .. Len(fd.blocks) : fd2.blocks[k] = fd.blocks[k]
             /\ fd2.blocks[Len(fd.blocks) + 1] = new
<1> DEFINE fd2 == new_block(fd, name)
           new == [label |-> <<Len(fd.blocks), name>>, stmts |-> <<>>, terminated |-> FALSE]
<1>1. fd.blocks \in Seq(Blocks) /\ Len(fd.blocks) \in Nat
  BY FnDefFields
<1>2. new \in Blocks
  BY <1>1 DEF Blocks, Labels, BlockNames
<1>3. fd2 = [fd EXCEPT !.blocks = Append(fd.blocks, new)]
  BY DEF new_block, Label
<1> HIDE DEF new
<1>4. /\ Append(fd.blocks, new) \in Seq(Blocks) /\ Len(Append(fd.blocks, new)) = Len(fd.blocks) + 1
      /\ \A k \in 1 .. Len(fd.blocks) : Append(fd.blocks, new)[k] = fd.blocks[k]
      /\ Append(fd.blocks, new)[Len(fd.blocks) + 1] = new
  BY <1>1, <1>2, AppendProperties
<1>5. fd2.blocks = Append(fd.blocks, new) /\ SameHeader(fd, fd2)
  BY <1>3 DEF FnDefs, SameHeader
<1>6. fd2 \in FnDefs
  BY <1>3, <1>4 DEF FnDefs
<1> HIDE DEF fd2
<1>7. /\ fd2 \in FnDefs /\ SameHeader(fd, fd2) /\ Len(fd2.blocks) = Len(fd.blocks) + 1
      /\ \A k \in 1 .. Len(fd.blocks) : fd2.blocks[k] = fd.blocks[k]
      /\ fd2.blocks[Len(fd.blocks) + 1] = new
  BY <1>4, <1>5, <1>6
<1> QED BY <1>7 DEF fd2, new

(* Block k gets statement st, as its last one if last. *)
Extended(b, st, last) ==
  [b EXCEPT !.stmts = Append(@, st), !.terminated = IF last = "last" THEN TRUE ELSE @]
WithStmt(fd, k, st, last) ==
  [fd EXCEPT !.blocks = [fd.blocks EXCEPT ![k] = Extended(fd.blocks[k], st, last)]]

LEMMA ExtendedBlock ==
  ASSUME NEW b \in Blocks, NEW st \in Stmts, NEW last \in {"inner", "last"}
  PROVE  /\ Extended(b, st, last) \in Blocks /\ Extended(b, st, last).label = b.label
         /\ Extended(b, st, last).stmts = Append(b.stmts, st)
         /\ last = "last" => Extended(b, st, last).terminated
<1>1. b.stmts \in Seq(Stmts)
  BY DEF Blocks
<1>2. Append(b.stmts, st) \in Seq(Stmts)
  BY <1>1, AppendProperties
<1> QED BY <1>2 DEF Extended, Blocks

LEMMA StmtAdded ==
  ASSUME NEW fd \in FnDefs, NEW k \in 1 .. Len(fd.blocks), NEW st \in Stmts, NEW last \in {"inner", "last"}
  PROVE  LET fd2 == WithStmt(fd, k, st, last)
         IN  /\ fd2 \in FnDefs /\ SameHeader(fd, fd2) /\ Len(fd2.blocks) = Len(fd.blocks)
             /\ \A j \in 1 .. Len(fd.blocks) : fd2.blocks[j] =
                  IF j = k THEN Extended(fd.blocks[k], st, last) ELSE fd.blocks[j]
<1> DEFINE new == Extended(fd.blocks[k], st, last)
           bs == [fd.blocks EXCEPT ![k] = new]
           fd2 == WithStmt(fd, k, st, last)
<1>1. fd.blocks \in Seq(Blocks) /\ Len(fd.blocks) \in Nat /\ fd.blocks[k] \in Blocks
  BY FnDefFields
<1>2. new \in Blocks
  BY <1>1, ExtendedBlock
<1> HIDE DEF new
<1>3. /\ bs \in Seq(Blocks) /\ Len(bs) = Len(fd.blocks)
      /\ \A j \in 1 .. Len(fd.blocks) : bs[j] = IF j = k THEN new ELSE fd.blocks[j]
  BY <1>1, <1>2, ExceptSeq
<1>4. fd2 = [fd EXCEPT !.blocks = bs]
  BY DEF WithStmt, new
<1> HIDE DEF bs, fd2
<1>5. fd2.blocks = bs /\ SameHeader(fd, fd2) /\ fd2 \in FnDefs
  BY <1>3, <1>4 DEF FnDefs, SameHeader
<1>6. /\ fd2 \in FnDefs /\ SameHeader(fd, fd2) /\ Len(fd2.blocks) = Len(fd.blocks)
      /\ \A j \in 1 .. Len(fd.blocks) : fd2.blocks[j] = IF j = k THEN new ELSE fd.blocks[j]
  BY <1>3, <1>5
<1> QED BY <1>6 DEF fd2, new

(* emit, alone and followed by set_terminated, is WithStmt. *)
LEMMA EmitIs ==
  ASSUME NEW m \in Maps, NEW f \in Functions, NEW c \in 0 .. NBlocks(m, f) - 1, NEW st \in Stmts
  PROVE  /\ emit(m, [fn |-> f, bb |-> c], st).open
              = [m.open EXCEPT ![f] = WithStmt(m.open[f], c + 1, st, "inner")]
         /\ emit(m, [fn |-> f, bb |-> c], st).map = m.map
         /\ emit(m, [fn |-> f, bb |-> c], st) \in Maps
<1> DEFINE r == emit(m, [fn |-> f, bb |-> c], st)
           fd == m.open[f]
<1>1. fd \in FnDefs /\ Len(fd.blocks) \in Nat /\ c + 1 \in 1 .. Len(fd.blocks) /\ c < Len(fd.blocks)
      /\ DOMAIN fd.blocks = 1 .. Len(fd.blocks)
  BY FnDefFields, LenProperties DEF Maps, NBlocks
<1>2. r = [m EXCEPT !.open[f].blocks[c + 1].stmts = Append(@, st)]
  BY <1>1 DEF emit, HasBlock
<1>3. fd.blocks[c + 1] \in Blocks
  BY <1>1, FnDefFields
<1>4. Extended(fd.blocks[c + 1], st, "inner")
        = [fd.blocks[c + 1] EXCEPT !.stmts = Append(@, st)]
  BY <1>3 DEF Extended, Blocks
<1>5. r.open = [m.open EXCEPT ![f] = WithStmt(fd, c + 1, st, "inner")] /\ r.map = m.map
  BY <1>1, <1>2, <1>4 DEF WithStmt, Maps
<1>6. WithStmt(fd, c + 1, st, "inner") \in FnDefs
  BY <1>1, StmtAdded
<1>7. r \in Maps
  BY <1>2, <1>5, <1>6 DEF Maps
<1> QED BY <1>5, <1>7

LEMMA TerminateIs ==
  ASSUME NEW m \in Maps, NEW f \in Functions, NEW c \in 0 .. NBlocks(m, f) - 1, NEW st \in Stmts
  PROVE  /\ terminate(m, [fn |-> f, bb |-> c], st).open
              = [m.open EXCEPT ![f] = WithStmt(m.open[f], c + 1, st, "last")]
         /\ terminate(m, [fn |-> f, bb |-> c], st).map = m.map
         /\ terminate(m, [fn |-> f, bb |-> c], st) \in Maps
<1> DEFINE bu == [fn |-> f, bb |-> c]
           e == emit(m, bu, st)
           r == terminate(m, bu, st)
           fd == m.open[f]
           fe == WithStmt(fd, c + 1, st, "inner")
<1>1. fd \in FnDefs /\ Len(fd.blocks) \in Nat /\ c + 1 \in 1 .. Len(fd.blocks)
      /\ fd.blocks[c + 1] \in Blocks
  BY FnDefFields DEF Maps, NBlocks
<1>2. e.open = [m.open EXCEPT ![f] = fe] /\ e.map = m.map /\ e \in Maps
  <2>1. /\ emit(m, [fn |-> f, bb |-> c], st).open
             = [m.open EXCEPT ![f] = WithStmt(m.open[f], c + 1, st, "inner")]
        /\ emit(m, [fn |-> f, bb |-> c], st).map = m.map
        /\ emit(m, [fn |-> f, bb |-> c], st) \in Maps
    BY EmitIs, Zenon
  <2> QED BY <2>1, Zenon
<1>3. /\ fe \in FnDefs /\ Len(fe.blocks) = Len(fd.blocks)
      /\ fe.blocks[c + 1] = Extended(fd.blocks[c + 1], st, "inner")
  BY <1>1, StmtAdded
<1>a. f \in DOMAIN m.open
  BY DEF Maps
<1> HIDE DEF e, fe, fd
<1>4. e.open[f] = fe /\ HasBlock(e, f, c)
  <2>1. e.open[f] = fe
    BY <1>2, <1>a
  <2>2. c < Len(e.open[f].blocks)
    BY <2>1, <1>1, <1>3
  <2> QED BY <2>1, <2>2 DEF HasBlock
<1> USE DEF fe
<1>5. r = [e EXCEPT !.open[f].blocks[c + 1].terminated = TRUE]
  BY <1>4 DEF terminate, set_terminated, e
<1>6. [Extended(fd.blocks[c + 1], st, "inner") EXCEPT !.terminated = TRUE]
        = Extended(fd.blocks[c + 1], st, "last")
  BY <1>1 DEF Extended, Blocks
<1>7. [fe EXCEPT !.blocks[c + 1].terminated = TRUE] = WithStmt(fd, c + 1, st, "last")
  <2>1. fe.blocks = [fd.blocks EXCEPT ![c + 1] = Extended(fd.blocks[c + 1], st, "inner")]
    BY <1>1 DEF WithStmt, FnDefs
  <2>2. DOMAIN fd.blocks = 1 .. Len(fd.blocks)
    BY <1>1, FnDefFields, LenProperties
  <2>3. [fe.blocks EXCEPT ![c + 1] = Extended(fd.blocks[c + 1], st, "last")]
          = [fd.blocks EXCEPT ![c + 1] = Extended(fd.blocks[c + 1], st, "last")]
    BY <1>1, <2>1, <2>2
  <2>4. [fe EXCEPT !.blocks = [fd.blocks EXCEPT ![c + 1] = Extended(fd.blocks[c + 1], st, "last")]]
          = WithStmt(fd, c + 1, st, "last")
    BY DEF WithStmt, FnDefs
  <2> QED BY <1>3, <1>6, <2>3, <2>4
<1> HIDE DEF fe
<1>8. r.open = [e.open EXCEPT ![f] = [fe EXCEPT !.blocks[c + 1].terminated = TRUE]] /\ r.map = e.map
  BY <1>2, <1>4, <1>5 DEF Maps
<1>9. r.open = [m.open EXCEPT ![f] = WithStmt(fd, c + 1, st, "last")] /\ r.map = m.map
  BY <1>2, <1>7, <1>8 DEF Maps
<1>10. WithStmt(fd, c + 1, st, "last") \in FnDefs
  BY <1>1, StmtAdded
<1>11. r \in Maps
  BY <1>2, <1>5, <1>9, <1>10 DEF Maps
<1> QED BY <1>9, <1>11 DEF fd

(* Statements and labels after the two operations. *)
LEMMA ContentsNewBlock ==
  ASSUME NEW fd \in FnDefs, NEW name \in BlockNames
  PROVE  /\ StmtsIn(new_block(fd, name)) = StmtsIn(fd)
         /\ LabelsIn(fd) \subseteq LabelsIn(new_block(fd, name))
<1> DEFINE fd2 == new_block(fd, name)
           new == [label |-> <<Len(fd.blocks), name>>, stmts |-> <<>>, terminated |-> FALSE]
<1>1. /\ Len(fd2.blocks) = Len(fd.blocks) + 1 /\ Len(fd.blocks) \in Nat
      /\ \A k \in 1 .. Len(fd.blocks) : fd2.blocks[k] = fd.blocks[k]
      /\ fd2.blocks[Len(fd.blocks) + 1] = new /\ new.stmts = <<>>
  BY NewBlock, FnDefFields
<1> HIDE DEF fd2, new
<1>2. \A k \in 1 .. Len(fd2.blocks) : k \in 1 .. Len(fd.blocks) \/ fd2.blocks[k].stmts = <<>>
  BY <1>1
<1>3. \A k \in 1 .. Len(fd.blocks) : k \in 1 .. Len(fd2.blocks)
  BY <1>1
<1>4. \A x : x \in StmtsIn(fd2) <=>
        \E k \in 1 .. Len(fd2.blocks) : \E j \in 1 .. Len(fd2.blocks[k].stmts) : x = fd2.blocks[k].stmts[j]
  BY DEF StmtsIn
<1>5. \A x : x \in StmtsIn(fd) <=>
        \E k \in 1 .. Len(fd.blocks) : \E j \in 1 .. Len(fd.blocks[k].stmts) : x = fd.blocks[k].stmts[j]
  BY DEF StmtsIn
<1>6. \A x : x \in StmtsIn(fd2) <=> x \in StmtsIn(fd)
  <2>1. Len(<<>>) = 0
    OBVIOUS
  <2>2. \A k \in 1 .. Len(fd2.blocks) : 1 .. Len(fd2.blocks[k].stmts) # {} => k \in 1 .. Len(fd.blocks)
    BY <1>2, <2>1
  <2> QED BY <1>1, <1>3, <1>4, <1>5, <2>2
<1>7. LabelsIn(fd) \subseteq LabelsIn(fd2)
  BY <1>1, <1>3 DEF LabelsIn
<1> QED BY <1>6, <1>7 DEF fd2

LEMMA ContentsWithStmt ==
  ASSUME NEW fd \in FnDefs, NEW k \in 1 .. Len(fd.blocks), NEW st \in Stmts, NEW last \in {"inner", "last"}
  PROVE  /\ StmtsIn(WithStmt(fd, k, st, last)) = StmtsIn(fd) \cup {st}
         /\ LabelsIn(WithStmt(fd, k, st, last)) = LabelsIn(fd)
<1> DEFINE fd2 == WithStmt(fd, k, st, last)
           b == fd.blocks[k]
           b2 == Extended(b, st, last)
<1>1. /\ Len(fd2.blocks) = Len(fd.blocks)
      /\ \A j \in 1 .. Len(fd.blocks) : fd2.blocks[j] = IF j = k THEN b2 ELSE fd.blocks[j]
  BY StmtAdded
<1>2. b \in Blocks /\ b.stmts \in Seq(Stmts)
  BY FnDefFields DEF Blocks
<1>3. b2.label = b.label /\ b2.stmts = Append(b.stmts, st)
  BY <1>2, ExtendedBlock
<1> HIDE DEF fd2, b2
<1>4. /\ Len(b2.stmts) = Len(b.stmts) + 1 /\ Len(b.stmts) \in Nat
      /\ \A j \in 1 .. Len(b.stmts) : b2.stmts[j] = b.stmts[j]
      /\ b2.stmts[Len(b.stmts) + 1] = st
  BY <1>2, <1>3, AppendProperties, LenProperties
<1>5. \A x : x \in StmtsIn(fd2) <=>
        \E i \in 1 .. Len(fd.blocks) : \E j \in 1 .. Len(fd2.blocks[i].stmts) : x = fd2.blocks[i].stmts[j]
  <2>1. PICK B : B = fd2.blocks
    OBVIOUS
  <2>2. PICK n : n = Len(fd.blocks) /\ n = Len(B)
    BY <1>1, <2>1
  <2>3. StmtsIn(fd2) = UNION {{b0.stmts[j] : j \in 1 .. Len(b0.stmts)} : b0 \in {B[i] : i \in 1 .. n}}
    BY <2>1, <2>2 DEF StmtsIn
  <2>4. \A x : x \in StmtsIn(fd2) <=> \E i \in 1 .. n : \E j \in 1 .. Len(B[i].stmts) : x = B[i].stmts[j]
    BY <2>3
  <2> QED BY <2>1, <2>2, <2>4
<1>6. \A x : x \in StmtsIn(fd) <=>
        \E i \in 1 .. Len(fd.blocks) : \E j \in 1 .. Len(fd.blocks[i].stmts) : x = fd.blocks[i].stmts[j]
  BY DEF StmtsIn
<1>7. \A x : (\E j \in 1 .. Len(b2.stmts) : x = b2.stmts[j])
             <=> (x = st \/ \E j \in 1 .. Len(b.stmts) : x = b.stmts[j])
  <2> HIDE DEF b
  <2>1. \A j : j \in 1 .. Len(b2.stmts) <=> (j \in 1 .. Len(b.stmts) \/ j = Len(b.stmts) + 1)
    BY <1>4
  <2> QED BY <1>4, <2>1, Zenon
<1>8. \A x : x \in StmtsIn(fd2) <=> (x \in StmtsIn(fd) \/ x = st)
  <2>1. fd2.blocks[k] = b2 /\ fd.blocks[k] = b /\ \A i \in 1 .. Len(fd.blocks) : i # k => fd2.blocks[i] = fd.blocks[i]
    BY <1>1
  <2>2. ASSUME NEW x \in StmtsIn(fd2)
        PROVE  x \in StmtsIn(fd) \/ x = st
    <3>1. PICK i \in 1 .. Len(fd.blocks) : \E j \in 1 .. Len(fd2.blocks[i].stmts) : x = fd2.blocks[i].stmts[j]
      BY <1>5, <2>2, Zenon
    <3>2. CASE i = k
      <4>1. \E j \in 1 .. Len(b2.stmts) : x = b2.stmts[j]
        BY <3>1, <3>2, <2>1, Zenon
      <4>2. CASE x = st
        BY <4>2
      <4>3. CASE \E j \in 1 .. Len(b.stmts) : x = b.stmts[j]
        BY <4>3, <1>6, <2>1, Zenon
      <4> QED BY <4>1, <4>2, <4>3, <1>7, Zenon
    <3>3. CASE i # k
      BY <3>1, <3>3, <2>1, <1>6, Zenon
    <3> QED BY <3>2, <3>3
  <2>3. st \in StmtsIn(fd2)
    <3>1. \E j \in 1 .. Len(b2.stmts) : st = b2.stmts[j]
      BY <1>7, Zenon
    <3> QED BY <3>1, <2>1, <1>5, Zenon
  <2>4. ASSUME NEW x \in StmtsIn(fd)
        PROVE  x \in StmtsIn(fd2)
    <3>1. PICK i \in 1 .. Len(fd.blocks) : \E j \in 1 .. Len(fd.blocks[i].stmts) : x = fd.blocks[i].stmts[j]
      BY <1>6, <2>4, Zenon
    <3>2. CASE i = k
      <4>1. \E j \in 1 .. Len(b2.stmts) : x = b2.stmts[j]
        BY <3>1, <3>2, <2>1, <1>7, Zenon
      <4> QED BY <4>1, <2>1, <1>5, Zenon
    <3>3. CASE i # k
      BY <3>1, <3>3, <2>1, <1>5, Zenon
    <3> QED BY <3>2, <3>3
  <2> QED BY <2>2, <2>3, <2>4
<1>9. LabelsIn(fd2) = LabelsIn(fd)
  BY <1>1, <1>3 DEF LabelsIn
<1> QED BY <1>8, <1>9 DEF fd2

LEMMA EndsBlock ==
  ASSUME NEW b \in Blocks, NEW st \in Stmts, Unended(b)
  PROVE  /\ st.kind \in Terminators => Ended(Extended(b, st, "last"))
         /\ st.kind \notin Terminators => Unended(Extended(b, st, "inner"))
<1>1. b.stmts \in Seq(Stmts)
  BY DEF Blocks
<1> DEFINE ss == Append(b.stmts, st)
<1>2. /\ Len(ss) = Len(b.stmts) + 1 /\ Len(b.stmts) \in Nat /\ ss # <<>>
      /\ \A j \in 1 .. Len(b.stmts) : ss[j] = b.stmts[j]
      /\ ss[Len(b.stmts) + 1] = st
  BY <1>1, AppendProperties, LenProperties
<1> HIDE DEF ss
<1>3. /\ Extended(b, st, "last").stmts = ss /\ Extended(b, st, "last").terminated
      /\ Extended(b, st, "inner").stmts = ss
  BY ExtendedBlock DEF ss
<1>4. \A j \in 1 .. Len(ss) : j \in 1 .. Len(b.stmts) \/ j = Len(ss)
  BY <1>2
<1>5. \A j \in 1 .. Len(b.stmts) : j # Len(ss)
  BY <1>2
<1> QED BY <1>2, <1>3, <1>4, <1>5 DEF Unended, Ended

-----------------------------------------------------------------------------
(* The builder's operations on the blocks of f.  Each leaves the other     *)
(* functions and the header alone and adds no statement but its own.       *)

StmtsFit(f, fd) == \A s \in StmtsIn(fd) : StmtOK(f, fd, s) /\ ReturnOK(f, s)

Step(f, m, m2, sts) ==
  /\ m2 \in Maps
  /\ \A g \in Functions \ {f} : m2.open[g] = m.open[g]
  /\ SameHeader(m.open[f], m2.open[f])
  /\ StmtsIn(m2.open[f]) = StmtsIn(m.open[f]) \cup sts
  /\ LabelsIn(m.open[f]) \subseteq LabelsIn(m2.open[f])

LEMMA StmtsFitKept ==
  ASSUME NEW f, NEW fd, NEW fd2, StmtsFit(f, fd), LabelsIn(fd) \subseteq LabelsIn(fd2),
         \A st \in StmtsIn(fd2) : st \in StmtsIn(fd) \/ (StmtOK(f, fd, st) /\ ReturnOK(f, st))
  PROVE  StmtsFit(f, fd2)
<1>1. \A s : StmtOK(f, fd, s) => StmtOK(f, fd2, s)
  BY DEF StmtOK
<1> QED BY <1>1 DEF StmtsFit

LEMMA CountBlocks ==
  ASSUME NEW m \in Maps, NEW f \in Functions
  PROVE  /\ NBlocks(m, f) \in Nat /\ m.open[f] \in FnDefs /\ f \in DOMAIN m.open
         /\ \A c \in 0 .. NBlocks(m, f) - 1 : c \in Nat /\ c + 1 \in 1 .. NBlocks(m, f) /\ Blk(m, f, c) \in Blocks
         /\ MaxBlocks[f] \in Nat
<1>1. m.open[f] \in FnDefs /\ f \in DOMAIN m.open
  BY DEF Maps
<1>2. NBlocks(m, f) \in Nat /\ \A k \in 1 .. NBlocks(m, f) : m.open[f].blocks[k] \in Blocks
  BY <1>1, FnDefFields DEF NBlocks
<1>3. \A c \in 0 .. NBlocks(m, f) - 1 : c \in Nat /\ c + 1 \in 1 .. NBlocks(m, f)
  BY <1>2
<1>4. MaxBlocks[f] \in Nat
  BY BoundAssumption
<1> QED BY <1>1, <1>2, <1>3, <1>4 DEF Blk

LEMMA AppendStep ==
  ASSUME NEW f \in Functions, NEW m, NEW ll, NEW ub, NEW cb, NEW name \in BlockNames,
         Good(f, m, ll, ub, cb), StmtsFit(f, m.open[f]), NBlocks(m, f) < MaxBlocks[f]
  PROVE  LET m2 == append_block(m, f, name)
             n == NextId(m, f)
         IN  /\ Good(f, m2, ll, ub, cb \cup {n}) /\ StmtsFit(f, m2.open[f])
             /\ Step(f, m, m2, {}) /\ NBlocks(m2, f) = NBlocks(m, f) + 1
             /\ n = NBlocks(m, f) /\ n \notin cb /\ \A b \in AllMir : ll[b] # n
<1> DEFINE m2 == append_block(m, f, name)
           n == NBlocks(m, f)
           fd == m.open[f]
           fd2 == new_block(fd, name)
           new == [label |-> <<n, name>>, stmts |-> <<>>, terminated |-> FALSE]
<1>1. m \in Maps /\ ub \subseteq AllMir
  BY DEF Good, Sized
<1>2. /\ n \in Nat /\ fd \in FnDefs /\ f \in DOMAIN m.open /\ MaxBlocks[f] \in Nat
      /\ \A c \in 0 .. n - 1 : c \in Nat /\ c + 1 \in 1 .. n
  BY <1>1, CountBlocks
<1>3. /\ fd2 \in FnDefs /\ SameHeader(fd, fd2) /\ Len(fd2.blocks) = n + 1
      /\ \A k \in 1 .. n : fd2.blocks[k] = fd.blocks[k]
      /\ fd2.blocks[n + 1] = new
  BY <1>2, NewBlock DEF NBlocks
<1>4. n \in Ids
  <2>1. n \in 0 .. MaxBlocks[f] - 1
    BY <1>2
  <2> QED BY <2>1 DEF Ids
<1>5. m2 = [open |-> [m.open EXCEPT ![f] = fd2], map |-> [m.map EXCEPT ![n] = f]]
  BY DEF append_block, Register, NextId, NBlocks
<1>6. /\ m2.open = [m.open EXCEPT ![f] = fd2] /\ m2.map = [m.map EXCEPT ![n] = f]
  BY <1>5
<1> HIDE DEF fd2, new, m2
<1>7. m2 \in Maps
  <2>1. [m.open EXCEPT ![f] = fd2] \in [Functions -> FnDefs]
    BY <1>1, <1>3 DEF Maps
  <2>2. [m.map EXCEPT ![n] = f] \in [Ids -> Functions \cup {None}]
    BY <1>1 DEF Maps
  <2> QED BY <1>5, <2>1, <2>2 DEF Maps
<1>8. m2.open[f] = fd2 /\ \A g \in Functions \ {f} : m2.open[g] = m.open[g]
  BY <1>1, <1>2, <1>6 DEF Maps
<1>9. m2.map[n] = f /\ \A c \in Ids \ {n} : m2.map[c] = m.map[c]
  BY <1>1, <1>4, <1>6 DEF Maps
<1>10. NBlocks(m2, f) = n + 1
  BY <1>3, <1>8 DEF NBlocks
<1>11. \A c \in 0 .. n - 1 : Blk(m2, f, c) = Blk(m, f, c)
  BY <1>2, <1>3, <1>8 DEF Blk
<1>12. Blk(m2, f, n) = new
  BY <1>3, <1>8 DEF Blk
<1>13. new.label[1] = n /\ Unended(new)
  BY DEF new, Unended
<1>14. \A c \in 0 .. n - 1 : c \in 0 .. NBlocks(m2, f) - 1 /\ c # n
  BY <1>2, <1>10
<1>15. \A c \in 0 .. NBlocks(m2, f) - 1 : c \in 0 .. n - 1 \/ c = n
  BY <1>2, <1>10
<1>16. n \in 0 .. NBlocks(m2, f) - 1
  BY <1>2, <1>10
<1>17. \A c \in 0 .. n - 1 : c \in Ids \ {n}
  <2>1. \A c \in 0 .. n - 1 : c \in 0 .. MaxBlocks[f] - 1
    BY <1>2
  <2> QED BY <2>1, <1>14 DEF Ids
<1> HIDE DEF n
<1>18. Sized(f, m2, ub)
  <2>1. NBlocks(m2, f) <= MaxBlocks[f]
    BY <1>2, <1>10 DEF n
  <2> QED BY <2>1, <1>1, <1>7 DEF Sized
<1>19. Known(f, m2, ll)
  BY <1>14 DEF Good, Known, n
<1>20. Registered(f, m2)
  <2>1. \A c \in 0 .. n - 1 : m.map[c] = f /\ Blk(m, f, c).label[1] = c
    BY DEF Good, Registered, n
  <2> QED BY <2>1, <1>9, <1>11, <1>12, <1>13, <1>15, <1>17 DEF Registered
<1>21. Covered(f, m2, ll, ub, cb \cup {n})
  <2>1. \A c \in 0 .. n - 1 : Ended(Blk(m, f, c)) \/ c \in cb \/ \E b \in ub : ll[b] = c
    BY DEF Good, Covered, n
  <2> QED BY <2>1, <1>11, <1>15 DEF Covered
<1>22. n \notin cb /\ HeldOpen(f, m2, cb \cup {n})
  <2>1. \A c \in cb : c \in 0 .. n - 1 /\ Unended(Blk(m, f, c))
    BY DEF Good, HeldOpen, n
  <2> QED BY <2>1, <1>11, <1>12, <1>13, <1>14, <1>16 DEF HeldOpen
<1>23. \A b \in AllMir : ll[b] # n
  <2>1. n # None
    BY <1>2, BoundAssumption
  <2>2. \A b \in AllMir : ll[b] # None => ll[b] \in 0 .. n - 1
    BY DEF Good, Known, n
  <2> QED BY <2>1, <2>2, <1>14
<1>24. ListedOpen(f, m2, ll, ub, cb \cup {n})
  <2>1. \A b \in ub : ll[b] \in 0 .. n - 1 /\ ll[b] \notin cb /\ Unended(Blk(m, f, ll[b]))
    BY DEF Good, ListedOpen, n
  <2> QED BY <2>1, <1>11, <1>14 DEF ListedOpen
<1>25. ListedOnce(ll, ub)
  BY DEF Good
<1>26. StmtsIn(fd2) = StmtsIn(fd) /\ LabelsIn(fd) \subseteq LabelsIn(fd2)
  BY <1>2, ContentsNewBlock DEF fd2
<1>27. StmtsFit(f, m2.open[f])
  <2>1. \A st \in StmtsIn(fd2) : st \in StmtsIn(fd) \/ (StmtOK(f, fd, st) /\ ReturnOK(f, st))
    BY <1>26
  <2>2. StmtsFit(f, fd) /\ LabelsIn(fd) \subseteq LabelsIn(fd2)
    BY <1>26
  <2> HIDE DEF fd
  <2>3. StmtsFit(f, fd2)
    BY <2>1, <2>2, StmtsFitKept
  <2> QED BY <2>3, <1>8
<1>28. Step(f, m, m2, {})
  BY <1>3, <1>7, <1>8, <1>26 DEF Step
<1>29. Good(f, m2, ll, ub, cb \cup {n})
  BY <1>18, <1>19, <1>20, <1>21, <1>22, <1>24, <1>25 DEF Good
<1>30. NextId(m, f) = n
  BY DEF NextId, n, NBlocks
<1> QED BY <1>8, <1>10, <1>22, <1>23, <1>26, <1>27, <1>28, <1>29, <1>30 DEF m2, n

SameSize(f, m, m2) == NBlocks(m2, f) = NBlocks(m, f)

(* m2 is m with statement st, fit for f, at the end of its open block c. *)
Adds(f, m, ll, ub, cb, c, st, last, cb2, m2) ==
  /\ f \in Functions /\ c \in cb /\ st \in Stmts /\ last \in {"inner", "last"}
  /\ last = "last" <=> st.kind \in Terminators
  /\ cb2 = IF st.kind \in Terminators THEN cb \ {c} ELSE cb
  /\ Good(f, m, ll, ub, cb) /\ StmtsFit(f, m.open[f]) /\ StmtOK(f, m.open[f], st) /\ ReturnOK(f, st)
  /\ m2 \in Maps /\ m2.map = m.map
  /\ m2.open = [m.open EXCEPT ![f] = WithStmt(m.open[f], c + 1, st, last)]

LEMMA StmtStep ==
  ASSUME NEW f, NEW m, NEW ll, NEW ub, NEW cb, NEW c, NEW st, NEW last, NEW cb2, NEW m2,
         Adds(f, m, ll, ub, cb, c, st, last, cb2, m2)
  PROVE  /\ Good(f, m2, ll, ub, cb2) /\ StmtsFit(f, m2.open[f])
         /\ Step(f, m, m2, {st}) /\ SameSize(f, m, m2)
<1> DEFINE n == NBlocks(m, f)
           fd == m.open[f]
           fd2 == WithStmt(fd, c + 1, st, last)
           new == Extended(fd.blocks[c + 1], st, last)
<1>0. /\ f \in Functions /\ c \in cb /\ st \in Stmts /\ last \in {"inner", "last"}
      /\ last = "last" <=> st.kind \in Terminators
      /\ cb2 = IF st.kind \in Terminators THEN cb \ {c} ELSE cb
      /\ Good(f, m, ll, ub, cb) /\ StmtsFit(f, m.open[f]) /\ StmtOK(f, m.open[f], st) /\ ReturnOK(f, st)
      /\ m2 \in Maps /\ m2.map = m.map
      /\ m2.open = [m.open EXCEPT ![f] = WithStmt(m.open[f], c + 1, st, last)]
  BY DEF Adds
<1> USE <1>0
<1>1. m \in Maps /\ ub \subseteq AllMir /\ n <= MaxBlocks[f]
  BY DEF Good, Sized
<1>2. /\ n \in Nat /\ fd \in FnDefs /\ f \in DOMAIN m.open
      /\ \A d \in 0 .. n - 1 : d \in Nat /\ d + 1 \in 1 .. n /\ Blk(m, f, d) \in Blocks
  BY <1>1, CountBlocks
<1>3. c \in 0 .. n - 1 /\ Unended(Blk(m, f, c))
  BY DEF Good, HeldOpen
<1>4. c + 1 \in 1 .. Len(fd.blocks) /\ n = Len(fd.blocks)
  BY <1>2, <1>3 DEF NBlocks
<1>5. /\ fd2 \in FnDefs /\ SameHeader(fd, fd2) /\ Len(fd2.blocks) = n
      /\ \A j \in 1 .. n : fd2.blocks[j] = IF j = c + 1 THEN new ELSE fd.blocks[j]
  BY <1>2, <1>4, StmtAdded DEF NBlocks
<1> HIDE DEF fd2
<1>6. m2.open[f] = fd2 /\ \A g \in Functions \ {f} : m2.open[g] = m.open[g]
  BY <1>1, <1>2 DEF fd2, Maps
<1>7. NBlocks(m2, f) = n
  BY <1>5, <1>6 DEF NBlocks
<1>8. Blk(m2, f, c) = Extended(Blk(m, f, c), st, last)
  BY <1>2, <1>3, <1>5, <1>6 DEF Blk
<1>9. \A d \in 0 .. n - 1 : d # c => Blk(m2, f, d) = Blk(m, f, d)
  <2> TAKE d \in 0 .. n - 1
  <2> HAVE d # c
  <2>1. d + 1 \in 1 .. n /\ d + 1 # c + 1
    BY <1>2, <1>3
  <2> QED BY <2>1, <1>5, <1>6 DEF Blk
<1>10. /\ last = "last" => Ended(Blk(m2, f, c))
       /\ last # "last" => Unended(Blk(m2, f, c))
  <2>1. /\ st.kind \in Terminators => Ended(Extended(Blk(m, f, c), st, "last"))
        /\ st.kind \notin Terminators => Unended(Extended(Blk(m, f, c), st, "inner"))
    BY <1>2, <1>3, EndsBlock
  <2> QED BY <2>1, <1>8
<1>11. Extended(Blk(m, f, c), st, last).label = Blk(m, f, c).label
  BY <1>2, <1>3, ExtendedBlock
<1> HIDE DEF n, new
<1>12. Sized(f, m2, ub) /\ Known(f, m2, ll)
  BY <1>1, <1>7 DEF Sized, Good, Known, n
<1>13. Registered(f, m2)
  <2>1. \A d \in 0 .. n - 1 : m.map[d] = f /\ Blk(m, f, d).label[1] = d
    BY DEF Good, Registered, n
  <2> QED BY <2>1, <1>7, <1>8, <1>9, <1>11 DEF Registered
<1>14. Covered(f, m2, ll, ub, cb2)
  <2>1. \A d \in 0 .. n - 1 : Ended(Blk(m, f, d)) \/ d \in cb \/ \E b \in ub : ll[b] = d
    BY DEF Good, Covered, n
  <2>2. \A d \in 0 .. n - 1 : d # c => (Ended(Blk(m2, f, d)) \/ d \in cb2 \/ \E b \in ub : ll[b] = d)
    BY <2>1, <1>9 
  <2>3. Ended(Blk(m2, f, c)) \/ c \in cb2
    BY <1>10 
  <2> QED BY <2>2, <2>3, <1>7 DEF Covered
<1>15. HeldOpen(f, m2, cb2)
  <2>1. \A d \in cb : d \in 0 .. n - 1 /\ Unended(Blk(m, f, d))
    BY DEF Good, HeldOpen, n
  <2>2. \A d \in cb2 : d \in 0 .. n - 1 /\ (d = c => last # "last") /\ Unended(Blk(m2, f, d))
    BY <2>1, <1>9, <1>10 
  <2> QED BY <2>2, <1>7 DEF HeldOpen
<1>16. ListedOpen(f, m2, ll, ub, cb2)
  <2>1. \A b \in ub : ll[b] \in 0 .. n - 1 /\ ll[b] \notin cb /\ Unended(Blk(m, f, ll[b]))
    BY DEF Good, ListedOpen, n
  <2>2. \A b \in ub : ll[b] # c /\ ll[b] \notin cb2
    BY <2>1 
  <2> QED BY <2>1, <2>2, <1>7, <1>9 DEF ListedOpen
<1>17. Good(f, m2, ll, ub, cb2)
  BY <1>12, <1>13, <1>14, <1>15, <1>16 DEF Good
<1>18. StmtsIn(fd2) = StmtsIn(fd) \cup {st} /\ LabelsIn(fd2) = LabelsIn(fd)
  BY <1>2, <1>4, ContentsWithStmt DEF fd2
<1>19. StmtsFit(f, fd2)
  <2>1. \A s \in StmtsIn(fd2) : s \in StmtsIn(fd) \/ (StmtOK(f, fd, s) /\ ReturnOK(f, s))
    BY <1>18
  <2>2. StmtsFit(f, fd) /\ LabelsIn(fd) \subseteq LabelsIn(fd2)
    BY <1>18
  <2> HIDE DEF fd
  <2> QED BY <2>1, <2>2, StmtsFitKept
<1>20. Step(f, m, m2, {st})
  BY <1>5, <1>6, <1>18 DEF Step
<1> QED BY <1>6, <1>7, <1>17, <1>18, <1>19, <1>20 DEF n, SameSize

LEMMA EmitStep ==
  ASSUME NEW f \in Functions, NEW m, NEW ll, NEW ub, NEW cb, NEW c \in cb, NEW st \in Stmts,
         st.kind \notin Terminators,
         Good(f, m, ll, ub, cb), StmtsFit(f, m.open[f]), StmtOK(f, m.open[f], st), ReturnOK(f, st)
  PROVE  LET m2 == emit(m, [fn |-> f, bb |-> c], st)
         IN  /\ Good(f, m2, ll, ub, cb) /\ StmtsFit(f, m2.open[f]) /\ m2.map = m.map
             /\ Step(f, m, m2, {st}) /\ SameSize(f, m, m2)
<1> DEFINE m2 == emit(m, [fn |-> f, bb |-> c], st)
<1>1. m \in Maps /\ c \in 0 .. NBlocks(m, f) - 1
  BY DEF Good, Sized, HeldOpen
<1>2. /\ m2.open = [m.open EXCEPT ![f] = WithStmt(m.open[f], c + 1, st, "inner")]
      /\ m2.map = m.map /\ m2 \in Maps
  BY <1>1, EmitIs, Zenon
<1>3. (st.kind \in Terminators) = FALSE
  OBVIOUS
<1> HIDE DEF m2
<1>4. /\ Good(f, m2, ll, ub, cb) /\ StmtsFit(f, m2.open[f])
      /\ Step(f, m, m2, {st}) /\ SameSize(f, m, m2)
  <2>1. PICK cb2 : cb2 = IF st.kind \in Terminators THEN cb \ {c} ELSE cb
    OBVIOUS
  <2>0. PICK last \in {"inner", "last"} : last = "inner"
    OBVIOUS
  <2>2. /\ m2.open = [m.open EXCEPT ![f] = WithStmt(m.open[f], c + 1, st, last)]
        /\ last = "last" <=> st.kind \in Terminators
    BY <1>2, <2>0
  <2>3. Good(f, m2, ll, ub, cb2) /\ StmtsFit(f, m2.open[f])
        /\ Step(f, m, m2, {st}) /\ SameSize(f, m, m2)
    <3>1. Adds(f, m, ll, ub, cb, c, st, last, cb2, m2)
      BY <1>2, <2>1, <2>2 DEF Adds
    <3> QED BY <3>1, StmtStep
  <2> QED BY <1>3, <2>1, <2>3
<1> QED BY <1>2, <1>4 DEF m2

LEMMA TerminateStep ==
  ASSUME NEW f \in Functions, NEW m, NEW ll, NEW ub, NEW cb, NEW c \in cb, NEW st \in Stmts,
         st.kind \in Terminators,
         Good(f, m, ll, ub, cb), StmtsFit(f, m.open[f]), StmtOK(f, m.open[f], st), ReturnOK(f, st)
  PROVE  LET m2 == terminate(m, [fn |-> f, bb |-> c], st)
         IN  /\ Good(f, m2, ll, ub, cb \ {c}) /\ StmtsFit(f, m2.open[f]) /\ m2.map = m.map
             /\ Step(f, m, m2, {st}) /\ SameSize(f, m, m2)
<1> DEFINE m2 == terminate(m, [fn |-> f, bb |-> c], st)
<1>1. m \in Maps /\ c \in 0 .. NBlocks(m, f) - 1
  BY DEF Good, Sized, HeldOpen
<1>2. /\ m2.open = [m.open EXCEPT ![f] = WithStmt(m.open[f], c + 1, st, "last")]
      /\ m2.map = m.map /\ m2 \in Maps
  BY <1>1, TerminateIs, Zenon
<1>3. (st.kind \in Terminators) = TRUE
  OBVIOUS
<1> HIDE DEF m2
<1>4. /\ Good(f, m2, ll, ub, cb \ {c}) /\ StmtsFit(f, m2.open[f])
      /\ Step(f, m, m2, {st}) /\ SameSize(f, m, m2)
  <2>1. PICK cb2 : cb2 = IF st.kind \in Terminators THEN cb \ {c} ELSE cb
    OBVIOUS
  <2>0. PICK last \in {"inner", "last"} : last = "last"
    OBVIOUS
  <2>2. /\ m2.open = [m.open EXCEPT ![f] = WithStmt(m.open[f], c + 1, st, last)]
        /\ last = "last" <=> st.kind \in Terminators
    BY <1>2, <2>0
  <2>3. Good(f, m2, ll, ub, cb2) /\ StmtsFit(f, m2.open[f])
        /\ Step(f, m, m2, {st}) /\ SameSize(f, m, m2)
    <3>1. Adds(f, m, ll, ub, cb, c, st, last, cb2, m2)
      BY <1>2, <2>1, <2>2 DEF Adds
    <3> QED BY <3>1, StmtStep
  <2> QED BY <1>3, <2>1, <2>3
<1> QED BY <1>2, <1>4 DEF m2

LEMMA StepTrans ==
  ASSUME NEW f, NEW m, NEW m2, NEW m3, NEW sts, NEW sts2, Step(f, m, m2, sts), Step(f, m2, m3, sts2)
  PROVE  Step(f, m, m3, sts \cup sts2)
<1>1. SameHeader(m.open[f], m3.open[f])
  BY DEF Step, SameHeader
<1>2. /\ StmtsIn(m3.open[f]) = StmtsIn(m.open[f]) \cup (sts \cup sts2)
      /\ LabelsIn(m.open[f]) \subseteq LabelsIn(m3.open[f])
  BY DEF Step
<1>3. m3 \in Maps /\ \A g \in Functions \ {f} : m3.open[g] = m.open[g]
  BY DEF Step
<1> QED BY <1>1, <1>2, <1>3 DEF Step

(* A block passes from a builder to codegen_ssa's list, and back. *)
LEMMA Listed ==
  ASSUME NEW f \in Functions, NEW m, NEW ll, NEW ub, NEW cb, NEW n \in cb, NEW b \in AllMir,
         Good(f, m, ll, ub, cb), ll[b] = None, \A a \in AllMir : ll[a] # n
  PROVE  Good(f, m, [ll EXCEPT ![b] = n], ub \cup {b}, cb \ {n})
<1> DEFINE ll2 == [ll EXCEPT ![b] = n]
           ub2 == ub \cup {b}
           cb2 == cb \ {n}
<1>1. ll \in [AllMir -> Nat \cup {None}] /\ m \in Maps /\ ub \subseteq AllMir
  BY DEF Good, Known, Sized
<1>2. n \in 0 .. NBlocks(m, f) - 1 /\ Unended(Blk(m, f, n))
  BY DEF Good, HeldOpen
<1>3. n \in Nat
  BY <1>1, <1>2, CountBlocks
<1>4. ll2[b] = n /\ \A a \in AllMir : a # b => ll2[a] = ll[a]
  BY <1>1
<1>5. ll2 \in [AllMir -> Nat \cup {None}]
  BY <1>1, <1>3
<1>6. b \notin ub
  <2>1. \A a \in ub : ll[a] \in Nat
    BY <1>1, CountBlocks DEF Good, ListedOpen
  <2> QED BY <2>1, BoundAssumption
<1> HIDE DEF ll2, ub2, cb2
<1>7. Sized(f, m, ub2) /\ Registered(f, m)
  BY DEF Good, Sized, ub2
<1>8. Known(f, m, ll2)
  BY <1>2, <1>4, <1>5 DEF Good, Known
<1>9. Covered(f, m, ll2, ub2, cb2)
  <2>1. \A c \in 0 .. NBlocks(m, f) - 1 : Ended(Blk(m, f, c)) \/ c \in cb \/ \E a \in ub : ll[a] = c
    BY DEF Good, Covered
  <2>2. \A a \in ub : a \in ub2 /\ ll2[a] = ll[a]
    BY <1>1, <1>4, <1>6 DEF ub2
  <2>3. b \in ub2
    BY DEF ub2
  <2> QED BY <2>1, <2>2, <2>3, <1>4 DEF Covered, cb2
<1>10. HeldOpen(f, m, cb2)
  BY DEF Good, HeldOpen, cb2
<1>11. ListedOpen(f, m, ll2, ub2, cb2)
  <2>1. \A a \in ub : ll[a] \in 0 .. NBlocks(m, f) - 1 /\ ll[a] \notin cb /\ Unended(Blk(m, f, ll[a]))
    BY DEF Good, ListedOpen
  <2>2. \A a \in ub2 : a = b \/ (a \in ub /\ ll2[a] = ll[a])
    BY <1>1, <1>4, <1>6 DEF ub2
  <2> QED BY <2>1, <2>2, <1>2, <1>4 DEF ListedOpen, cb2
<1>12. ListedOnce(ll2, ub2)
  <2>1. \A a \in ub2 : a = b \/ (a \in ub /\ ll2[a] = ll[a] /\ ll[a] # n)
    BY <1>1, <1>4, <1>6 DEF ub2
  <2> QED BY <2>1, <1>4 DEF ListedOnce, Good
<1> QED BY <1>7, <1>8, <1>9, <1>10, <1>11, <1>12 DEF Good, ll2, ub2, cb2

LEMMA Taken ==
  ASSUME NEW f \in Functions, NEW m, NEW ll, NEW ub, NEW b \in ub, Good(f, m, ll, ub, {})
  PROVE  Good(f, m, ll, ub \ {b}, {ll[b]}) /\ m.map[ll[b]] = f
<1>1. Sized(f, m, ub \ {b}) /\ Known(f, m, ll) /\ Registered(f, m) /\ ListedOnce(ll, ub \ {b})
  BY DEF Good, Sized, ListedOnce
<1>2. \A a \in ub : ll[a] \in 0 .. NBlocks(m, f) - 1 /\ Unended(Blk(m, f, ll[a]))
  BY DEF Good, ListedOpen
<1>3. \A a \in ub \ {b} : ll[a] # ll[b]
  BY DEF Good, ListedOnce
<1>4. Covered(f, m, ll, ub \ {b}, {ll[b]})
  BY DEF Good, Covered
<1>5. HeldOpen(f, m, {ll[b]}) /\ ListedOpen(f, m, ll, ub \ {b}, {ll[b]})
  BY <1>2, <1>3 DEF HeldOpen, ListedOpen
<1>6. m.map[ll[b]] = f
  BY <1>1, <1>2 DEF Registered
<1> QED BY <1>1, <1>4, <1>5, <1>6 DEF Good

(* codegen_ssa's llbb(b). *)
Fit(f, s, cb) == Good(f, s.m, s.llbb, s.unbuilt, cb) /\ StmtsFit(f, s.m.open[f])

LEMMA ReferencedStep ==
  ASSUME NEW s, NEW cb, NEW b \in AllMir, cur \in Functions, Fit(cur, s, cb),
         s.llbb[b] = None => NBlocks(s.m, cur) < MaxBlocks[cur]
  PROVE  LET s2 == Referenced(s, b)
         IN  /\ Fit(cur, s2, cb) /\ Step(cur, s.m, s2.m, {})
             /\ s2.llbb[b] \in 0 .. NBlocks(s2.m, cur) - 1
             /\ \A t \in AllMir \ {b} : s2.llbb[t] = s.llbb[t]
             /\ NBlocks(s2.m, cur) = NBlocks(s.m, cur) + (IF s.llbb[b] = None THEN 1 ELSE 0)
<1> DEFINE s2 == Referenced(s, b)
<1>a. PICK f \in Functions : f = cur
  OBVIOUS
<1>b. s.m \in Maps /\ s.llbb \in [AllMir -> Nat \cup {None}] /\ NBlocks(s.m, f) \in Nat
  BY <1>a, CountBlocks DEF Fit, Good, Sized, Known
<1>1. CASE s.llbb[b] # None
  <2>1. s2 = s
    BY <1>1 DEF Referenced
  <2>2. Step(f, s.m, s.m, {})
    BY <1>b DEF Step, SameHeader
  <2>3. s.llbb[b] \in 0 .. NBlocks(s.m, f) - 1
    BY <1>a, <1>1 DEF Fit, Good, Known
  <2>4. NBlocks(s.m, f) = NBlocks(s.m, f) + (IF s.llbb[b] = None THEN 1 ELSE 0)
    BY <1>1, <1>b
  <2> HIDE DEF s2
  <2> QED BY <1>a, <2>1, <2>2, <2>3, <2>4 DEF s2
<1>2. CASE s.llbb[b] = None
  <2> DEFINE n == NextId(s.m, f)
             m2 == append_block(s.m, f, "bb")
             ll2 == [s.llbb EXCEPT ![b] = n]
             ub2 == s.unbuilt \cup {b}
  <2>1. s2 = [m |-> m2, llbb |-> ll2, unbuilt |-> ub2]
    BY <1>a, <1>2 DEF Referenced
  <2>2. s2.m = m2 /\ s2.llbb = ll2 /\ s2.unbuilt = ub2
    BY <2>1
  <2>3. /\ Good(f, m2, s.llbb, s.unbuilt, cb \cup {n}) /\ StmtsFit(f, m2.open[f])
        /\ Step(f, s.m, m2, {}) /\ NBlocks(m2, f) = NBlocks(s.m, f) + 1
        /\ n = NBlocks(s.m, f) /\ n \notin cb /\ \A a \in AllMir : s.llbb[a] # n
    <3>1. "bb" \in BlockNames /\ NBlocks(s.m, f) < MaxBlocks[f] /\ Good(f, s.m, s.llbb, s.unbuilt, cb)
          /\ StmtsFit(f, s.m.open[f])
      BY <1>2, <1>a DEF BlockNames, Fit
    <3> QED BY <3>1, AppendStep
  <2> HIDE DEF n, m2
  <2>4. Good(f, m2, ll2, ub2, (cb \cup {n}) \ {n})
    <3>1. n \in cb \cup {n}
      OBVIOUS
    <3> QED BY <2>3, <1>2, <3>1, Listed
  <2>5. (cb \cup {n}) \ {n} = cb
    BY <2>3
  <2>6. ll2[b] = n /\ \A t \in AllMir \ {b} : ll2[t] = s.llbb[t]
    BY <1>b
  <2>7. n \in 0 .. NBlocks(m2, f) - 1
    BY <2>3, <1>b
  <2>8. NBlocks(m2, f) = NBlocks(s.m, f) + (IF s.llbb[b] = None THEN 1 ELSE 0)
    BY <1>2, <2>3
  <2> HIDE DEF s2, ll2, ub2
  <2>9. Fit(f, s2, cb)
    BY <2>2, <2>3, <2>4, <2>5 DEF Fit
  <2> QED BY <1>a, <2>2, <2>3, <2>6, <2>7, <2>8, <2>9 DEF s2
<1> QED BY <1>1, <1>2

(* The other pieces of an action: labels, statements, headers, room. *)
LEMMA LabelIsThere ==
  ASSUME NEW f \in Functions, NEW m \in Maps, NEW c \in 0 .. NBlocks(m, f) - 1
  PROVE  block_label(m, f, c) \in LabelsIn(m.open[f]) /\ LabelsIn(m.open[f]) \subseteq Labels
<1>1. c + 1 \in 1 .. NBlocks(m, f) /\ c < NBlocks(m, f)
  BY CountBlocks
<1>2. block_label(m, f, c) = m.open[f].blocks[c + 1].label
  BY <1>1 DEF block_label, HasBlock, NBlocks
<1>3. m.open[f] \in FnDefs
  BY CountBlocks
<1>4. \A k \in 1 .. Len(m.open[f].blocks) : m.open[f].blocks[k] \in Blocks
  BY <1>3, FnDefFields
<1> QED BY <1>1, <1>2, <1>4 DEF LabelsIn, NBlocks, Blocks

LEMMA PlainStmt ==
  ASSUME NEW kind \in {"goto", "return", "unreachable", "resume"}, NEW labels \in SUBSET Labels,
         NEW info \in {None, "none", "value", "_retbuf"}, cur \in Functions
  PROVE  LET st == Stmt(kind, labels, info)
         IN  /\ st \in Stmts /\ st.kind = kind /\ st.kind \in Terminators
             /\ \A fd : labels \subseteq LabelsIn(fd) => StmtOK(cur, fd, st)
             /\ kind # "return" => ReturnOK(cur, st)
             /\ st.info = info
<1> DEFINE st == Stmt(kind, labels, info)
<1>1. st = [of |-> cur, kind |-> kind, labels |-> labels, info |-> info]
  BY DEF Stmt
<1>2. /\ st.of = cur /\ st.kind = kind /\ st.labels = labels /\ st.info = info
  BY <1>1
<1>3. st \in Stmts
  <2>1. info \in Infos /\ kind \in Terminators \cup {"call"}
    BY DEF Infos, Terminators
  <2> QED BY <1>1, <2>1 DEF Stmts
<1> HIDE DEF st
<1>4. kind \in Terminators
  BY DEF Terminators
<1>5. ASSUME NEW fd, labels \subseteq LabelsIn(fd) PROVE StmtOK(cur, fd, st)
  BY <1>2, <1>5 DEF StmtOK
<1>6. kind # "return" => ReturnOK(cur, st)
  BY <1>2 DEF ReturnOK
<1> QED BY <1>2, <1>3, <1>4, <1>5, <1>6 DEF st

LEMMA CallingStmt ==
  ASSUME NEW kind \in {"call", "invoke"}, NEW labels \in SUBSET Labels,
         NEW g \in Functions, cur \in Functions
  PROVE  LET st == CallStmt(kind, labels, g)
         IN  /\ st \in Stmts /\ st.kind = kind /\ (st.kind \in Terminators <=> kind = "invoke")
             /\ \A fd : labels \subseteq LabelsIn(fd) => StmtOK(cur, fd, st)
             /\ ReturnOK(cur, st)
<1> DEFINE info == [callee |-> g, args |-> CallArgs(g)]
           st == CallStmt(kind, labels, g)
<1>1. info \in Infos
  BY DEF Infos
<1>a. info = [callee |-> g, args |-> CallArgs(g)]
  OBVIOUS
<1>b. st = [of |-> cur, kind |-> kind, labels |-> labels, info |-> info]
  BY DEF CallStmt, Stmt
<1> HIDE DEF info, st
<1>2. /\ st.of = cur /\ st.kind = kind /\ st.labels = labels /\ st.info = info
  BY <1>b
<1>3. st \in Stmts
  <2>1. kind \in Terminators \cup {"call"}
    BY DEF Terminators
  <2> QED BY <1>1, <1>b, <2>1 DEF Stmts
<1>4. kind \in Terminators <=> kind = "invoke"
  BY DEF Terminators
<1>5. ASSUME NEW fd, labels \subseteq LabelsIn(fd) PROVE StmtOK(cur, fd, st)
  BY <1>2, <1>5, <1>a DEF StmtOK
<1>6. ReturnOK(cur, st)
  BY <1>2 DEF ReturnOK
<1> QED BY <1>2, <1>3, <1>4, <1>5, <1>6 DEF st

LEMMA HeaderKept ==
  ASSUME NEW f, NEW m, NEW m2, NEW sts, Step(f, m, m2, sts), HeaderOK(f, m.open[f]),
         \A st \in sts : st.kind # "invoke"
  PROVE  HeaderOK(f, m2.open[f])
<1> DEFINE fd == m.open[f]
           fd2 == m2.open[f]
<1>1. SameHeader(fd, fd2) /\ StmtsIn(fd2) = StmtsIn(fd) \cup sts
  BY DEF Step
<1>2. HeaderOK(f, fd)
  OBVIOUS
<1> HIDE DEF fd, fd2
<1>3. LocalsOf(fd2) = LocalsOf(fd)
  BY <1>1 DEF SameHeader, LocalsOf
<1>4. (\E s \in StmtsIn(fd2) : s.kind = "invoke") <=> (\E s \in StmtsIn(fd) : s.kind = "invoke")
  BY <1>1
<1>5. HeaderOK(f, fd2)
  BY <1>1, <1>2, <1>3, <1>4 DEF HeaderOK, SameHeader
<1> QED BY <1>5 DEF fd2

LEMMA CountOfTwo ==
  ASSUME NEW a, NEW b, NEW X \in SUBSET {a, b}
  PROVE  /\ Cardinality(X) \in Nat
         /\ X # {} => Cardinality(X) >= 1
         /\ a \in X /\ b \in X /\ a # b => Cardinality(X) >= 2
<1>1. IsFiniteSet({}) /\ Cardinality({}) = 0
  BY FS_EmptySet
<1>2. IsFiniteSet({a}) /\ Cardinality({a}) = 1 /\ IsFiniteSet({b}) /\ Cardinality({b}) = 1
  BY FS_Singleton
<1>3. a # b => IsFiniteSet({a} \cup {b}) /\ Cardinality({a} \cup {b}) = 2
  BY <1>2, FS_AddElement
<1>4. CASE X = {}
  BY <1>1, <1>4
<1>5. CASE X = {a}
  BY <1>2, <1>5
<1>6. CASE X = {b}
  BY <1>2, <1>6
<1>7. CASE X = {a} \cup {b} /\ a # b
  BY <1>3, <1>7
<1>8. X = {} \/ X = {a} \/ X = {b} \/ (X = {a} \cup {b} /\ a # b)
  OBVIOUS
<1> QED BY <1>4, <1>5, <1>6, <1>7, <1>8

-----------------------------------------------------------------------------
(* What a builder at work may rely on, and what it has to leave behind.    *)

LEMMA AtWork ==
  ASSUME IInv, Building
  PROVE  /\ cur \in Functions /\ cur \notin done /\ builder = [fn |-> cur, bb |-> builder.bb]
         /\ builder.fn = cur
         /\ Good(cur, M, llbb, unbuilt, {builder.bb}) /\ StmtsFit(cur, M.open[cur])
         /\ HeaderOK(cur, M.open[cur]) /\ M \in Maps /\ M.open = open /\ M.map = block_to_function
<1>1. cur \in Functions /\ cur \notin done /\ builder = [fn |-> cur, bb |-> builder.bb] /\ builder # None
  BY DEF IInv, Building
<1>2. InHand = {builder.bb}
  BY <1>1 DEF InHand
<1>3. M.open = open /\ M.map = block_to_function
  BY DEF M
<1>4. Good(cur, M, llbb, unbuilt, {builder.bb}) /\ M \in Maps
  BY <1>2 DEF IInv, Building
<1>5. StmtsFit(cur, M.open[cur])
  BY <1>1, <1>3 DEF IInv, StmtsFit
<1>6. HeaderOK(cur, M.open[cur])
  <2>1. cur \in done \cup ({cur} \ {None})
    BY DEF Building
  <2> QED BY <1>3, <2>1 DEF IInv
<1>7. builder.fn = cur
  BY <1>1
<1> QED BY <1>1, <1>3, <1>4, <1>5, <1>6, <1>7

LEMMA BodyAt ==
  ASSUME IInv, NEW f \in Functions, cur = f \/ cur = None, f \notin done, cur' = f, done' = done,
         DOMAIN params' = Functions, params'[f] = ParamsOf(f),
         \A g \in Functions \ {f} : params'[g] = params[g],
         NEW m2, NEW cb2, open' = m2.open, block_to_function' = m2.map,
         InHand' = cb2, builder' = None \/ builder' = [fn |-> f, bb |-> builder'.bb],
         Good(f, m2, llbb', unbuilt', cb2), StmtsFit(f, m2.open[f]), HeaderOK(f, m2.open[f]),
         \A g \in Functions \ {f} : m2.open[g] = open[g]
  PROVE  IInv'
<1>1. m2 \in Maps /\ f # None /\ done \subseteq Functions
  <2>1. f # None
    BY BoundAssumption
  <2> QED BY <2>1 DEF Good, Sized, IInv
<1>2. M' = m2
  <2>1. m2 = [open |-> m2.open, map |-> m2.map]
    BY <1>1 DEF Maps
  <2> QED BY <2>1 DEF M
<1>3. Good(cur, M, llbb, unbuilt, InHand)'
  BY <1>2
<1>4. \A g \in Functions \ (done' \cup {cur'}) :
        open'[g] = [blocks |-> <<>>, retbuf_name |-> FALSE, invoke_counter |-> 0, local_decls |-> <<>>]
  <2>1. \A g \in Functions \ (done' \cup {cur'}) : g \in Functions \ (done \cup {cur}) /\ open'[g] = open[g]
    BY BoundAssumption
  <2> QED BY <2>1 DEF IInv
<1>5. \A g \in done : open'[g] = open[g] /\ g # f /\ params'[g] = params[g]
  BY <1>1
<1>6. \A g \in done' : \A b \in BlocksOf(g)' : Ended(b)
  <2>1. \A g \in done : BlocksOf(g)' = BlocksOf(g)
    BY <1>5 DEF BlocksOf
  <2> QED BY <2>1 DEF IInv
<1>7. \A g \in Functions : \A c \in 1 .. Len(open'[g].blocks) : open'[g].blocks[c].label[1] = c - 1
  <2>1. ASSUME NEW g \in Functions, g # f, NEW c \in 1 .. Len(open'[g].blocks)
        PROVE  open'[g].blocks[c].label[1] = c - 1
    BY <2>1 DEF IInv
  <2>2. ASSUME NEW c \in 1 .. Len(open'[f].blocks)
        PROVE  open'[f].blocks[c].label[1] = c - 1
    <3>1. NBlocks(m2, f) = Len(open'[f].blocks) /\ NBlocks(m2, f) \in Nat
      BY <1>1, CountBlocks DEF NBlocks
    <3>2. c - 1 \in 0 .. NBlocks(m2, f) - 1 /\ (c - 1) + 1 = c
      BY <3>1
    <3>3. Blk(m2, f, c - 1).label[1] = c - 1
      BY <3>2 DEF Good, Registered
    <3> QED BY <3>2, <3>3 DEF Blk
  <2> QED BY <2>1, <2>2
<1>8. \A g \in Functions : \A s \in StmtsIn(open'[g]) : StmtOK(g, open'[g], s) /\ ReturnOK(g, s)
  <2>1. \A g \in Functions \ {f} : StmtsFit(g, open[g])
    BY DEF IInv, StmtsFit
  <2>2. \A g \in Functions : StmtsFit(g, open'[g])
    BY <2>1
  <2> QED BY <2>2 DEF StmtsFit
<1>9. \A g \in done' \cup ({cur'} \ {None}) : HeaderOK(g, open'[g]) /\ params'[g] = ParamsOf(g)
  <2>1. \A g \in done : HeaderOK(g, open[g]) /\ params[g] = ParamsOf(g)
    BY DEF IInv
  <2> QED BY <1>5, <2>1
<1>10. cur' # None /\ cur' \in Functions \ done' /\ done' \subseteq Functions
  BY <1>1
<1>11. M' \in Maps
  BY <1>1, <1>2
<1>12. builder' # None => builder' = [fn |-> cur', bb |-> builder'.bb]
  OBVIOUS
<1> QED BY <1>3, <1>4, <1>6, <1>7, <1>8, <1>9, <1>10, <1>11, <1>12 DEF IInv

LEMMA BodyGoesOn ==
  ASSUME IInv, cur \in Functions, cur' = cur, done' = done, params' = params,
         NEW m2, NEW cb2, open' = m2.open, block_to_function' = m2.map,
         InHand' = cb2, builder' = None \/ builder' = [fn |-> cur, bb |-> builder'.bb],
         Good(cur, m2, llbb', unbuilt', cb2), StmtsFit(cur, m2.open[cur]), HeaderOK(cur, m2.open[cur]),
         \A g \in Functions \ {cur} : m2.open[g] = open[g]
  PROVE  IInv'
<1>1. cur # None
  BY BoundAssumption
<1>2. cur \notin done /\ DOMAIN params' = Functions /\ params'[cur] = ParamsOf(cur)
  BY <1>1 DEF IInv
<1>3. PICK f \in Functions : f = cur
  OBVIOUS
<1>4. /\ cur' = f /\ f \notin done /\ params'[f] = ParamsOf(f)
      /\ builder' = None \/ builder' = [fn |-> f, bb |-> builder'.bb]
      /\ Good(f, m2, llbb', unbuilt', cb2) /\ StmtsFit(f, m2.open[f]) /\ HeaderOK(f, m2.open[f])
      /\ \A g \in Functions \ {f} : m2.open[g] = open[g] /\ params'[g] = params[g]
  BY <1>2, <1>3
<1> QED BY <1>2, <1>3, <1>4, BodyAt

(* codegen_ssa's part of the state, a record. *)
IsRec(s) == s = [m |-> s.m, llbb |-> s.llbb, unbuilt |-> s.unbuilt]

LEMMA RecExcept ==
  ASSUME NEW s, IsRec(s), NEW x
  PROVE  [s EXCEPT !.m = x] = [m |-> x, llbb |-> s.llbb, unbuilt |-> s.unbuilt]
<1>1. PICK a, b, c : s = [m |-> a, llbb |-> b, unbuilt |-> c]
  BY DEF IsRec
<1> QED BY <1>1

LEMMA Records ==
  ASSUME NEW s, IsRec(s), NEW b
  PROVE  IsRec(Referenced(s, b)) /\ IsRec(S) /\ S.m = M /\ S.llbb = llbb /\ S.unbuilt = unbuilt
<1>1. IsRec(S) /\ S.m = M /\ S.llbb = llbb /\ S.unbuilt = unbuilt
  BY DEF S, IsRec
<1>2. \A x, y, z : IsRec([m |-> x, llbb |-> y, unbuilt |-> z])
  BY DEF IsRec
<1>3. IsRec(Referenced(s, b))
  <2>1. CASE s.llbb[b] # None
    BY <2>1 DEF Referenced
  <2>2. CASE s.llbb[b] = None
    BY <2>2, <1>2 DEF Referenced
  <2> QED BY <2>1, <2>2
<1> QED BY <1>1, <1>3

-----------------------------------------------------------------------------
(* The actions. *)

LEMMA TerminateKeeps ==
  ASSUME IInv, Building, NEW s, NEW st, IsRec(s), Fit(cur, s, {builder.bb}),
         \A g \in Functions \ {cur} : s.m.open[g] = open[g],
         st \in Stmts, st.kind \in Terminators, StmtOK(cur, s.m.open[cur], st), ReturnOK(cur, st),
         \A m2 : Step(cur, s.m, m2, {st}) => HeaderOK(cur, m2.open[cur]),
         Terminate(s, st)
  PROVE  IInv'
<1>1. cur \in Functions /\ builder = [fn |-> cur, bb |-> builder.bb]
  BY AtWork
<1>2. PICK c : c = builder.bb
  OBVIOUS
<1>3. PICK f \in Functions : f = cur
  BY <1>1
<1> DEFINE m2 == terminate(s.m, [fn |-> f, bb |-> c], st)
<1>4. m2 = terminate(s.m, builder, st)
  BY <1>1, <1>2, <1>3
<1>5. /\ Good(f, m2, s.llbb, s.unbuilt, {c} \ {c}) /\ StmtsFit(f, m2.open[f])
      /\ Step(f, s.m, m2, {st})
  <2>1. Good(f, s.m, s.llbb, s.unbuilt, {c}) /\ StmtsFit(f, s.m.open[f])
        /\ StmtOK(f, s.m.open[f], st) /\ ReturnOK(f, st) /\ c \in {c}
    BY <1>2, <1>3 DEF Fit
  <2> QED BY <2>1, TerminateStep
<1> HIDE DEF m2
<1>6. /\ open' = m2.open /\ block_to_function' = m2.map /\ llbb' = s.llbb /\ unbuilt' = s.unbuilt
      /\ builder' = None /\ cur' = cur /\ done' = done /\ params' = params
  <2>1. [s EXCEPT !.m = terminate(@, builder, st)] = [m |-> m2, llbb |-> s.llbb, unbuilt |-> s.unbuilt]
    BY <1>4, RecExcept
  <2>2. Becomes([m |-> m2, llbb |-> s.llbb, unbuilt |-> s.unbuilt])
    BY <2>1 DEF Terminate
  <2> QED BY <2>2 DEF Terminate, Becomes
<1>7. InHand' = {} /\ {c} \ {c} = {}
  BY <1>6 DEF InHand
<1>8. Good(cur, m2, llbb', unbuilt', {}) /\ StmtsFit(cur, m2.open[cur]) /\ HeaderOK(cur, m2.open[cur])
  BY <1>3, <1>5, <1>6, <1>7
<1>9. \A g \in Functions \ {cur} : m2.open[g] = open[g]
  BY <1>3, <1>5 DEF Step
<1> QED BY <1>1, <1>6, <1>7, <1>8, <1>9, BodyGoesOn

(* A terminator other than invoke. *)
LEMMA PlainTerminate ==
  ASSUME IInv, Building, NEW s, NEW st, NEW sts, IsRec(s), Fit(cur, s, {builder.bb}), Step(cur, M, s.m, sts),
         \A t \in sts : t.kind # "invoke",
         st \in Stmts, st.kind \in Terminators, st.kind # "invoke",
         StmtOK(cur, s.m.open[cur], st), ReturnOK(cur, st), Terminate(s, st)
  PROVE  IInv'
<1>1. HeaderOK(cur, M.open[cur]) /\ M.open = open
  BY AtWork
<1>2. HeaderOK(cur, s.m.open[cur])
  BY <1>1, HeaderKept
<1>3. \A m2 : Step(cur, s.m, m2, {st}) => HeaderOK(cur, m2.open[cur])
  <2> TAKE m2
  <2> HAVE Step(cur, s.m, m2, {st})
  <2>1. \A t \in {st} : t.kind # "invoke"
    OBVIOUS
  <2> QED BY <1>2, <2>1, HeaderKept
<1>4. \A g \in Functions \ {cur} : s.m.open[g] = open[g]
  BY <1>1 DEF Step
<1> QED BY <1>3, <1>4, TerminateKeeps

LEMMA SReady ==
  ASSUME IInv, Building
  PROVE  /\ IsRec(S) /\ S.m = M /\ S.llbb = llbb /\ S.unbuilt = unbuilt
         /\ Fit(cur, S, {builder.bb}) /\ Step(cur, M, S.m, {})
<1>1. IsRec(S) /\ S.m = M /\ S.llbb = llbb /\ S.unbuilt = unbuilt
  BY DEF S, IsRec
<1>2. Step(cur, M, M, {})
  BY AtWork DEF Step, SameHeader
<1> QED BY <1>1, <1>2, AtWork DEF Fit

LEMMA UnreachableKeeps == IInv /\ (Unreachable \/ Resume) => IInv'
<1> SUFFICES ASSUME IInv, Unreachable \/ Resume PROVE IInv'
  OBVIOUS
<1>1. PICK kind \in {"unreachable", "resume"} : Building /\ Terminate(S, Stmt(kind, {}, None))
  BY DEF Unreachable, Resume
<1>2. /\ cur \in Functions /\ IsRec(S) /\ Fit(cur, S, {builder.bb}) /\ Step(cur, M, S.m, {})
  BY <1>1, AtWork, SReady
<1> DEFINE st == Stmt(kind, {}, None)
<1>3. /\ st \in Stmts /\ st.kind \in Terminators /\ st.kind # "invoke"
      /\ StmtOK(cur, S.m.open[cur], st) /\ ReturnOK(cur, st)
  <2>1. {} \in SUBSET Labels /\ kind \in {"goto", "return", "unreachable", "resume"}
        /\ None \in {None, "none", "value", "_retbuf"} /\ {} \subseteq LabelsIn(S.m.open[cur])
    OBVIOUS
  <2> QED BY <1>2, <2>1, PlainStmt
<1>4. PICK sts : sts = {}
  OBVIOUS
<1>5. Step(cur, M, S.m, sts) /\ \A t \in sts : t.kind # "invoke"
  BY <1>2, <1>4
<1>6. Terminate(S, st)
  BY <1>1
<1> HIDE DEF st
<1> QED BY <1>1, <1>2, <1>3, <1>5, <1>6, PlainTerminate

(* What ret and ret_void give in a function whose header is right. *)
ReturnInfo(f) ==
  CASE Kind[f] = "void" -> "none" [] Kind[f] = "direct" -> "value" [] Kind[f] = "indirect" -> "_retbuf"

LEMMA ReturnIs ==
  ASSUME NEW f \in Functions, NEW m, HeaderOK(f, m.open[f]), NEW bu, bu.fn = f
  PROVE  /\ Kind[f] = "direct" => ret(m, bu, "value") = ReturnInfo(f)
         /\ Kind[f] # "direct" => ret_void(m, bu) = ReturnInfo(f)
         /\ ret(m, bu, "value") \in {None, "none", "value", "_retbuf"}
         /\ ret_void(m, bu) \in {None, "none", "value", "_retbuf"}
<1>1. Kind[f] \in {"void", "direct", "indirect"}
  BY KindAssumption
<1>2. m.open[bu.fn].retbuf_name <=> Kind[f] = "indirect"
  BY DEF HeaderOK
<1>3. CASE Kind[f] = "void"
  BY <1>2, <1>3 DEF ret, ret_void, ReturnInfo
<1>4. CASE Kind[f] = "direct"
  BY <1>2, <1>4 DEF ret, ret_void, ReturnInfo
<1>5. CASE Kind[f] = "indirect"
  BY <1>2, <1>5 DEF ret, ret_void, ReturnInfo
<1> QED BY <1>1, <1>3, <1>4, <1>5

LEMMA ReturnStmt ==
  ASSUME NEW info \in {None, "none", "value", "_retbuf"}, cur \in Functions,
         info = ReturnInfo(cur) \/ FALSE \in NamedTailCalls
  PROVE  LET st == Stmt("return", {}, info)
         IN  /\ st \in Stmts /\ st.kind \in Terminators /\ st.kind # "invoke"
             /\ \A fd : StmtOK(cur, fd, st)
             /\ ReturnOK(cur, st)
<1> DEFINE st == Stmt("return", {}, info)
<1>1. /\ st \in Stmts /\ st.kind = "return" /\ st.kind \in Terminators /\ st.info = info
      /\ \A fd : {} \subseteq LabelsIn(fd) => StmtOK(cur, fd, st)
  <2>1. {} \in SUBSET Labels /\ "return" \in {"goto", "return", "unreachable", "resume"}
    OBVIOUS
  <2> QED BY <2>1, PlainStmt
<1> HIDE DEF st
<1>2. ReturnOK(cur, st)
  BY <1>1 DEF ReturnOK, ReturnInfo
<1> QED BY <1>1, <1>2 DEF st

LEMMA ReturnKeeps == IInv /\ Return => IInv'
<1> SUFFICES ASSUME IInv, Return PROVE IInv'
  OBVIOUS
<1>1. PICK info : info = IF Kind[cur] = "direct" THEN ret(M, builder, "value") ELSE ret_void(M, builder)
  OBVIOUS
<1>2. Building /\ Terminate(S, Stmt("return", {}, info))
  BY <1>1 DEF Return
<1>3. /\ cur \in Functions /\ builder.fn = cur /\ HeaderOK(cur, M.open[cur])
      /\ IsRec(S) /\ Fit(cur, S, {builder.bb}) /\ Step(cur, M, S.m, {})
  BY <1>2, AtWork, SReady
<1>4. info = ReturnInfo(cur) /\ info \in {None, "none", "value", "_retbuf"}
  BY <1>1, <1>3, ReturnIs
<1> DEFINE st == Stmt("return", {}, info)
<1>5. /\ st \in Stmts /\ st.kind \in Terminators /\ st.kind # "invoke"
      /\ StmtOK(cur, S.m.open[cur], st) /\ ReturnOK(cur, st)
  BY <1>3, <1>4, ReturnStmt
<1>6. PICK sts : sts = {}
  OBVIOUS
<1>7. Step(cur, M, S.m, sts) /\ \A t \in sts : t.kind # "invoke"
  BY <1>3, <1>6
<1>8. Terminate(S, st)
  BY <1>2
<1> HIDE DEF st
<1> QED BY <1>2, <1>3, <1>5, <1>7, <1>8, PlainTerminate

LEMMA TailCallKeeps ==
  ASSUME NEW g \in Functions, NEW named \in NamedTailCalls, IInv, TailCall(g, named)
  PROVE  IInv'
<1>1. Building /\ Kind[g] = Kind[cur]
  BY DEF TailCall
<1>2. /\ cur \in Functions /\ builder.fn = cur /\ builder = [fn |-> cur, bb |-> builder.bb]
      /\ HeaderOK(cur, M.open[cur]) /\ StmtsFit(cur, M.open[cur])
      /\ Good(cur, M, llbb, unbuilt, {builder.bb}) /\ IsRec(S) /\ S.llbb = llbb /\ S.unbuilt = unbuilt
  BY <1>1, AtWork, SReady
<1>3. PICK f \in Functions : f = cur
  BY <1>2
<1>4. PICK c : c = builder.bb
  OBVIOUS
<1>5. PICK call : call = CallStmt("call", {}, g)
  OBVIOUS
<1>6. /\ call \in Stmts /\ call.kind = "call" /\ call.kind \notin Terminators
      /\ StmtOK(f, M.open[f], call) /\ ReturnOK(f, call)
  <2>1. {} \in SUBSET Labels /\ "call" \in {"call", "invoke"} /\ {} \subseteq LabelsIn(M.open[f]) /\ "call" # "invoke"
    OBVIOUS
  <2> QED BY <1>2, <1>3, <1>5, <2>1, CallingStmt
<1>7. PICK m : m = emit(M, [fn |-> f, bb |-> c], call)
  OBVIOUS
<1>8. /\ Good(f, m, llbb, unbuilt, {c}) /\ StmtsFit(f, m.open[f]) /\ Step(f, M, m, {call})
  <2>1. PICK ll, ub, cb : ll = llbb /\ ub = unbuilt /\ cb = {c}
    OBVIOUS
  <2>2. Good(f, M, ll, ub, cb) /\ StmtsFit(f, M.open[f]) /\ c \in cb
    BY <2>1, <1>2, <1>3, <1>4
  <2>3. PICK mm : mm = M
    OBVIOUS
  <2>4. LET m2 == emit(mm, [fn |-> f, bb |-> c], call)
        IN  Good(f, m2, ll, ub, cb) /\ StmtsFit(f, m2.open[f]) /\ Step(f, mm, m2, {call})
    BY <2>2, <2>3, <1>6, EmitStep
  <2> QED BY <2>1, <2>3, <2>4, <1>7
<1>9. HeaderOK(f, m.open[f])
  <2>1. \A t \in {call} : t.kind # "invoke"
    BY <1>6
  <2> QED BY <1>2, <1>3, <1>8, <2>1, HeaderKept
<1>10. PICK info : info = tail_call(m, builder, g, named)
  OBVIOUS
<1>11. info \in {None, "none", "value", "_retbuf"} /\ (info = ReturnInfo(f) \/ FALSE \in NamedTailCalls)
  <2>1. named \in BOOLEAN /\ Kind[f] \in {"void", "direct", "indirect"}
    BY BoundAssumption, KindAssumption
  <2>2. builder.fn = f
    BY <1>2, <1>3
  <2>3. /\ Kind[f] = "direct" => ret(m, builder, "value") = ReturnInfo(f)
        /\ Kind[f] # "direct" => ret_void(m, builder) = ReturnInfo(f)
        /\ ret(m, builder, "value") \in {None, "none", "value", "_retbuf"}
        /\ ret_void(m, builder) \in {None, "none", "value", "_retbuf"}
    <3>1. PICK bu : bu = builder
      OBVIOUS
    <3> QED BY <3>1, <1>9, <2>2, ReturnIs
  <2>4. m.open[builder.fn].retbuf_name <=> Kind[f] = "indirect"
    BY <1>9, <2>2 DEF HeaderOK
  <2>5. CASE named = FALSE
    <3>1. info = ret_void(m, builder) /\ FALSE \in NamedTailCalls
      BY <2>5, <1>10 DEF tail_call
    <3> QED BY <3>1, <2>3
  <2>6. CASE named = TRUE
    <3>1. CASE Kind[f] = "direct"
      <4>1. info = ret(m, builder, "value")
        BY <2>4, <2>6, <3>1, <1>1, <1>3, <1>10 DEF tail_call
      <4> QED BY <4>1, <3>1, <2>3
    <3>2. CASE Kind[f] # "direct"
      <4>1. info = ret_void(m, builder)
        BY <2>1, <2>4, <2>6, <3>2, <1>1, <1>3, <1>10 DEF tail_call
      <4> QED BY <4>1, <3>2, <2>3
    <3> QED BY <3>1, <3>2
  <2> QED BY <2>1, <2>5, <2>6
<1>12. PICK st : st = Stmt("return", {}, info)
  OBVIOUS
<1>13. /\ st \in Stmts /\ st.kind \in Terminators /\ st.kind # "invoke"
       /\ StmtOK(cur, m.open[cur], st) /\ ReturnOK(cur, st)
  BY <1>3, <1>11, <1>12, ReturnStmt
<1>14. PICK s : s = [m |-> m, llbb |-> llbb, unbuilt |-> unbuilt]
  OBVIOUS
<1>15. Terminate(s, st)
  <2>1. Terminate([S EXCEPT !.m = m], st)
    BY <1>2, <1>3, <1>4, <1>5, <1>7, <1>10, <1>12 DEF TailCall
  <2>2. [S EXCEPT !.m = m] = s
    <3>1. PICK ss : ss = S
      OBVIOUS
    <3> QED BY <3>1, <1>2, <1>14, RecExcept
  <2> QED BY <2>1, <2>2
<1>16. IsRec(s) /\ Fit(cur, s, {builder.bb}) /\ Step(cur, M, s.m, {call})
  BY <1>3, <1>4, <1>8, <1>14 DEF IsRec, Fit
<1>17. PICK sts : sts = {call}
  OBVIOUS
<1>18. Step(cur, M, s.m, sts) /\ \A t \in sts : t.kind # "invoke"
  BY <1>6, <1>16, <1>17
<1>19. StmtOK(cur, s.m.open[cur], st)
  BY <1>13, <1>14
<1> QED BY <1>1, <1>13, <1>15, <1>16, <1>18, <1>19, PlainTerminate

LEMMA CallKeeps ==
  ASSUME NEW g \in Functions, IInv, Call(g)
  PROVE  IInv'
<1>1. Building
  BY DEF Call
<1>2. /\ cur \in Functions /\ builder = [fn |-> cur, bb |-> builder.bb]
      /\ HeaderOK(cur, M.open[cur]) /\ StmtsFit(cur, M.open[cur]) /\ M.open = open /\ M.map = block_to_function
      /\ Good(cur, M, llbb, unbuilt, {builder.bb})
  BY <1>1, AtWork
<1>3. PICK f \in Functions : f = cur
  BY <1>2
<1>4. PICK c : c = builder.bb
  OBVIOUS
<1>5. PICK call : call = CallStmt("call", {}, g)
  OBVIOUS
<1>6. /\ call \in Stmts /\ call.kind = "call" /\ call.kind \notin Terminators
      /\ StmtOK(f, M.open[f], call) /\ ReturnOK(f, call)
  <2>1. {} \in SUBSET Labels /\ "call" \in {"call", "invoke"} /\ {} \subseteq LabelsIn(M.open[f]) /\ "call" # "invoke"
    OBVIOUS
  <2> QED BY <1>2, <1>3, <1>5, <2>1, CallingStmt
<1>7. PICK m : m = emit(M, [fn |-> f, bb |-> c], call)
  OBVIOUS
<1>8. /\ Good(f, m, llbb, unbuilt, {c}) /\ StmtsFit(f, m.open[f]) /\ Step(f, M, m, {call}) /\ m.map = M.map
  <2>1. PICK ll, ub, cb : ll = llbb /\ ub = unbuilt /\ cb = {c}
    OBVIOUS
  <2>2. Good(f, M, ll, ub, cb) /\ StmtsFit(f, M.open[f]) /\ c \in cb
    BY <2>1, <1>2, <1>3, <1>4
  <2>3. PICK mm : mm = M
    OBVIOUS
  <2>4. LET m2 == emit(mm, [fn |-> f, bb |-> c], call)
        IN  Good(f, m2, ll, ub, cb) /\ StmtsFit(f, m2.open[f]) /\ Step(f, mm, m2, {call}) /\ m2.map = mm.map
    BY <2>2, <2>3, <1>6, EmitStep
  <2> QED BY <2>1, <2>3, <2>4, <1>7
<1>9. HeaderOK(f, m.open[f])
  <2>1. \A t \in {call} : t.kind # "invoke"
    BY <1>6
  <2> QED BY <1>2, <1>3, <1>8, <2>1, HeaderKept
<1>10. /\ open' = m.open /\ block_to_function' = m.map /\ llbb' = llbb /\ unbuilt' = unbuilt
       /\ builder' = builder /\ cur' = cur /\ done' = done /\ params' = params
  BY <1>2, <1>3, <1>4, <1>5, <1>7, <1>8 DEF Call
<1>11. InHand' = {builder.bb} /\ builder' = [fn |-> cur, bb |-> builder'.bb]
  BY <1>1, <1>2, <1>10 DEF InHand, Building
<1>12. Good(cur, m, llbb', unbuilt', {builder.bb}) /\ StmtsFit(cur, m.open[cur]) /\ HeaderOK(cur, m.open[cur])
  BY <1>3, <1>4, <1>8, <1>9, <1>10
<1>13. \A h \in Functions \ {cur} : m.open[h] = open[h]
  BY <1>2, <1>3, <1>8 DEF Step
<1> QED BY <1>2, <1>10, <1>11, <1>12, <1>13, BodyGoesOn

LEMMA GotoStmt ==
  ASSUME NEW m \in Maps, NEW labels, cur \in Functions, labels \subseteq LabelsIn(m.open[cur]),
         NBlocks(m, cur) # 0
  PROVE  LET st == Stmt("goto", labels, None)
         IN  /\ st \in Stmts /\ st.kind \in Terminators /\ st.kind # "invoke"
             /\ StmtOK(cur, m.open[cur], st) /\ ReturnOK(cur, st)
<1>1. LabelsIn(m.open[cur]) \subseteq Labels
  <2>1. m.open[cur] \in FnDefs
    BY CountBlocks
  <2>2. \A k \in 1 .. Len(m.open[cur].blocks) : m.open[cur].blocks[k] \in Blocks
    BY <2>1, FnDefFields
  <2> QED BY <2>2 DEF LabelsIn, Blocks
<1>2. labels \in SUBSET Labels /\ "goto" \in {"goto", "return", "unreachable", "resume"}
      /\ None \in {None, "none", "value", "_retbuf"} /\ "goto" # "return" /\ "goto" # "invoke"
  BY <1>1
<1> QED BY <1>2, PlainStmt

(* Fit blocks have labels. *)
LEMMA FitLabel ==
  ASSUME NEW f \in Functions, NEW s, NEW cb, Fit(f, s, cb), NEW c \in 0 .. NBlocks(s.m, f) - 1
  PROVE  block_label(s.m, f, c) \in LabelsIn(s.m.open[f])
<1>1. s.m \in Maps
  BY DEF Fit, Good, Sized
<1> QED BY <1>1, LabelIsThere

LEMMA BranchKeeps ==
  ASSUME NEW a \in MirBlocks, NEW b \in MirBlocks, IInv, Branch(a, b)
  PROVE  IInv'
<1>1. Building /\ Room(Cardinality({t \in {a, b} : llbb[t] = None}))
  BY DEF Branch
<1>2. /\ cur \in Functions /\ builder.fn = cur /\ M \in Maps /\ a \in AllMir /\ b \in AllMir
      /\ IsRec(S) /\ S.m = M /\ S.llbb = llbb /\ Fit(cur, S, {builder.bb})
  BY <1>1, AtWork, SReady DEF AllMir
<1>3. NBlocks(M, cur) \in Nat /\ MaxBlocks[cur] \in Nat /\ NextId(M, cur) = NBlocks(M, cur)
  BY <1>2, CountBlocks DEF NextId, NBlocks
<1>4. PICK X : X = {t \in {a, b} : llbb[t] = None}
  OBVIOUS
<1>5. Cardinality(X) \in Nat /\ (X # {} => Cardinality(X) >= 1)
      /\ (a \in X /\ b \in X /\ a # b => Cardinality(X) >= 2)
  BY <1>4, CountOfTwo
<1>6. NBlocks(M, cur) + Cardinality(X) <= MaxBlocks[cur]
  BY <1>1, <1>3, <1>4 DEF Room
<1>7. PICK s0 : s0 = S
  OBVIOUS
<1>8. PICK s1 : s1 = Referenced(s0, a)
  OBVIOUS
<1>9. PICK cb : cb = {builder.bb}
  OBVIOUS
<1>10. /\ Fit(cur, s1, cb) /\ Step(cur, s0.m, s1.m, {}) /\ s1.llbb[a] \in 0 .. NBlocks(s1.m, cur) - 1
       /\ \A t \in AllMir \ {a} : s1.llbb[t] = s0.llbb[t]
       /\ NBlocks(s1.m, cur) = NBlocks(s0.m, cur) + (IF s0.llbb[a] = None THEN 1 ELSE 0)
  <2>1. s0.llbb[a] = None => NBlocks(s0.m, cur) < MaxBlocks[cur]
    BY <1>2, <1>3, <1>4, <1>5, <1>6, <1>7
  <2>2. Fit(cur, s0, cb)
    BY <1>2, <1>7, <1>9
  <2> QED BY <1>2, <1>8, <2>1, <2>2, ReferencedStep
<1>11. PICK s2 : s2 = Referenced(s1, b)
  OBVIOUS
<1>12. s1.llbb[a] # None
  <2>1. NBlocks(s1.m, cur) \in Nat
    BY <1>2, <1>10, CountBlocks DEF Step
  <2>2. s1.llbb[a] \in Nat
    BY <1>10, <2>1
  <2> QED BY <2>2, BoundAssumption
<1>13. /\ Fit(cur, s2, cb) /\ Step(cur, s1.m, s2.m, {}) /\ s2.llbb[b] \in 0 .. NBlocks(s2.m, cur) - 1
       /\ \A t \in AllMir \ {b} : s2.llbb[t] = s1.llbb[t]
       /\ NBlocks(s2.m, cur) = NBlocks(s1.m, cur) + (IF s1.llbb[b] = None THEN 1 ELSE 0)
  <2>1. ASSUME s1.llbb[b] = None PROVE NBlocks(s1.m, cur) < MaxBlocks[cur]
    <3>1. a # b
      BY <1>12, <2>1
    <3>2. b \in X
      BY <1>2, <1>4, <1>7, <1>10, <2>1, <3>1
    <3>3. CASE s0.llbb[a] = None
      <4>1. Cardinality(X) >= 2
        BY <1>2, <1>4, <1>5, <1>7, <3>1, <3>2, <3>3
      <4>2. NBlocks(s1.m, cur) = NBlocks(M, cur) + 1
        BY <1>2, <1>7, <1>10, <3>3
      <4> QED BY <4>1, <4>2, <1>3, <1>5, <1>6
    <3>4. CASE s0.llbb[a] # None
      <4>1. NBlocks(s1.m, cur) = NBlocks(M, cur)
        BY <1>2, <1>3, <1>7, <1>10, <3>4
      <4>2. Cardinality(X) >= 1
        BY <1>5, <3>2
      <4> QED BY <4>1, <4>2, <1>3, <1>5, <1>6
    <3> QED BY <3>3, <3>4
  <2> QED BY <1>2, <1>10, <1>11, <2>1, ReferencedStep
<1>14. PICK labels : labels = {block_label(s2.m, builder.fn, s2.llbb[t]) : t \in {a, b}}
  OBVIOUS
<1>15. s2.m \in Maps /\ NBlocks(s2.m, cur) \in Nat /\ NBlocks(s1.m, cur) \in Nat
  BY <1>2, <1>10, <1>13, CountBlocks DEF Step
<1>16. \A t \in {a, b} : s2.llbb[t] \in 0 .. NBlocks(s2.m, cur) - 1
  <2>1. CASE a = b
    BY <2>1, <1>13
  <2>2. CASE a # b
    <3>1. s2.llbb[a] = s1.llbb[a]
      BY <2>2, <1>2, <1>13
    <3>2. s2.llbb[a] \in 0 .. NBlocks(s2.m, cur) - 1
      BY <3>1, <1>10, <1>13, <1>15
    <3> QED BY <3>2, <1>13
  <2> QED BY <2>1, <2>2
<1>17. labels \subseteq LabelsIn(s2.m.open[cur]) /\ NBlocks(s2.m, cur) # 0
  <2>1. \A t \in {a, b} : block_label(s2.m, cur, s2.llbb[t]) \in LabelsIn(s2.m.open[cur])
    BY <1>2, <1>13, <1>16, FitLabel
  <2>2. NBlocks(s2.m, cur) # 0
    BY <1>15, <1>16
  <2> QED BY <2>1, <2>2, <1>2, <1>14
<1>18. PICK st : st = Stmt("goto", labels, None)
  OBVIOUS
<1>19. /\ st \in Stmts /\ st.kind \in Terminators /\ st.kind # "invoke"
       /\ StmtOK(cur, s2.m.open[cur], st) /\ ReturnOK(cur, st)
  BY <1>2, <1>15, <1>17, <1>18, GotoStmt
<1>20. PICK none : none = {}
  OBVIOUS
<1>21. Step(cur, M, s2.m, none) /\ \A t \in none : t.kind # "invoke"
  <2>1. Step(cur, s0.m, s2.m, none \cup none)
    BY <1>10, <1>13, <1>20, StepTrans
  <2>2. none \cup none = none
    OBVIOUS
  <2> QED BY <2>1, <2>2, <1>2, <1>7, <1>20
<1>22. IsRec(s2)
  <2>1. IsRec(s1)
    BY <1>2, <1>7, <1>8, Records
  <2> QED BY <2>1, <1>11, Records
<1>23. Terminate(s2, st) /\ Fit(cur, s2, {builder.bb})
  BY <1>7, <1>8, <1>9, <1>11, <1>13, <1>14, <1>18 DEF Branch
<1> QED BY <1>1, <1>19, <1>21, <1>22, <1>23, PlainTerminate

LEMMA SameBlocks ==
  ASSUME NEW f \in Functions, NEW m, NEW ll, NEW ub, NEW cb, Good(f, m, ll, ub, cb),
         StmtsFit(f, m.open[f]), NEW m2 \in Maps, m2.map = m.map,
         m2.open[f].blocks = m.open[f].blocks
  PROVE  /\ Good(f, m2, ll, ub, cb) /\ StmtsFit(f, m2.open[f]) /\ SameSize(f, m, m2)
         /\ StmtsIn(m2.open[f]) = StmtsIn(m.open[f]) /\ LabelsIn(m2.open[f]) = LabelsIn(m.open[f])
<1>1. NBlocks(m2, f) = NBlocks(m, f) /\ \A c : Blk(m2, f, c) = Blk(m, f, c)
  BY DEF NBlocks, Blk
<1>2. StmtsIn(m2.open[f]) = StmtsIn(m.open[f]) /\ LabelsIn(m2.open[f]) = LabelsIn(m.open[f])
  BY DEF StmtsIn, LabelsIn
<1>3. StmtsFit(f, m2.open[f])
  BY <1>2 DEF StmtsFit, StmtOK
<1>4. Sized(f, m2, ub) /\ Known(f, m2, ll) /\ Registered(f, m2)
  BY <1>1 DEF Good, Sized, Known, Registered
<1>5. Covered(f, m2, ll, ub, cb) /\ HeldOpen(f, m2, cb) /\ ListedOpen(f, m2, ll, ub, cb)
  BY <1>1 DEF Good, Covered, HeldOpen, ListedOpen
<1> QED BY <1>1, <1>2, <1>3, <1>4, <1>5 DEF Good, SameSize

LEMMA ContextDef ==
  ASSUME NEW fd \in FnDefs
  PROVE  LET fd2 == declare_context(fd)
         IN  /\ fd2 \in FnDefs /\ fd2.blocks = fd.blocks /\ fd2.retbuf_name = fd.retbuf_name
             /\ fd2.invoke_counter = fd.invoke_counter + 1
             /\ fd2.local_decls = IF fd.invoke_counter = 0 THEN Append(fd.local_decls, "__unwind_ctx")
                                                           ELSE fd.local_decls
<1> DEFINE ld == IF fd.invoke_counter = 0 THEN Append(fd.local_decls, "__unwind_ctx") ELSE fd.local_decls
<1>1. fd.local_decls \in Seq({"_retbuf", "__unwind_ctx"}) /\ fd.invoke_counter \in Nat
  BY DEF FnDefs
<1>2. ld \in Seq({"_retbuf", "__unwind_ctx"})
  BY <1>1, AppendProperties
<1>3. declare_context(fd) = [fd EXCEPT !.local_decls = ld, !.invoke_counter = fd.invoke_counter + 1]
  BY DEF declare_context, FnDefs
<1> HIDE DEF ld
<1>a. fd.invoke_counter + 1 \in Nat
  BY <1>1
<1>b. PICK n \in Nat : n = fd.invoke_counter + 1
  BY <1>a, Zenon
<1>4. PICK fd2 : fd2 = [fd EXCEPT !.local_decls = ld, !.invoke_counter = n]
  OBVIOUS
<1>5. fd2 \in FnDefs
  BY <1>2, <1>4 DEF FnDefs
<1>6. /\ fd2.blocks = fd.blocks /\ fd2.retbuf_name = fd.retbuf_name
      /\ fd2.invoke_counter = n /\ fd2.local_decls = ld
  BY <1>4 DEF FnDefs
<1> QED BY <1>b, <1>3, <1>4, <1>5, <1>6 DEF ld

(* One invoke more, with its context declared, is a header again. *)
LEMMA HeaderInvoke ==
  ASSUME NEW f \in Functions, NEW fd \in FnDefs, NEW fd2, NEW st, HeaderOK(f, fd), st.kind = "invoke",
         SameHeader(declare_context(fd), fd2), StmtsIn(fd2) = StmtsIn(fd) \cup {st}
  PROVE  HeaderOK(f, fd2)
<1>1. /\ fd2.retbuf_name = fd.retbuf_name /\ fd2.invoke_counter = fd.invoke_counter + 1
      /\ fd2.local_decls = IF fd.invoke_counter = 0 THEN Append(fd.local_decls, "__unwind_ctx")
                                                    ELSE fd.local_decls
  BY ContextDef DEF SameHeader
<1>2. fd.invoke_counter \in Nat /\ fd.retbuf_name \in BOOLEAN
  BY DEF FnDefs
<1>3. fd2.invoke_counter > 0 /\ st \in StmtsIn(fd2)
  BY <1>1, <1>2
<1>4. fd2.local_decls = LocalsOf(fd2)
  <2> DEFINE r == IF fd.retbuf_name THEN <<"_retbuf">> ELSE <<>>
  <2>1. LocalsOf(fd2) = r \o <<"__unwind_ctx">>
    BY <1>1, <1>3 DEF LocalsOf
  <2>2. r \in Seq({"_retbuf", "__unwind_ctx"})
    <3>1. <<"_retbuf">> \in Seq({"_retbuf", "__unwind_ctx"}) /\ <<>> \in Seq({"_retbuf", "__unwind_ctx"})
      OBVIOUS
    <3> QED BY <3>1
  <2>3. fd.local_decls = LocalsOf(fd)
    BY DEF HeaderOK
  <2>4. CASE fd.invoke_counter = 0
    <3>1. LocalsOf(fd) = r \o <<>>
      BY <2>4 DEF LocalsOf
    <3>2. r \o <<>> = r
      <4> HIDE DEF r
      <4> QED BY <2>2
    <3>3. Append(r, "__unwind_ctx") = r \o <<"__unwind_ctx">>
      <4> HIDE DEF r
      <4> QED BY <2>2
    <3>4. fd2.local_decls = Append(fd.local_decls, "__unwind_ctx")
      BY <1>1, <2>4
    <3> HIDE DEF r
    <3> QED BY <2>1, <2>3, <3>1, <3>2, <3>3, <3>4
  <2>5. CASE fd.invoke_counter # 0
    <3>1. LocalsOf(fd) = r \o <<"__unwind_ctx">>
      BY <1>2, <2>5 DEF LocalsOf
    <3>2. fd2.local_decls = fd.local_decls
      BY <1>1, <2>5
    <3> HIDE DEF r
    <3> QED BY <2>1, <2>3, <3>1, <3>2
  <2> QED BY <2>4, <2>5
<1>5. fd2.retbuf_name = (Kind[f] = "indirect")
  BY <1>1 DEF HeaderOK
<1> QED BY <1>3, <1>4, <1>5 DEF HeaderOK

(* A block of the builder's own: appended, then the MIR block referred to. *)
LEMMA AppendThenRefer ==
  ASSUME IInv, Building, NEW name \in BlockNames, NEW b \in AllMir,
         NBlocks(M, cur) < MaxBlocks[cur],
         llbb[b] = None => NBlocks(M, cur) + 1 < MaxBlocks[cur]
  PROVE  LET id == NextId(M, cur)
             s == Referenced([S EXCEPT !.m = append_block(@, cur, name)], b)
         IN  /\ IsRec(s) /\ Fit(cur, s, {builder.bb, id}) /\ Step(cur, M, s.m, {})
             /\ id # builder.bb /\ id \in Nat /\ id \in 0 .. NBlocks(s.m, cur) - 1
             /\ s.m.map[id] = cur
             /\ s.llbb[b] \in 0 .. NBlocks(s.m, cur) - 1
             /\ \A t \in AllMir \ {b} : s.llbb[t] = llbb[t]
             /\ NBlocks(s.m, cur) = NBlocks(M, cur) + 1 + (IF llbb[b] = None THEN 1 ELSE 0)
<1>1. /\ cur \in Functions /\ M \in Maps /\ Good(cur, M, llbb, unbuilt, {builder.bb})
      /\ StmtsFit(cur, M.open[cur]) /\ IsRec(S) /\ S.m = M /\ S.llbb = llbb /\ S.unbuilt = unbuilt
  BY AtWork, SReady
<1>2. PICK f \in Functions : f = cur
  BY <1>1
<1>3. PICK mm, ll, ub, c : mm = M /\ ll = llbb /\ ub = unbuilt /\ c = builder.bb
  OBVIOUS
<1>4. NBlocks(mm, f) \in Nat /\ MaxBlocks[f] \in Nat
  BY <1>1, <1>2, <1>3, CountBlocks
<1>5. PICK id : id = NextId(mm, f)
  OBVIOUS
<1>6. PICK m2 : m2 = append_block(mm, f, name)
  OBVIOUS
<1>7. /\ Good(f, m2, ll, ub, {c} \cup {id}) /\ StmtsFit(f, m2.open[f])
      /\ Step(f, mm, m2, {}) /\ NBlocks(m2, f) = NBlocks(mm, f) + 1
      /\ id = NBlocks(mm, f) /\ id \notin {c}
  <2>1. PICK cb : cb = {c}
    OBVIOUS
  <2>2. Good(f, mm, ll, ub, cb) /\ StmtsFit(f, mm.open[f]) /\ NBlocks(mm, f) < MaxBlocks[f]
    BY <1>1, <1>2, <1>3, <2>1
  <2> DEFINE a2 == append_block(mm, f, name)
             n == NextId(mm, f)
  <2>3. /\ Good(f, a2, ll, ub, cb \cup {n}) /\ StmtsFit(f, a2.open[f])
        /\ Step(f, mm, a2, {}) /\ NBlocks(a2, f) = NBlocks(mm, f) + 1
        /\ n = NBlocks(mm, f) /\ n \notin cb /\ \A t \in AllMir : ll[t] # n
    BY <2>2, AppendStep
  <2> HIDE DEF a2, n
  <2>4. a2 = m2 /\ n = id
    BY <1>5, <1>6 DEF a2, n
  <2> QED BY <2>1, <2>3, <2>4
<1>8. PICK s1 : s1 = [m |-> m2, llbb |-> ll, unbuilt |-> ub]
  OBVIOUS
<1>9. s1.m = m2 /\ s1.llbb = ll /\ s1.unbuilt = ub /\ IsRec(s1)
  BY <1>8 DEF IsRec
<1>10. [S EXCEPT !.m = append_block(@, cur, name)] = s1
  <2>1. PICK s0 : s0 = S
    OBVIOUS
  <2>2. [s0 EXCEPT !.m = m2] = s1
    BY <2>1, <1>1, <1>3, <1>8, RecExcept
  <2> QED BY <2>1, <2>2, <1>1, <1>2, <1>3, <1>6
<1>11. PICK s : s = Referenced(s1, b)
  OBVIOUS
<1>12. PICK cb : cb = {c} \cup {id}
  OBVIOUS
<1>13. /\ Fit(cur, s, cb) /\ Step(cur, s1.m, s.m, {})
       /\ s.llbb[b] \in 0 .. NBlocks(s.m, cur) - 1
       /\ \A t \in AllMir \ {b} : s.llbb[t] = s1.llbb[t]
       /\ NBlocks(s.m, cur) = NBlocks(s1.m, cur) + (IF s1.llbb[b] = None THEN 1 ELSE 0)
  <2>1. Fit(cur, s1, cb)
    BY <1>2, <1>7, <1>9, <1>12 DEF Fit
  <2>2. s1.llbb[b] = None => NBlocks(s1.m, cur) < MaxBlocks[cur]
    BY <1>2, <1>3, <1>7, <1>9
  <2> QED BY <1>1, <1>11, <2>1, <2>2, ReferencedStep
<1>14. IsRec(s)
  BY <1>9, <1>11, Records
<1>15. Step(f, mm, s.m, {})
  <2>1. PICK none : none = {}
    OBVIOUS
  <2>2. Step(f, mm, s.m, none \cup none)
    BY <2>1, <1>2, <1>7, <1>9, <1>13, StepTrans
  <2>3. none \cup none = none
    OBVIOUS
  <2> QED BY <2>1, <2>2, <2>3
<1>16. NBlocks(s.m, f) = NBlocks(mm, f) + 1 + (IF ll[b] = None THEN 1 ELSE 0)
  BY <1>2, <1>4, <1>7, <1>9, <1>13
<1>17. id \in Nat /\ id \in 0 .. NBlocks(s.m, f) - 1
  <2>1. CASE ll[b] = None
    BY <2>1, <1>4, <1>7, <1>16
  <2>2. CASE ll[b] # None
    BY <2>2, <1>4, <1>7, <1>16
  <2> QED BY <2>1, <2>2
<1>18. s.m.map[id] = f
  BY <1>2, <1>13, <1>17 DEF Fit, Good, Registered
<1>19. id # c /\ cb = {c, id}
  BY <1>7, <1>12
<1>20. \A t \in AllMir \ {b} : s.llbb[t] = ll[t]
  BY <1>9, <1>13
<1>21. id = NextId(M, cur) /\ s = Referenced([S EXCEPT !.m = append_block(@, cur, name)], b)
  BY <1>2, <1>3, <1>5, <1>10, <1>11
<1> QED BY <1>2, <1>3, <1>13, <1>14, <1>15, <1>16, <1>17, <1>18, <1>19, <1>20, <1>21

LEMMA SiblingKeeps ==
  ASSUME NEW b \in MirBlocks, NEW rebuild \in BOOLEAN, IInv, Sibling(b, rebuild)
  PROVE  IInv'
<1>1. Building /\ Room(1 + Cardinality({t \in {b} : llbb[t] = None}))
  BY DEF Sibling
<1>2. /\ cur \in Functions /\ builder = [fn |-> cur, bb |-> builder.bb] /\ builder.fn = cur
      /\ M \in Maps /\ M.open = open /\ HeaderOK(cur, M.open[cur]) /\ b \in AllMir
      /\ cur # None
  BY <1>1, AtWork, BoundAssumption DEF AllMir
<1>3. NBlocks(M, cur) \in Nat /\ MaxBlocks[cur] \in Nat /\ NextId(M, cur) = NBlocks(M, cur)
  BY <1>2, CountBlocks DEF NextId, NBlocks
<1>4. /\ NBlocks(M, cur) < MaxBlocks[cur]
      /\ llbb[b] = None => NBlocks(M, cur) + 1 < MaxBlocks[cur]
  <2>1. PICK X : X = {t \in {b} : llbb[t] = None}
    OBVIOUS
  <2>2. Cardinality(X) \in Nat /\ (X # {} => Cardinality(X) >= 1)
    <3>1. X \in SUBSET {b, b}
      BY <2>1
    <3> QED BY <3>1, CountOfTwo
  <2>3. NBlocks(M, cur) + (1 + Cardinality(X)) <= MaxBlocks[cur]
    BY <1>1, <1>3, <2>1 DEF Room
  <2>4. llbb[b] = None => X # {}
    BY <2>1
  <2> QED BY <1>3, <2>2, <2>3, <2>4
<1>5. PICK id : id = NextId(M, cur)
  OBVIOUS
<1>6. PICK s : s = Referenced([S EXCEPT !.m = append_block(@, cur, "next")], b)
  OBVIOUS
<1>7. /\ IsRec(s) /\ Fit(cur, s, {builder.bb, id}) /\ Step(cur, M, s.m, {})
      /\ id # builder.bb /\ id \in Nat /\ id \in 0 .. NBlocks(s.m, cur) - 1
      /\ s.m.map[id] = cur /\ s.llbb[b] \in 0 .. NBlocks(s.m, cur) - 1
  <2>1. "next" \in BlockNames
    BY DEF BlockNames
  <2> QED BY <1>1, <1>2, <1>4, <1>5, <1>6, <2>1, AppendThenRefer
<1>8. PICK labels : labels = {block_label(s.m, cur, id), block_label(s.m, cur, s.llbb[b])}
  OBVIOUS
<1>9. s.m \in Maps /\ NBlocks(s.m, cur) \in Nat
  BY <1>2, <1>7, CountBlocks DEF Step
<1>10. labels \subseteq LabelsIn(s.m.open[cur]) /\ NBlocks(s.m, cur) # 0
  <2>1. PICK cb : cb = {builder.bb, id}
    OBVIOUS
  <2>2. block_label(s.m, cur, id) \in LabelsIn(s.m.open[cur])
    BY <1>2, <1>7, <2>1, FitLabel
  <2>3. block_label(s.m, cur, s.llbb[b]) \in LabelsIn(s.m.open[cur])
    BY <1>2, <1>7, <2>1, FitLabel
  <2>4. NBlocks(s.m, cur) # 0
    BY <1>7, <1>9
  <2> QED BY <1>8, <2>2, <2>3, <2>4
<1>11. PICK st : st = Stmt("goto", labels, None)
  OBVIOUS
<1>12. /\ st \in Stmts /\ st.kind \in Terminators /\ st.kind # "invoke"
       /\ StmtOK(cur, s.m.open[cur], st) /\ ReturnOK(cur, st)
  BY <1>2, <1>9, <1>10, <1>11, GotoStmt
<1>13. PICK f \in Functions : f = cur
  BY <1>2
<1>14. PICK c : c = builder.bb
  OBVIOUS
<1>15. PICK m2 : m2 = terminate(s.m, [fn |-> f, bb |-> c], st)
  OBVIOUS
<1>16. /\ Good(f, m2, s.llbb, s.unbuilt, {id}) /\ StmtsFit(f, m2.open[f]) /\ Step(f, s.m, m2, {st})
  <2>1. PICK cb : cb = {c, id}
    OBVIOUS
  <2>2. Good(f, s.m, s.llbb, s.unbuilt, cb) /\ StmtsFit(f, s.m.open[f]) /\ c \in cb
        /\ StmtOK(f, s.m.open[f], st) /\ ReturnOK(f, st)
    BY <1>7, <1>12, <1>13, <1>14, <2>1 DEF Fit
  <2>3. /\ Good(f, m2, s.llbb, s.unbuilt, cb \ {c}) /\ StmtsFit(f, m2.open[f]) /\ Step(f, s.m, m2, {st})
    BY <1>12, <1>15, <2>2, TerminateStep
  <2>4. cb \ {c} = {id}
    BY <2>1, <1>7, <1>14
  <2> QED BY <2>3, <2>4
<1>17. HeaderOK(f, m2.open[f]) /\ \A g \in Functions \ {f} : m2.open[g] = open[g]
  <2>1. PICK none, sts : none = {} /\ sts = {st}
    OBVIOUS
  <2>2. Step(f, M, m2, none \cup sts)
    BY <1>7, <1>13, <1>16, <2>1, StepTrans
  <2>3. \A t \in none \cup sts : t.kind # "invoke"
    BY <1>12, <2>1
  <2>4. HeaderOK(f, M.open[f])
    BY <1>2, <1>13
  <2>5. HeaderOK(f, m2.open[f])
    BY <2>2, <2>3, <2>4, HeaderKept
  <2> QED BY <1>2, <2>2, <2>5 DEF Step
<1>18. [s EXCEPT !.m = terminate(@, builder, st)] = [m |-> m2, llbb |-> s.llbb, unbuilt |-> s.unbuilt]
  BY <1>2, <1>7, <1>13, <1>14, <1>15, RecExcept
<1>19. /\ open' = m2.open /\ block_to_function' = m2.map /\ llbb' = s.llbb /\ unbuilt' = s.unbuilt
  <2>1. Becomes([s EXCEPT !.m = terminate(@, builder, st)])
    BY <1>2, <1>5, <1>6, <1>8, <1>11 DEF Sibling
  <2>2. Becomes([m |-> m2, llbb |-> s.llbb, unbuilt |-> s.unbuilt])
    BY <2>1, <1>18
  <2> QED BY <2>2 DEF Becomes
<1>20. cur' = cur /\ done' = done /\ params' = params
  BY DEF Sibling
<1>21. builder' = [fn |-> cur, bb |-> id]
  <2>1. builder' = IF rebuild THEN build(s.m, id) ELSE switch_to_block(builder, id)
    BY <1>2, <1>5, <1>6 DEF Sibling
  <2>2. build(s.m, id) = [fn |-> cur, bb |-> id]
    BY <1>7 DEF build
  <2>3. switch_to_block(builder, id) = [fn |-> cur, bb |-> id]
    <3>1. PICK x, y : x = cur /\ y = builder.bb
      OBVIOUS
    <3>2. builder = [fn |-> x, bb |-> y]
      BY <1>2, <3>1
    <3> QED BY <3>1, <3>2 DEF switch_to_block
  <2> QED BY <2>1, <2>2, <2>3
<1>22. builder' # None /\ builder'.bb = id
  <2>1. builder' \in [fn : Functions, bb : Nat] /\ builder'.bb = id
    BY <1>2, <1>7, <1>21
  <2> QED BY <2>1, BoundAssumption
<1>23. InHand' = {id} /\ builder' = [fn |-> cur, bb |-> builder'.bb]
  BY <1>21, <1>22 DEF InHand
<1>24. Good(cur, m2, llbb', unbuilt', {id}) /\ StmtsFit(cur, m2.open[cur]) /\ HeaderOK(cur, m2.open[cur])
       /\ \A g \in Functions \ {cur} : m2.open[g] = open[g]
  BY <1>13, <1>16, <1>17, <1>19
<1> QED BY <1>2, <1>19, <1>20, <1>23, <1>24, BodyGoesOn

(* The landing pad, in a builder of its own: up to s3 of Invoke. *)
PadState(b, pad, s1, padder, s2, s3) ==
  /\ pad = NextId(M, cur)
  /\ s1 = Referenced([S EXCEPT !.m = append_block(@, cur, "cleanup")], CleanupBlock)
  /\ padder = build(s1.m, pad)
  /\ s2 = [s1 EXCEPT !.m = terminate(@, padder,
             Stmt("goto", {block_label(s1.m, padder.fn, s1.llbb[CleanupBlock])}, None))]
  /\ s3 = Referenced(s2, b)

LEMMA PadIsBuilt ==
  ASSUME NEW b \in MirBlocks, IInv, Building, NEW pad, NEW s1, NEW padder, NEW s2, NEW s3,
         PadState(b, pad, s1, padder, s2, s3),
         Room(1 + Cardinality({t \in {b, CleanupBlock} : llbb[t] = None}))
  PROVE  \E st : /\ st.kind # "invoke" /\ IsRec(s3) /\ Fit(cur, s3, {builder.bb}) /\ Step(cur, M, s3.m, {st})
                 /\ pad \in 0 .. NBlocks(s3.m, cur) - 1
                 /\ s3.llbb[b] \in 0 .. NBlocks(s3.m, cur) - 1
<1>a. pad = NextId(M, cur)
  BY DEF PadState
<1>b. s1 = Referenced([S EXCEPT !.m = append_block(@, cur, "cleanup")], CleanupBlock)
  BY DEF PadState
<1>c. padder = build(s1.m, pad)
  BY DEF PadState
<1>d. s2 = [s1 EXCEPT !.m = terminate(s1.m, padder,
             Stmt("goto", {block_label(s1.m, padder.fn, s1.llbb[CleanupBlock])}, None))]
  BY DEF PadState
<1>e. s3 = Referenced(s2, b)
  BY DEF PadState
<1>1. /\ cur \in Functions /\ M \in Maps /\ b \in AllMir /\ CleanupBlock \in AllMir /\ b # CleanupBlock
  BY AtWork, BoundAssumption DEF AllMir
<1>2. NBlocks(M, cur) \in Nat /\ MaxBlocks[cur] \in Nat /\ NextId(M, cur) = NBlocks(M, cur)
  BY <1>1, CountBlocks DEF NextId, NBlocks
<1>3. PICK X : X = {t \in {b, CleanupBlock} : llbb[t] = None}
  OBVIOUS
<1>4. /\ Cardinality(X) \in Nat /\ (X # {} => Cardinality(X) >= 1)
      /\ (b \in X /\ CleanupBlock \in X => Cardinality(X) >= 2)
  BY <1>1, <1>3, CountOfTwo
<1>5. NBlocks(M, cur) + (1 + Cardinality(X)) <= MaxBlocks[cur]
  BY <1>2, <1>3 DEF Room
<1>6. /\ NBlocks(M, cur) < MaxBlocks[cur]
      /\ llbb[CleanupBlock] = None => NBlocks(M, cur) + 1 < MaxBlocks[cur]
      /\ llbb[b] = None => NBlocks(M, cur) + 1 < MaxBlocks[cur]
      /\ llbb[b] = None /\ llbb[CleanupBlock] = None => NBlocks(M, cur) + 2 < MaxBlocks[cur]
  <2>1. llbb[CleanupBlock] = None => CleanupBlock \in X
    BY <1>3
  <2>2. llbb[b] = None => b \in X
    BY <1>3
  <2> QED BY <1>2, <1>4, <1>5, <2>1, <2>2
<1>7. PICK c : c = builder.bb
  OBVIOUS
<1>8. /\ IsRec(s1) /\ Fit(cur, s1, {c, pad}) /\ Step(cur, M, s1.m, {})
      /\ pad # c /\ pad \in Nat /\ pad \in 0 .. NBlocks(s1.m, cur) - 1
      /\ s1.m.map[pad] = cur /\ s1.llbb[CleanupBlock] \in 0 .. NBlocks(s1.m, cur) - 1
      /\ \A t \in AllMir \ {CleanupBlock} : s1.llbb[t] = llbb[t]
      /\ NBlocks(s1.m, cur) = NBlocks(M, cur) + 1 + (IF llbb[CleanupBlock] = None THEN 1 ELSE 0)
  <2>1. "cleanup" \in BlockNames
    BY DEF BlockNames
  <2> QED BY <1>a, <1>b, <1>1, <1>6, <1>7, <2>1, AppendThenRefer
<1>9. padder = [fn |-> cur, bb |-> pad] /\ padder.fn = cur
  BY <1>c, <1>8 DEF build
<1>10. PICK labels : labels = {block_label(s1.m, cur, s1.llbb[CleanupBlock])}
  OBVIOUS
<1>11. s1.m \in Maps /\ NBlocks(s1.m, cur) \in Nat
  BY <1>1, <1>8, CountBlocks DEF Step
<1>12. labels \subseteq LabelsIn(s1.m.open[cur]) /\ NBlocks(s1.m, cur) # 0
  <2>1. PICK cb : cb = {c, pad}
    OBVIOUS
  <2>2. block_label(s1.m, cur, s1.llbb[CleanupBlock]) \in LabelsIn(s1.m.open[cur])
    BY <1>1, <1>8, <2>1, FitLabel
  <2>3. NBlocks(s1.m, cur) # 0
    BY <1>8, <1>11
  <2> QED BY <1>10, <2>2, <2>3
<1>13. PICK st : st = Stmt("goto", labels, None)
  OBVIOUS
<1>14. /\ st \in Stmts /\ st.kind \in Terminators /\ st.kind # "invoke"
       /\ StmtOK(cur, s1.m.open[cur], st) /\ ReturnOK(cur, st)
  BY <1>1, <1>11, <1>12, <1>13, GotoStmt
<1>15. PICK f \in Functions : f = cur
  BY <1>1
<1>16. PICK m2 : m2 = terminate(s1.m, [fn |-> f, bb |-> pad], st)
  OBVIOUS
<1>17. /\ Good(f, m2, s1.llbb, s1.unbuilt, {c}) /\ StmtsFit(f, m2.open[f])
       /\ Step(f, s1.m, m2, {st}) /\ SameSize(f, s1.m, m2)
  <2>1. PICK cb : cb = {c, pad}
    OBVIOUS
  <2>2. Good(f, s1.m, s1.llbb, s1.unbuilt, cb) /\ StmtsFit(f, s1.m.open[f]) /\ pad \in cb
        /\ StmtOK(f, s1.m.open[f], st) /\ ReturnOK(f, st)
    BY <1>8, <1>14, <1>15, <2>1 DEF Fit
  <2>3. /\ Good(f, m2, s1.llbb, s1.unbuilt, cb \ {pad}) /\ StmtsFit(f, m2.open[f])
        /\ Step(f, s1.m, m2, {st}) /\ SameSize(f, s1.m, m2)
    BY <1>14, <1>16, <2>2, TerminateStep
  <2>4. cb \ {pad} = {c}
    BY <2>1, <1>8
  <2> QED BY <2>3, <2>4
<1>18. s2 = [m |-> m2, llbb |-> s1.llbb, unbuilt |-> s1.unbuilt]
  <2>1. s2 = [s1 EXCEPT !.m = m2]
    BY <1>d, <1>9, <1>10, <1>13, <1>15, <1>16
  <2> QED BY <1>8, <2>1, RecExcept
<1>19. s2.m = m2 /\ s2.llbb = s1.llbb /\ s2.unbuilt = s1.unbuilt /\ IsRec(s2)
  BY <1>18 DEF IsRec
<1>20. NBlocks(s2.m, cur) = NBlocks(s1.m, cur)
  BY <1>15, <1>17, <1>19 DEF SameSize
<1>21. PICK cb : cb = {c}
  OBVIOUS
<1>22. /\ Fit(cur, s3, cb) /\ Step(cur, s2.m, s3.m, {}) /\ s3.llbb[b] \in 0 .. NBlocks(s3.m, cur) - 1
       /\ NBlocks(s3.m, cur) = NBlocks(s2.m, cur) + (IF s2.llbb[b] = None THEN 1 ELSE 0)
  <2>1. Fit(cur, s2, cb)
    BY <1>15, <1>17, <1>19, <1>21 DEF Fit
  <2>2. s2.llbb[b] = llbb[b]
    BY <1>1, <1>8, <1>19
  <2>3. s2.llbb[b] = None => NBlocks(s2.m, cur) < MaxBlocks[cur]
    <3>1. CASE llbb[CleanupBlock] = None
      BY <3>1, <2>2, <1>2, <1>6, <1>8, <1>20
    <3>2. CASE llbb[CleanupBlock] # None
      BY <3>2, <2>2, <1>2, <1>6, <1>8, <1>20
    <3> QED BY <3>1, <3>2
  <2>4. PICK s5 : s5 = Referenced(s2, b)
    OBVIOUS
  <2>5. /\ Fit(cur, s5, cb) /\ Step(cur, s2.m, s5.m, {}) /\ s5.llbb[b] \in 0 .. NBlocks(s5.m, cur) - 1
        /\ \A t \in AllMir \ {b} : s5.llbb[t] = s2.llbb[t]
        /\ NBlocks(s5.m, cur) = NBlocks(s2.m, cur) + (IF s2.llbb[b] = None THEN 1 ELSE 0)
    BY <1>1, <2>1, <2>3, <2>4, ReferencedStep
  <2> QED BY <1>e, <2>4, <2>5
<1>23. Step(cur, M, s3.m, {st})
  <2>1. PICK none, sts : none = {} /\ sts = {st}
    OBVIOUS
  <2>2. Step(cur, M, m2, none \cup sts)
    BY <1>8, <1>15, <1>17, <2>1, StepTrans
  <2>3. Step(cur, M, s3.m, (none \cup sts) \cup none)
    BY <2>1, <2>2, <1>19, <1>22, StepTrans
  <2>4. (none \cup sts) \cup none = {st}
    BY <2>1
  <2> QED BY <2>3, <2>4
<1>24. IsRec(s3)
  BY <1>e, <1>19, Records
<1>25. pad \in 0 .. NBlocks(s3.m, cur) - 1
  BY <1>8, <1>11, <1>20, <1>22
<1> QED BY <1>7, <1>14, <1>21, <1>22, <1>23, <1>24, <1>25

LEMMA InvokeKeeps ==
  ASSUME NEW g \in Functions, NEW b \in MirBlocks, IInv, Invoke(g, b)
  PROVE  IInv'
<1>1. Building /\ Room(1 + Cardinality({t \in {b, CleanupBlock} : llbb[t] = None}))
  BY DEF Invoke
<1>2. /\ cur \in Functions /\ builder.fn = cur
      /\ M \in Maps /\ M.open = open /\ HeaderOK(cur, M.open[cur])
  BY <1>1, AtWork
<1>3. PICK pad : pad = NextId(M, cur)
  OBVIOUS
<1>4. PICK s1 : s1 = Referenced([S EXCEPT !.m = append_block(@, cur, "cleanup")], CleanupBlock)
  OBVIOUS
<1>5. PICK padder : padder = build(s1.m, pad)
  OBVIOUS
<1>6. PICK s2 : s2 = [s1 EXCEPT !.m = terminate(@, padder,
                   Stmt("goto", {block_label(s1.m, padder.fn, s1.llbb[CleanupBlock])}, None))]
  OBVIOUS
<1>7. PICK s3 : s3 = Referenced(s2, b)
  OBVIOUS
<1>8. PICK goto : /\ goto.kind # "invoke" /\ IsRec(s3) /\ Fit(cur, s3, {builder.bb}) /\ Step(cur, M, s3.m, {goto})
                  /\ pad \in 0 .. NBlocks(s3.m, cur) - 1
                  /\ s3.llbb[b] \in 0 .. NBlocks(s3.m, cur) - 1
  <2>1. PadState(b, pad, s1, padder, s2, s3)
    BY <1>3, <1>4, <1>5, <1>6, <1>7 DEF PadState
  <2> QED BY <1>1, <2>1, PadIsBuilt
<1>9. PICK f \in Functions : f = cur
  BY <1>2
<1>10. PICK fd : fd = s3.m.open[f]
  OBVIOUS
<1>11. s3.m \in Maps /\ fd \in FnDefs
  BY <1>8, <1>9, <1>10, CountBlocks DEF Step
<1>12. HeaderOK(f, fd)
  <2>1. PICK sts : sts = {goto}
    OBVIOUS
  <2>2. Step(f, M, s3.m, sts) /\ HeaderOK(f, M.open[f]) /\ \A t \in sts : t.kind # "invoke"
    BY <1>2, <1>8, <1>9, <2>1
  <2>3. PICK mm : mm = M
    OBVIOUS
  <2>4. HeaderOK(f, s3.m.open[f])
    BY <2>2, <2>3, HeaderKept
  <2> QED BY <2>4, <1>10
<1>13. PICK m4 : m4 = [s3.m EXCEPT !.open[f] = declare_context(@)]
  OBVIOUS
<1>14. PICK fd4 : fd4 = declare_context(fd)
  OBVIOUS
<1>15. fd4 \in FnDefs /\ fd4.blocks = fd.blocks
  BY <1>11, <1>14, ContextDef
<1>16. /\ m4.open = [s3.m.open EXCEPT ![f] = fd4] /\ m4.map = s3.m.map /\ m4 \in Maps
  BY <1>10, <1>11, <1>13, <1>14, <1>15 DEF Maps
<1>17. m4.open[f] = fd4 /\ \A h \in Functions \ {f} : m4.open[h] = s3.m.open[h]
  BY <1>11, <1>16 DEF Maps
<1>18. /\ Good(f, m4, s3.llbb, s3.unbuilt, {builder.bb}) /\ StmtsFit(f, m4.open[f]) /\ SameSize(f, s3.m, m4)
       /\ StmtsIn(m4.open[f]) = StmtsIn(s3.m.open[f]) /\ LabelsIn(m4.open[f]) = LabelsIn(s3.m.open[f])
  <2>1. PICK cb : cb = {builder.bb}
    OBVIOUS
  <2>2. Good(f, s3.m, s3.llbb, s3.unbuilt, cb) /\ StmtsFit(f, s3.m.open[f])
    BY <2>1, <1>8, <1>9 DEF Fit
  <2>3. m4.open[f].blocks = s3.m.open[f].blocks
    BY <1>10, <1>15, <1>17
  <2>4. /\ Good(f, m4, s3.llbb, s3.unbuilt, cb) /\ StmtsFit(f, m4.open[f]) /\ SameSize(f, s3.m, m4)
        /\ StmtsIn(m4.open[f]) = StmtsIn(s3.m.open[f]) /\ LabelsIn(m4.open[f]) = LabelsIn(s3.m.open[f])
    BY <2>2, <2>3, <1>16, SameBlocks
  <2> QED BY <2>1, <2>4
<1>19. PICK s4 : s4 = [m |-> m4, llbb |-> s3.llbb, unbuilt |-> s3.unbuilt]
  OBVIOUS
<1>20. s4.m = m4 /\ s4.llbb = s3.llbb /\ s4.unbuilt = s3.unbuilt /\ IsRec(s4)
  BY <1>19 DEF IsRec
<1>21. [s3 EXCEPT !.m.open[builder.fn] = declare_context(@)] = s4
  <2>1. [s3 EXCEPT !.m.open[builder.fn] = declare_context(@)] = [s3 EXCEPT !.m = m4]
    BY <1>2, <1>9, <1>13
  <2> QED BY <2>1, <1>8, <1>19, RecExcept
<1>22. Fit(cur, s4, {builder.bb})
  BY <1>9, <1>18, <1>20 DEF Fit
<1>23. PICK labels : labels = {block_label(s4.m, cur, pad), block_label(s4.m, cur, s4.llbb[b])}
  OBVIOUS
<1>24. NBlocks(s4.m, cur) = NBlocks(s3.m, cur)
  BY <1>9, <1>18, <1>20 DEF SameSize
<1>25. labels \subseteq LabelsIn(s4.m.open[cur]) /\ labels \in SUBSET Labels
  <2>1. pad \in 0 .. NBlocks(s4.m, cur) - 1 /\ s4.llbb[b] \in 0 .. NBlocks(s4.m, cur) - 1
    BY <1>8, <1>20, <1>24
  <2>2. s4.m \in Maps
    BY <1>16, <1>20
  <2>3. block_label(s4.m, cur, pad) \in LabelsIn(s4.m.open[cur]) /\ LabelsIn(s4.m.open[cur]) \subseteq Labels
    BY <1>2, <2>1, <2>2, LabelIsThere
  <2>4. block_label(s4.m, cur, s4.llbb[b]) \in LabelsIn(s4.m.open[cur])
    BY <1>2, <2>1, <2>2, LabelIsThere
  <2> QED BY <1>23, <2>3, <2>4
<1>26. PICK st : st = CallStmt("invoke", labels, g)
  OBVIOUS
<1>27. /\ st \in Stmts /\ st.kind = "invoke" /\ st.kind \in Terminators
       /\ StmtOK(cur, s4.m.open[cur], st) /\ ReturnOK(cur, st)
  <2>1. "invoke" \in {"call", "invoke"}
    OBVIOUS
  <2> QED BY <1>2, <1>25, <1>26, <2>1, CallingStmt
<1>28. Terminate(s4, st)
  <2>1. Terminate(s4, CallStmt("invoke",
          {block_label(s4.m, builder.fn, pad), block_label(s4.m, builder.fn, s4.llbb[b])}, g))
    BY <1>3, <1>4, <1>5, <1>6, <1>7, <1>21 DEF Invoke
  <2> QED BY <2>1, <1>2, <1>23, <1>26
<1>29. \A m5 : Step(cur, s4.m, m5, {st}) => HeaderOK(cur, m5.open[cur])
  <2> TAKE m5
  <2> HAVE Step(cur, s4.m, m5, {st})
  <2>1. SameHeader(fd4, m5.open[f]) /\ StmtsIn(m5.open[f]) = StmtsIn(fd4) \cup {st}
    BY <1>9, <1>17, <1>20 DEF Step
  <2>2. StmtsIn(fd4) = StmtsIn(fd)
    BY <1>10, <1>17, <1>18
  <2>3. PICK fd5 : fd5 = m5.open[f]
    OBVIOUS
  <2>4. SameHeader(declare_context(fd), fd5) /\ StmtsIn(fd5) = StmtsIn(fd) \cup {st}
    BY <2>1, <2>2, <2>3, <1>14
  <2>5. HeaderOK(f, fd5)
    BY <2>4, <1>11, <1>12, <1>27, HeaderInvoke
  <2> QED BY <2>3, <2>5, <1>9
<1>30. \A h \in Functions \ {cur} : s4.m.open[h] = open[h]
  BY <1>2, <1>8, <1>9, <1>17, <1>20 DEF Step
<1> QED BY <1>1, <1>20, <1>22, <1>27, <1>28, <1>29, <1>30, TerminateKeeps

LEMMA ReturnBufferDef ==
  ASSUME NEW fd \in FnDefs, ~fd.retbuf_name
  PROVE  LET fd2 == ReturnBuffer(fd)
         IN  /\ fd2 \in FnDefs /\ fd2.blocks = fd.blocks /\ fd2.retbuf_name = TRUE
             /\ fd2.invoke_counter = fd.invoke_counter
             /\ fd2.local_decls = Append(fd.local_decls, "_retbuf")
<1>1. fd.local_decls \in Seq({"_retbuf", "__unwind_ctx"})
  BY DEF FnDefs
<1>2. PICK ld : ld = Append(fd.local_decls, "_retbuf")
  OBVIOUS
<1>3. ld \in Seq({"_retbuf", "__unwind_ctx"})
  BY <1>1, <1>2, AppendProperties
<1>4. ReturnBuffer(fd) = [fd EXCEPT !.retbuf_name = TRUE, !.local_decls = ld]
  BY <1>2 DEF ReturnBuffer, FnDefs
<1>5. PICK fd2 : fd2 = [fd EXCEPT !.retbuf_name = TRUE, !.local_decls = ld]
  OBVIOUS
<1>6. fd2 \in FnDefs
  BY <1>3, <1>5 DEF FnDefs
<1>7. /\ fd2.blocks = fd.blocks /\ fd2.retbuf_name = TRUE
      /\ fd2.invoke_counter = fd.invoke_counter /\ fd2.local_decls = ld
  BY <1>5 DEF FnDefs
<1> QED BY <1>2, <1>4, <1>5, <1>6, <1>7

LEMMA StartBodyKeeps ==
  ASSUME NEW f \in Functions, IInv, StartBody(f)
  PROVE  IInv'
<1> DEFINE empty == [blocks |-> <<>>, retbuf_name |-> FALSE, invoke_counter |-> 0, local_decls |-> <<>>]
<1>1. /\ cur = None /\ f \notin done /\ f # None /\ M \in Maps /\ M.open = open /\ M.map = block_to_function
      /\ builder = None /\ unbuilt = {} /\ llbb = [b \in AllMir |-> None] /\ DOMAIN params = Functions
  BY BoundAssumption DEF StartBody, IInv, M
<1>2. open[f] = empty
  <2>1. f \in Functions \ (done \cup {cur})
    BY <1>1
  <2> QED BY <2>1 DEF IInv
<1>3. PICK mm, ll, ub, cb : mm = M /\ ll = llbb /\ ub = unbuilt /\ cb = {}
  OBVIOUS
<1>4. NBlocks(mm, f) = 0 /\ StmtsIn(mm.open[f]) = {} /\ mm.open[f] = empty
  BY <1>1, <1>2, <1>3 DEF NBlocks, StmtsIn
<1>5. MaxBlocks[f] \in Nat /\ 0 < MaxBlocks[f]
  BY BoundAssumption
<1>6. Good(f, mm, ll, ub, cb) /\ StmtsFit(f, mm.open[f])
  <2>1. \A c : c \notin 0 .. NBlocks(mm, f) - 1
    BY <1>4
  <2>2. Sized(f, mm, ub)
    BY <1>1, <1>3, <1>4, <1>5 DEF Sized
  <2>3. Known(f, mm, ll)
    BY <1>1, <1>3 DEF Known
  <2>4. Registered(f, mm) /\ Covered(f, mm, ll, ub, cb)
    BY <2>1 DEF Registered, Covered
  <2>5. HeldOpen(f, mm, cb) /\ ListedOpen(f, mm, ll, ub, cb) /\ ListedOnce(ll, ub)
    BY <1>1, <1>3 DEF HeldOpen, ListedOpen, ListedOnce
  <2>6. StmtsFit(f, mm.open[f])
    BY <1>4 DEF StmtsFit
  <2> QED BY <2>2, <2>3, <2>4, <2>5, <2>6 DEF Good
<1>7. PICK m : m = append_block(mm, f, "start")
  OBVIOUS
<1>8. PICK id : id = NextId(mm, f)
  OBVIOUS
<1>9. /\ Good(f, m, ll, ub, {id}) /\ StmtsFit(f, m.open[f])
      /\ Step(f, mm, m, {}) /\ id = 0 /\ m.map[id] = f
  <2>1. "start" \in BlockNames /\ NBlocks(mm, f) < MaxBlocks[f]
    BY <1>4, <1>5 DEF BlockNames
  <2> DEFINE a2 == append_block(mm, f, "start")
             n == NextId(mm, f)
  <2>2. /\ Good(f, a2, ll, ub, cb \cup {n}) /\ StmtsFit(f, a2.open[f])
        /\ Step(f, mm, a2, {}) /\ NBlocks(a2, f) = NBlocks(mm, f) + 1
        /\ n = NBlocks(mm, f) /\ n \notin cb /\ \A t \in AllMir : ll[t] # n
    BY <1>6, <2>1, AppendStep
  <2> HIDE DEF a2, n
  <2>3. a2 = m /\ n = id /\ cb \cup {id} = {id}
    BY <1>3, <1>7, <1>8 DEF a2, n
  <2>4. id = 0 /\ NBlocks(m, f) = 1
    <3>1. NBlocks(m, f) = NBlocks(mm, f) + 1 /\ id = NBlocks(mm, f)
      BY <2>2, <2>3
    <3> QED BY <3>1, <1>4
  <2>5. m.map[id] = f
    BY <2>2, <2>3, <2>4 DEF Good, Registered
  <2> QED BY <2>2, <2>3, <2>4, <2>5
<1>10. PICK bu : bu = build(m, id)
  OBVIOUS
<1>11. bu = [fn |-> f, bb |-> id] /\ bu.fn = f /\ bu.bb = id /\ bu # None
  <2>1. bu = [fn |-> f, bb |-> id]
    BY <1>9, <1>10 DEF build
  <2>2. bu \in [fn : Functions, bb : Nat]
    BY <2>1, <1>9
  <2> QED BY <2>1, <2>2, BoundAssumption
<1>12. /\ builder' = bu /\ block_to_function' = m.map /\ params' = [params EXCEPT ![f] = ParamsOf(f)]
       /\ open' = IF Kind[f] = "indirect" THEN [m.open EXCEPT ![f] = ReturnBuffer(@)] ELSE m.open
       /\ cur' = f /\ llbb' = ll /\ unbuilt' = ub /\ done' = done
  BY <1>3, <1>7, <1>8, <1>10, <1>11 DEF StartBody
<1>13. PICK m2 : m2 = [open |-> open', map |-> m.map]
  OBVIOUS
<1>14. m \in Maps /\ m.open[f] \in FnDefs
  BY <1>9, CountBlocks DEF Step
<1>15. /\ m.open[f].retbuf_name = FALSE /\ m.open[f].invoke_counter = 0 /\ m.open[f].local_decls = <<>>
       /\ StmtsIn(m.open[f]) = {}
  BY <1>4, <1>9 DEF Step, SameHeader
<1>16. /\ m2 \in Maps /\ m2.open[f].blocks = m.open[f].blocks
       /\ \A g \in Functions \ {f} : m2.open[g] = m.open[g]
       /\ m2.open[f].retbuf_name = (Kind[f] = "indirect")
       /\ m2.open[f].invoke_counter = 0
       /\ m2.open[f].local_decls = IF Kind[f] = "indirect" THEN Append(<<>>, "_retbuf") ELSE <<>>
  <2>1. CASE Kind[f] = "indirect"
    <3>1. PICK fd2 : fd2 = ReturnBuffer(m.open[f])
      OBVIOUS
    <3>2. /\ fd2 \in FnDefs /\ fd2.blocks = m.open[f].blocks /\ fd2.retbuf_name = TRUE
          /\ fd2.invoke_counter = 0 /\ fd2.local_decls = Append(<<>>, "_retbuf")
      <4>1. ~m.open[f].retbuf_name
        BY <1>15
      <4> QED BY <4>1, <1>14, <1>15, <3>1, ReturnBufferDef
    <3>3. m2 = [open |-> [m.open EXCEPT ![f] = fd2], map |-> m.map]
      BY <1>12, <1>13, <2>1, <3>1
    <3>4. m2 \in Maps /\ m2.open = [m.open EXCEPT ![f] = fd2]
      BY <1>14, <3>2, <3>3 DEF Maps
    <3>5. m2.open[f] = fd2 /\ \A g \in Functions \ {f} : m2.open[g] = m.open[g]
      BY <1>14, <3>4 DEF Maps
    <3> QED BY <2>1, <3>2, <3>4, <3>5
  <2>2. CASE Kind[f] # "indirect"
    <3>1. m2.open = m.open /\ m2.map = m.map /\ m2 = m
      BY <1>12, <1>13, <1>14, <2>2 DEF Maps
    <3> QED BY <3>1, <2>2, <1>14, <1>15
  <2> QED BY <2>1, <2>2
<1>17. m2.map = m.map /\ m2.open = open'
  BY <1>13
<1>18. /\ Good(f, m2, ll, ub, {id}) /\ StmtsFit(f, m2.open[f]) /\ StmtsIn(m2.open[f]) = {}
  <2>1. PICK c1 : c1 = {id}
    OBVIOUS
  <2>2. /\ Good(f, m2, ll, ub, c1) /\ StmtsFit(f, m2.open[f]) /\ SameSize(f, m, m2)
        /\ StmtsIn(m2.open[f]) = StmtsIn(m.open[f]) /\ LabelsIn(m2.open[f]) = LabelsIn(m.open[f])
    BY <2>1, <1>9, <1>16, <1>17, SameBlocks
  <2> QED BY <2>1, <2>2, <1>15
<1>19. HeaderOK(f, m2.open[f])
  <2>1. PICK fd : fd = m2.open[f]
    OBVIOUS
  <2>2. fd.local_decls = LocalsOf(fd)
    <3>1. CASE Kind[f] = "indirect"
      <4>0. fd.retbuf_name = TRUE /\ fd.invoke_counter = 0
        BY <1>16, <2>1, <3>1
      <4>1. LocalsOf(fd) = <<"_retbuf">> \o <<>>
        BY <4>0 DEF LocalsOf
      <4> QED BY <4>1, <1>16, <2>1, <3>1
    <3>2. CASE Kind[f] # "indirect"
      <4>0. fd.retbuf_name = FALSE /\ fd.invoke_counter = 0
        BY <1>16, <2>1, <3>2
      <4>1. LocalsOf(fd) = <<>> \o <<>>
        BY <4>0 DEF LocalsOf
      <4> QED BY <4>1, <1>16, <2>1, <3>2
    <3> QED BY <3>1, <3>2
  <2> QED BY <1>16, <1>18, <2>1, <2>2 DEF HeaderOK
<1>20. \A g \in Functions \ {f} : m2.open[g] = open[g]
  BY <1>1, <1>3, <1>9, <1>16 DEF Step
<1>21. InHand' = {id} /\ builder' = [fn |-> f, bb |-> builder'.bb]
  BY <1>11, <1>12 DEF InHand
<1>22. /\ DOMAIN params' = Functions /\ params'[f] = ParamsOf(f)
       /\ \A g \in Functions \ {f} : params'[g] = params[g]
  BY <1>1, <1>12
<1>23. Good(f, m2, llbb', unbuilt', {id}) /\ block_to_function' = m2.map /\ open' = m2.open
  BY <1>12, <1>17, <1>18
<1> QED BY <1>1, <1>12, <1>18, <1>19, <1>20, <1>21, <1>22, <1>23, BodyAt

LEMMA NextBlockKeeps ==
  ASSUME NEW b \in AllMir, IInv, NextBlock(b)
  PROVE  IInv'
<1>1. builder = None /\ b \in unbuilt
  BY DEF NextBlock
<1>2. cur # None /\ cur \in Functions /\ cur \notin done
  BY <1>1 DEF IInv
<1>3. M.open = open /\ M.map = block_to_function
  BY DEF M
<1>4. Good(cur, M, llbb, unbuilt, {}) /\ StmtsFit(cur, M.open[cur]) /\ HeaderOK(cur, M.open[cur]) /\ M \in Maps
  <2>1. InHand = {}
    BY <1>1 DEF InHand
  <2>2. Good(cur, M, llbb, unbuilt, {}) /\ M \in Maps
    BY <1>2, <2>1 DEF IInv
  <2>3. StmtsFit(cur, M.open[cur])
    BY <1>2, <1>3 DEF IInv, StmtsFit
  <2>4. HeaderOK(cur, M.open[cur])
    BY <1>2, <1>3 DEF IInv
  <2> QED BY <2>2, <2>3, <2>4
<1>5. PICK f \in Functions : f = cur
  BY <1>2
<1>6. PICK mm, ll, ub : mm = M /\ ll = llbb /\ ub = unbuilt
  OBVIOUS
<1>7. Good(f, mm, ll, ub \ {b}, {ll[b]}) /\ mm.map[ll[b]] = f
  <2>1. b \in ub /\ Good(f, mm, ll, ub, {})
    BY <1>1, <1>4, <1>5, <1>6
  <2>2. Good(f, mm, ll, ub \ {b}, {ll[b]})
    BY <2>1, Taken
  <2>3. mm.map[ll[b]] = f
    BY <2>2 DEF Good, HeldOpen, Registered
  <2> QED BY <2>2, <2>3
<1>8. PICK id : id = ll[b]
  OBVIOUS
<1>9. id \in Nat
  <2>1. id \in 0 .. NBlocks(mm, f) - 1
    BY <1>7, <1>8 DEF Good, HeldOpen
  <2> QED BY <2>1, <1>4, <1>6, CountBlocks
<1>10. builder' = [fn |-> f, bb |-> id]
  BY <1>6, <1>7, <1>8 DEF NextBlock, build
<1>11. builder' # None /\ builder'.bb = id
  <2>1. builder' \in [fn : Functions, bb : Nat] /\ builder'.bb = id
    BY <1>9, <1>10
  <2> QED BY <2>1, BoundAssumption
<1>12. InHand' = {id} /\ builder' = [fn |-> cur, bb |-> builder'.bb]
  BY <1>5, <1>10, <1>11 DEF InHand
<1>13. /\ cur' = cur /\ done' = done /\ params' = params /\ open' = mm.open /\ block_to_function' = mm.map
       /\ llbb' = ll /\ unbuilt' = ub \ {b}
  BY <1>3, <1>6 DEF NextBlock
<1>14. Good(cur, mm, llbb', unbuilt', {id}) /\ StmtsFit(cur, mm.open[cur]) /\ HeaderOK(cur, mm.open[cur])
       /\ \A g \in Functions \ {cur} : mm.open[g] = open[g]
  BY <1>3, <1>4, <1>5, <1>6, <1>7, <1>8, <1>13
<1> QED BY <1>2, <1>12, <1>13, <1>14, BodyGoesOn

LEMMA EndBodyKeeps == IInv /\ EndBody => IInv'
<1> SUFFICES ASSUME IInv, EndBody PROVE IInv'
  OBVIOUS
<1>1. /\ builder = None /\ cur # None /\ unbuilt = {} /\ done' = done \cup {cur} /\ cur' = None
      /\ llbb' = [b \in AllMir |-> None]
      /\ open' = open /\ block_to_function' = block_to_function /\ params' = params
      /\ builder' = builder /\ unbuilt' = unbuilt
  BY DEF EndBody
<1>2. cur \in Functions /\ cur \notin done /\ Good(cur, M, llbb, {}, {}) /\ M \in Maps /\ M' = M
  <2>1. InHand = {}
    BY <1>1 DEF InHand
  <2> QED BY <1>1, <2>1 DEF IInv, M
<1>3. \A b \in BlocksOf(cur) : Ended(b)
  <2>1. \A c \in 0 .. NBlocks(M, cur) - 1 : Ended(Blk(M, cur, c))
    BY <1>2 DEF Good, Covered
  <2>2. NBlocks(M, cur) = Len(open[cur].blocks) /\ NBlocks(M, cur) \in Nat
    BY <1>2, CountBlocks DEF NBlocks, M
  <2>3. \A k \in 1 .. NBlocks(M, cur) : Ended(open[cur].blocks[k])
    <3> TAKE k \in 1 .. NBlocks(M, cur)
    <3>1. k - 1 \in 0 .. NBlocks(M, cur) - 1 /\ (k - 1) + 1 = k
      BY <2>2
    <3>2. Blk(M, cur, k - 1) = open[cur].blocks[k]
      BY <3>1 DEF Blk, M
    <3> QED BY <2>1, <3>1, <3>2
  <2> QED BY <2>2, <2>3 DEF BlocksOf
<1>4. \A f \in done' : \A b \in BlocksOf(f)' : Ended(b)
  <2>1. \A f : BlocksOf(f)' = BlocksOf(f)
    BY <1>1 DEF BlocksOf
  <2>2. \A f \in done : \A b \in BlocksOf(f) : Ended(b)
    BY DEF IInv
  <2> QED BY <1>1, <1>3, <2>1, <2>2
<1>5. \A f \in Functions \ (done' \cup {cur'}) :
        open'[f] = [blocks |-> <<>>, retbuf_name |-> FALSE, invoke_counter |-> 0, local_decls |-> <<>>]
  <2>1. \A f \in Functions \ (done' \cup {cur'}) : f \in Functions \ (done \cup {cur})
    BY <1>1
  <2> QED BY <1>1, <2>1 DEF IInv
<1>6. /\ \A f \in Functions : \A c \in 1 .. Len(open'[f].blocks) : open'[f].blocks[c].label[1] = c - 1
      /\ \A f \in Functions : \A s \in StmtsIn(open'[f]) : StmtOK(f, open'[f], s) /\ ReturnOK(f, s)
  BY <1>1 DEF IInv
<1>7. \A f \in done' \cup ({cur'} \ {None}) : HeaderOK(f, open'[f]) /\ params'[f] = ParamsOf(f)
  <2>1. \A f \in done' \cup ({cur'} \ {None}) : f \in done \cup ({cur} \ {None})
    BY <1>1
  <2> QED BY <1>1, <2>1 DEF IInv
<1>8. done' \subseteq Functions /\ DOMAIN params' = Functions /\ M' \in Maps
  BY <1>1, <1>2 DEF IInv
<1> QED BY <1>1, <1>4, <1>5, <1>6, <1>7, <1>8 DEF IInv

LEMMA InitHolds == Init => IInv
<1> SUFFICES ASSUME Init PROVE IInv
  OBVIOUS
<1> DEFINE empty == [blocks |-> <<>>, retbuf_name |-> FALSE, invoke_counter |-> 0, local_decls |-> <<>>]
<1>1. empty \in FnDefs
  <2>1. <<>> \in Seq(Blocks) /\ <<>> \in Seq({"_retbuf", "__unwind_ctx"})
    OBVIOUS
  <2> QED BY <2>1 DEF FnDefs
<1>2. open = [f \in Functions |-> empty] /\ block_to_function = [b \in Ids |-> None]
  BY DEF Init
<1>a. empty.blocks = <<>>
  OBVIOUS
<1> HIDE DEF empty
<1>3. M \in Maps
  BY <1>1, <1>2 DEF M, Maps
<1>4. \A f \in Functions : open[f] = empty /\ open[f].blocks = <<>>
  BY <1>2, <1>a
<1>5. \A f \in Functions : StmtsIn(open[f]) = {}
  BY <1>4 DEF StmtsIn
<1>6. \A f \in Functions : 1 .. Len(open[f].blocks) = {}
  BY <1>4
<1>7. /\ builder = None /\ cur = None /\ unbuilt = {} /\ llbb = [b \in AllMir |-> None] /\ done = {}
      /\ DOMAIN params = Functions
  BY DEF Init
<1> QED BY <1>3, <1>4, <1>5, <1>6, <1>7 DEF IInv, empty

LEMMA NextKeeps == IInv /\ [Next]_vars => IInv'
<1> SUFFICES ASSUME IInv, [Next]_vars PROVE IInv'
  OBVIOUS
<1>1. ASSUME NEW f \in Functions, StartBody(f) PROVE IInv'
  BY <1>1, StartBodyKeeps
<1>2. ASSUME NEW g \in Functions, Call(g) PROVE IInv'
  BY <1>2, CallKeeps
<1>3. ASSUME NEW g \in Functions, NEW named \in NamedTailCalls, TailCall(g, named) PROVE IInv'
  BY <1>3, TailCallKeeps
<1>4. ASSUME NEW a \in MirBlocks, NEW b \in MirBlocks, Branch(a, b) PROVE IInv'
  BY <1>4, BranchKeeps
<1>5. ASSUME NEW b \in MirBlocks, NEW rebuild \in BOOLEAN, Sibling(b, rebuild) PROVE IInv'
  BY <1>5, SiblingKeeps
<1>6. ASSUME NEW g \in Functions, NEW b \in MirBlocks, Invoke(g, b) PROVE IInv'
  BY <1>6, InvokeKeeps
<1>7. ASSUME Return PROVE IInv'
  BY <1>7, ReturnKeeps
<1>8. ASSUME Unreachable \/ Resume PROVE IInv'
  BY <1>8, UnreachableKeeps
<1>9. ASSUME NEW b \in AllMir, NextBlock(b) PROVE IInv'
  BY <1>9, NextBlockKeeps
<1>10. ASSUME EndBody PROVE IInv'
  BY <1>10, EndBodyKeeps
<1>11. ASSUME UNCHANGED vars PROVE IInv'
  BY <1>11 DEF vars, IInv, M, InHand, BlocksOf
<1> QED BY <1>1, <1>2, <1>3, <1>4, <1>5, <1>6, <1>7, <1>8, <1>9, <1>10, <1>11 DEF Next

(* The invariant holds whatever order codegen_ssa builds the blocks in. *)
THEOREM InvariantHolds == Spec => []IInv
<1>1. Init => IInv
  BY InitHolds
<1>2. IInv /\ [Next]_vars => IInv'
  BY NextKeeps
<1> QED BY <1>1, <1>2, PTL DEF Spec

-----------------------------------------------------------------------------
(* The properties. *)

LEMMA SameStmts == \A f : StmtsOf(f) = StmtsIn(open[f])
  BY DEF StmtsOf, BlocksOf, StmtsIn

(* No statement ends up in a function that it is not for: the registered   *)
(* function of a block id is, whenever a builder asks, the one being       *)
(* translated.                                                             *)
THEOREM StatementsStayHome == Spec => []OwnStatements
<1>1. IInv => OwnStatements
  BY SameStmts DEF IInv, OwnStatements, StmtOK
<1> QED BY <1>1, InvariantHolds, PTL

(* Every label that a function jumps to labels exactly one of its blocks.  *)
THEOREM LabelsResolve == Spec => []GotosResolve
<1>1. IInv => GotosResolve
  <2> SUFFICES ASSUME IInv, NEW f \in Functions, NEW s \in StmtsOf(f), NEW l \in s.labels
               PROVE  Cardinality({k \in 1 .. Len(open[f].blocks) : open[f].blocks[k].label = l}) = 1
    BY DEF GotosResolve
  <2>1. l \in LabelsIn(open[f])
    BY SameStmts DEF IInv, StmtOK
  <2>2. PICK k \in 1 .. Len(open[f].blocks) : open[f].blocks[k].label = l
    BY <2>1 DEF LabelsIn
  <2>3. \A c \in 1 .. Len(open[f].blocks) : open[f].blocks[c].label[1] = c - 1
    BY DEF IInv
  <2>4. \A c \in 1 .. Len(open[f].blocks) : open[f].blocks[c].label = l => c = k
    <3> TAKE c \in 1 .. Len(open[f].blocks)
    <3> HAVE open[f].blocks[c].label = l
    <3>1. c - 1 = k - 1
      BY <2>2, <2>3
    <3>2. c \in Int /\ k \in Int
      OBVIOUS
    <3> QED BY <3>1, <3>2
  <2>5. {c \in 1 .. Len(open[f].blocks) : open[f].blocks[c].label = l} = {k}
    BY <2>2, <2>4
  <2> QED BY <2>5, FS_Singleton
<1> QED BY <1>1, InvariantHolds, PTL

(* Each block of a finished body ends in its only terminator. *)
THEOREM BlocksEnd == Spec => []BlocksEndOnce
<1>1. IInv => BlocksEndOnce
  BY DEF IInv, BlocksEndOnce, Ended
<1> QED BY <1>1, InvariantHolds, PTL

(* A function returns what its C type says, if tail calls name their       *)
(* callee: through a pointer, tail_call takes the callee for a void one.   *)
THEOREM ReturnsFit ==
  ASSUME NamedTailCalls \subseteq {TRUE}
  PROVE  Spec => []ReturnsMatch
<1>1. FALSE \notin NamedTailCalls
  OBVIOUS
<1>2. IInv => ReturnsMatch
  <2> SUFFICES ASSUME IInv, NEW f \in Functions, NEW s \in StmtsOf(f), s.kind = "return"
               PROVE  s.info = CASE Kind[f] = "void" -> "none"
                                 [] Kind[f] = "direct" -> "value"
                                 [] Kind[f] = "indirect" -> "_retbuf"
    BY DEF ReturnsMatch
  <2>1. ReturnOK(f, s)
    BY SameStmts DEF IInv
  <2> QED BY <1>1, <2>1 DEF ReturnOK
<1> QED BY <1>2, InvariantHolds, PTL

(* The variables with fixed names are declared once by the functions that  *)
(* use them: the context by those with an invoke, the return buffer by     *)
(* those that return indirectly.                                           *)
THEOREM LocalsAreDeclared == Spec => []LocalsDeclaredOnce
<1>1. IInv => LocalsDeclaredOnce
  <2> SUFFICES ASSUME IInv, NEW f \in done
               PROVE  /\ Declarations(f, "__unwind_ctx") = IF \E s \in StmtsOf(f) : s.kind = "invoke" THEN 1 ELSE 0
                      /\ Declarations(f, "_retbuf") = IF Kind[f] = "indirect" THEN 1 ELSE 0
    BY DEF LocalsDeclaredOnce
  <2>1. PICK ld : ld = open[f].local_decls
    OBVIOUS
  <2>2. HeaderOK(f, open[f])
    BY DEF IInv
  <2> DEFINE inv == \E s \in StmtsOf(f) : s.kind = "invoke"
             ind == Kind[f] = "indirect"
             D(name) == {k \in 1 .. Len(ld) : ld[k] = name}
  <2>3. ld = (IF ind THEN <<"_retbuf">> ELSE <<>>) \o (IF inv THEN <<"__unwind_ctx">> ELSE <<>>)
    BY <2>1, <2>2, SameStmts DEF HeaderOK, LocalsOf
  <2> HIDE DEF inv, ind
  <2>4. Cardinality({}) = 0 /\ Cardinality({1}) = 1 /\ Cardinality({2}) = 1
    BY FS_EmptySet, FS_Singleton
  <2>5. /\ D("__unwind_ctx") = IF inv THEN (IF ind THEN {2} ELSE {1}) ELSE {}
        /\ D("_retbuf") = IF ind THEN {1} ELSE {}
    <3>1. CASE inv /\ ind
      <4>1. PICK s, t : s = <<"_retbuf">> /\ t = <<"__unwind_ctx">>
        OBVIOUS
      <4>2. s \in Seq({"_retbuf", "__unwind_ctx"}) /\ t \in Seq({"_retbuf", "__unwind_ctx"})
            /\ Len(s) = 1 /\ Len(t) = 1 /\ s[1] = "_retbuf" /\ t[1] = "__unwind_ctx"
        BY <4>1
      <4>3. ld = s \o t
        BY <2>3, <3>1, <4>1
      <4>4. Len(s \o t) = Len(s) + Len(t) /\ \A i \in 1 .. Len(s) + Len(t) :
              (s \o t)[i] = IF i <= Len(s) THEN s[i] ELSE t[i - Len(s)]
        BY <4>2, ConcatProperties
      <4>5. Len(ld) = 2 /\ ld[1] = "_retbuf" /\ ld[2] = "__unwind_ctx"
        BY <4>2, <4>3, <4>4
      <4>6. 1 .. Len(ld) = {1, 2}
        BY <4>5
      <4>7. D("__unwind_ctx") = {2} /\ D("_retbuf") = {1}
        BY <4>5, <4>6
      <4> QED BY <4>7, <3>1
    <3>2. CASE inv /\ ~ind
      <4>1. ld = <<"__unwind_ctx">>
        BY <2>3, <3>2
      <4> QED BY <4>1, <3>2
    <3>3. CASE ~inv /\ ind
      <4>1. ld = <<"_retbuf">>
        BY <2>3, <3>3
      <4> QED BY <4>1, <3>3
    <3>4. CASE ~inv /\ ~ind
      <4>1. ld = <<>>
        BY <2>3, <3>4
      <4> QED BY <4>1, <3>4
    <3> QED BY <3>1, <3>2, <3>3, <3>4
  <2>6. Declarations(f, "__unwind_ctx") = Cardinality(D("__unwind_ctx")) /\ Declarations(f, "_retbuf") = Cardinality(D("_retbuf"))
    BY <2>1 DEF Declarations
  <2>7. /\ Declarations(f, "__unwind_ctx") = IF inv THEN 1 ELSE 0
        /\ Declarations(f, "_retbuf") = IF ind THEN 1 ELSE 0
    <3> HIDE DEF D
    <3> QED BY <2>4, <2>5, <2>6
  <2> QED BY <2>7 DEF inv, ind
<1> QED BY <1>1, InvariantHolds, PTL

LEMMA CallArgsAre ==
  ASSUME NEW g \in Functions
  PROVE  Len(CallArgs(g)) = NParams /\ \A k \in 1 .. NParams : CallArgs(g)[k] = k
<1>1. NParams \in Nat
  BY BoundAssumption
<1> DEFINE T == {"sret"} \cup Nat
           rust == [k \in 1 .. NParams |-> k]
<1>2. rust \in Seq(T) /\ Len(rust) = NParams
  BY <1>1
<1>3. CASE Kind[g] = "indirect"
  <2> DEFINE args == <<"sret">> \o rust
  <2>1. <<"sret">> \in Seq(T) /\ Len(<<"sret">>) = 1
    OBVIOUS
  <2> HIDE DEF T
  <2>2. /\ args \in Seq(T) /\ Len(args) = NParams + 1
        /\ \A i \in 1 .. 1 + NParams : args[i] = IF i <= 1 THEN <<"sret">>[i] ELSE rust[i - 1]
    <3> HIDE DEF rust
    <3> QED BY <1>1, <1>2, <2>1, ConcatProperties
  <2>3. args # <<>>
    <3> HIDE DEF args
    <3> QED BY <1>1, <2>2
  <2>4. CallArgs(g) = Tail(args)
    BY <1>3, <2>3 DEF CallArgs
  <2> HIDE DEF args
  <2>5. Len(Tail(args)) = NParams /\ \A i \in 1 .. NParams : Tail(args)[i] = args[i + 1]
    BY <1>1, <2>2, <2>3, HeadTailProperties
  <2>6. \A k \in 1 .. NParams : args[k + 1] = k
    <3> TAKE k \in 1 .. NParams
    <3>1. k + 1 \in 1 .. 1 + NParams /\ ~(k + 1 <= 1) /\ (k + 1) - 1 = k
      BY <1>1
    <3> QED BY <2>2, <3>1
  <2> QED BY <2>4, <2>5, <2>6
<1>4. CASE Kind[g] # "indirect"
  <2>1. CallArgs(g) = <<>> \o rust
    BY <1>4 DEF CallArgs
  <2>2. <<>> \o rust = rust
    <3> HIDE DEF rust, T
    <3> QED BY <1>2, ConcatEmptySeq
  <2> QED BY <1>2, <2>1, <2>2
<1> QED BY <1>3, <1>4

LEMMA ParamsAre ==
  ASSUME NEW g \in Functions
  PROVE  \A k \in 1 .. NParams : ParamsOf(g)[k] = k - 1
<1>1. NParams \in Nat
  BY BoundAssumption
<1>2. CASE Kind[g] = "indirect"
  BY <1>1, <1>2 DEF ParamsOf, c_index
<1>3. CASE Kind[g] # "indirect"
  BY <1>1, <1>3 DEF ParamsOf, c_index
<1> QED BY <1>2, <1>3

(* What a call passes for the k-th parameter is what the callee reads as   *)
(* its k-th, with and without a return pointer on either side.             *)
THEOREM ArgumentsFit == Spec => []ArgumentsMatch
<1>1. IInv => ArgumentsMatch
  <2> SUFFICES ASSUME IInv, NEW f \in Functions, NEW g \in done, NEW s \in StmtsOf(f),
                      s.kind \in {"call", "invoke"}, s.info.callee = g
               PROVE  /\ Len(s.info.args) = NParams
                      /\ \A k \in 1 .. NParams : /\ params[g][k] + 1 \in 1 .. NParams
                                                 /\ s.info.args[params[g][k] + 1] = k
    BY DEF ArgumentsMatch
  <2>1. g \in Functions /\ params[g] = ParamsOf(g)
    BY DEF IInv
  <2>2. StmtOK(f, open[f], s)
    BY SameStmts DEF IInv
  <2>3. PICK h \in Functions : s.info = [callee |-> h, args |-> CallArgs(h)]
    BY <2>2 DEF StmtOK
  <2>4. s.info.args = CallArgs(g)
    BY <2>3
  <2>5. NParams \in Nat
    BY BoundAssumption
  <2>6. \A k \in 1 .. NParams : params[g][k] + 1 = k
    BY <2>1, <2>5, ParamsAre
  <2>7. Len(CallArgs(g)) = NParams /\ \A k \in 1 .. NParams : CallArgs(g)[k] = k
    BY <2>1, CallArgsAre
  <2> QED BY <2>4, <2>5, <2>6, <2>7
<1> QED BY <1>1, InvariantHolds, PTL
=============================================================================
