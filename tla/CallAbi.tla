------------------------------ MODULE CallAbi -------------------------------
(***************************************************************************)
(* How values travel through C types: layouts and pass modes of rustc to   *)
(* C types and signatures (type_of.rs), loads and stores, the call, the    *)
(* entry of the callee and repeat expressions (builder.rs).                *)
(*                                                                         *)
(* A byte is a pair <<k, i>>, byte i of argument k (0 is the result), so   *)
(* that every byte tells where it came from.  Sizes are the real ones.     *)
(* Casts with an offset between their registers are left out.              *)
(***************************************************************************)
EXTENDS Integers, FiniteSetsExt, SequencesExt

CONSTANTS WordSize,      \* bytes of a pointer
          Signatures,    \* the signatures of a run: records [ret, args]
          Repeats,       \* repeat expressions of a run: pairs <<layout, count>>
          NoResult

VARIABLES call, out
vars == <<call, out>>

(* An argument is [layout, mode, on_stack, meta, cast].  A layout is       *)
(* [repr, size, scalars, second]; a scalar is [prim, size, word]: word     *)
(* says that the Rust type is usize or isize, second where the layout of a *)
(* pair has its second scalar.  A cast is [prefix, unit, total]: the sizes *)
(* of its registers.                                                       *)

-----------------------------------------------------------------------------
(* C types                                                                 *)

AlignUp(n, a) == ((n + a - 1) \div a) * a

(* The integer widths C has; wider ones are cut. *)
c_bytes(n) == Min({w \in {1, 2, 4, 8, 16} : n <= w} \cup {16})

Prim(kind, size) == [kind |-> kind, size |-> size]
CInt(size) == Prim("int", c_bytes(size))
Ptr == Prim("ptr", WordSize)
PtrWidth == Prim("word", WordSize)
Bool == Prim("bool", 1)
Void == Prim("void", 0)
Struct(fields) == [kind |-> "struct", fields |-> fields]

ScalarAlign(ty) == IF ty.kind = "bytes" THEN 1 ELSE ty.size
natural_align_bytes(ty) ==
  IF ty.kind = "struct" THEN Max({ScalarAlign(ty.fields[i]) : i \in DOMAIN ty.fields} \cup {1})
  ELSE ScalarAlign(ty)

(* Where the fields of a struct end. *)
FieldEnds(fields) ==
  LET end[i \in 0 .. Len(fields)] ==
        IF i = 0 THEN 0 ELSE AlignUp(end[i - 1], ScalarAlign(fields[i])) + fields[i].size
  IN end
FieldOffset(ty, i) == FieldEnds(ty.fields)[i] - ty.fields[i].size
SizeOf(ty) ==
  IF ty.kind = "struct"
  THEN AlignUp(FieldEnds(ty.fields)[Len(ty.fields)], natural_align_bytes(ty)) ELSE ty.size

scalar_to_c_type(s) ==
  CASE s.prim = "bool" -> Bool [] s.prim = "int" -> CInt(s.size)
    [] s.prim = "float" -> Prim("float", s.size) [] s.prim = "ptr" -> Ptr

(* usize and isize fields are found through the pair's layout. *)
scalar_field_to_c_type(l, i) ==
  IF l.scalars[i].word THEN PtrWidth ELSE scalar_to_c_type(l.scalars[i])

layout_to_c_type(l) ==
  CASE l.repr = "zst" -> Struct(<<>>)
    [] l.repr = "scalar" -> IF l.scalars[1].word THEN PtrWidth ELSE scalar_to_c_type(l.scalars[1])
    [] l.repr = "pair" -> Struct(<<scalar_field_to_c_type(l, 1), scalar_field_to_c_type(l, 2)>>)
    [] l.repr = "vector" -> Prim("vector", l.size)
    [] l.repr = "memory" -> Struct(<<Prim("bytes", l.size)>>)

(* CastTarget of rustc_target (external): its size, with every register    *)
(* aligned as its width.                                                   *)
Units(cast) == (cast.total + cast.unit - 1) \div cast.unit
unaligned_size(cast) == FoldLeft(+, 0, cast.prefix) + cast.unit * Units(cast)
cast_align(cast) == Max({c_bytes(n) : n \in Range(cast.prefix) \cup {cast.unit}})
cast_size(cast) == AlignUp(unaligned_size(cast), cast_align(cast))

cast_target_to_c_type(cast) ==
  IF cast.prefix = <<>> THEN IF cast_size(cast) = 0 THEN Void ELSE CInt(cast_size(cast))
  ELSE Struct([i \in DOMAIN cast.prefix |-> CInt(cast.prefix[i])]
                \o [i \in 1 .. Units(cast) |-> CInt(cast.unit)])

fn_abi_ret_type(r) ==
  CASE r.mode = "ignore" -> Void
    [] r.mode \in {"direct", "pair", "indirect"} -> layout_to_c_type(r.layout)
    [] r.mode = "cast" -> cast_target_to_c_type(r.cast)

fn_abi_arg_type(a) ==
  CASE a.mode = "direct" -> layout_to_c_type(a.layout)
    [] a.mode = "cast" -> cast_target_to_c_type(a.cast)
    [] a.mode = "indirect" -> IF a.on_stack THEN layout_to_c_type(a.layout) ELSE Ptr

(* The C parameters of one argument. *)
ArgTypes(a) ==
  CASE a.mode = "ignore" -> <<>>
    [] a.mode = "pair" -> <<scalar_field_to_c_type(a.layout, 1),
                            scalar_field_to_c_type(a.layout, 2)>>
    [] a.mode = "indirect" /\ a.meta -> <<Ptr, Ptr>>
    [] OTHER -> <<fn_abi_arg_type(a)>>

fn_abi_to_c_type(args) == FlattenSeq([k \in DOMAIN args |-> ArgTypes(args[k])])

(* predefine_fn: the C indices of the parameters that are structs for a    *)
(* pointer.                                                                *)
on_stack_params(args) ==
  {Len(fn_abi_to_c_type(SubSeq(args, 1, k - 1))) :
     k \in {j \in DOMAIN args : args[j].mode = "indirect" /\ args[j].on_stack /\ ~args[j].meta}}

-----------------------------------------------------------------------------
(* Memory and values                                                       *)

Junk == <<-1, 0>>
Guard == <<-1, 1>>
Zone == 16       \* bytes behind a place in which an overrun is seen

(* Memory is [size, at]; what is behind it is not to be written. *)
Object(k, n) ==
  [size |-> n, at |-> [i \in 0 .. n + Zone - 1 |-> IF i < n THEN <<k, i>> ELSE Guard]]
alloca(n) ==
  [size |-> n, at |-> [i \in 0 .. n + Zone - 1 |-> IF i < n THEN Junk ELSE Guard]]

(* A value is [ty, bytes], or [ty, to] for the address of memory. *)
AddressOf(mem) == [ty |-> Ptr, to |-> mem]
Read(mem, i) == IF i < mem.size THEN mem.at[i] ELSE Junk
load(ty, mem, off) == [ty |-> ty, bytes |-> [i \in 0 .. SizeOf(ty) - 1 |-> Read(mem, off + i)]]
store(v, mem, off) ==
  [mem EXCEPT !.at = [i \in DOMAIN @ |->
     IF i \in off .. off + SizeOf(v.ty) - 1 THEN v.bytes[i - off] ELSE @[i]]]
memcpy(dst, src, n) ==
  [dst EXCEPT !.at = [i \in DOMAIN @ |-> IF i < n THEN Read(src, i) ELSE @[i]]]

(* C's conversion, of a cast or implied: integers are cut or extended,     *)
(* other bytes do not survive a change of type.                            *)
Convert(v, ty) ==
  IF v.ty = ty THEN v
  ELSE IF {v.ty.kind, ty.kind} \subseteq {"bool", "int", "word", "ptr"} /\ "bytes" \in DOMAIN v
       THEN [ty |-> ty, bytes |-> [i \in 0 .. ty.size - 1 |->
               IF i < v.ty.size THEN v.bytes[i] ELSE Junk]]
       ELSE [ty |-> ty, bytes |-> [i \in 0 .. SizeOf(ty) - 1 |-> Junk]]

from_immediate(v) == IF v.ty = Bool THEN Convert(v, CInt(1)) ELSE v

to_immediate_scalar(v, s) ==
  IF s.prim = "bool" THEN Convert(v, Bool) ELSE [v EXCEPT !.ty = scalar_to_c_type(s)]

(* Mutant: the second scalar follows the first one. *)
b_offsetPacked(l) == l.scalars[1].size

(* The second scalar of a pair, as LLVM places it. *)
b_offset(l) == AlignUp(l.scalars[1].size, l.scalars[2].size)

load_operand(l, mem) ==
  IF l.repr = "pair"
  THEN <<load(scalar_field_to_c_type(l, 1), mem, 0),
         load(scalar_field_to_c_type(l, 2), mem, b_offset(l))>>
  ELSE LET v == load(layout_to_c_type(l), mem, 0)
       IN  <<IF l.repr = "scalar" THEN to_immediate_scalar(v, l.scalars[1]) ELSE v>>

insert_value(agg, v, i) ==
  LET ty == agg.ty.fields[i]
      elt == Convert(v, ty)
      from == FieldOffset(agg.ty, i)
  IN [agg EXCEPT !.bytes = [j \in DOMAIN @ |->
        IF j \in from .. from + ty.size - 1 THEN elt.bytes[j - from] ELSE @[j]]]

extract_value(agg, i) ==
  [ty |-> agg.ty.fields[i],
   bytes |-> [j \in 0 .. agg.ty.fields[i].size - 1 |-> agg.bytes[FieldOffset(agg.ty, i) + j]]]

Undef(ty) == [ty |-> ty, bytes |-> [i \in 0 .. SizeOf(ty) - 1 |-> Junk]]

-----------------------------------------------------------------------------
(* The caller                                                              *)

(* What rustc_codegen_ssa passes for argument k (external): casts go       *)
(* through a buffer of the size of the cast.                               *)
LlArgs(k, a) ==
  LET obj == Object(k, a.layout.size)
      copy == Min({unaligned_size(a.cast), a.layout.size})
  IN CASE a.mode = "ignore" -> <<>>
       [] a.mode \in {"direct", "pair"} -> load_operand(a.layout, obj)
       [] a.mode = "cast" ->
            <<load(cast_target_to_c_type(a.cast), memcpy(alloca(cast_size(a.cast)), obj, copy), 0)>>
       [] a.mode = "indirect" /\ a.meta ->
            <<AddressOf(obj), load(PtrWidth, Object(k, WordSize), 0)>>
       [] OTHER -> <<AddressOf(obj)>>

coerce_ptr_int(v, ty) ==
  IF "ptr" \in {v.ty.kind, ty.kind} /\ {v.ty.kind, ty.kind} \cap {"int", "word"} # {}
  THEN Convert(v, ty) ELSE v

(* An argument of Builder::call, as the callee's parameter of type ty. *)
Passed(v, ty) ==
  IF ty.kind = "struct" /\ v.ty = Ptr THEN load(ty, v.to, 0)
  ELSE Convert(coerce_ptr_int(v, ty), ty)

(* The return pointer comes first in args and is not passed on. *)
CallParams(sig) ==
  LET sret == AddressOf(alloca(sig.ret.layout.size))
      args == (IF sig.ret.mode = "indirect" THEN <<sret>> ELSE <<>>)
                \o FlattenSeq([k \in DOMAIN sig.args |-> LlArgs(k, sig.args[k])])
      actual_args == IF sig.ret.mode = "indirect" THEN Tail(args) ELSE args
      types == fn_abi_to_c_type(sig.args)
  IN [i \in DOMAIN actual_args |-> Passed(actual_args[i], types[i])]

-----------------------------------------------------------------------------
(* The callee                                                              *)

get_param(sig, params, index) ==
  LET c == IF sig.ret.mode = "indirect" THEN index - 1 ELSE index
      v == params[c + 1]
  IN IF c \in on_stack_params(sig.args)
     THEN AddressOf([size |-> SizeOf(v.ty), at |-> v.bytes]) ELSE v

(* Mutant: no buffer. *)
StoreCastDirect(cast, v, l) == <<store(v, alloca(l.size), 0)>>

(* The buffer of a cast, and the place it is copied to. *)
StoreCast(cast, v, l) ==
  LET scratch == store(v, alloca(cast_size(cast)), 0)
      copy_bytes == Min({unaligned_size(cast), l.size})
  IN <<memcpy(alloca(l.size), scratch, copy_bytes), scratch>>

(* store_fn_arg: the memory it writes, the argument's place first, and the *)
(* parameters it uses.                                                     *)
store_fn_arg(sig, params, a, idx) ==
  LET param(i) == get_param(sig, params, idx + i)
      dst == alloca(a.layout.size)
  IN CASE a.mode = "ignore" -> [written |-> <<dst>>, used |-> 0]
       [] a.mode = "pair" ->
            [written |-> <<store(param(1), store(param(0), dst, 0), b_offset(a.layout))>>, used |-> 2]
       [] a.mode = "indirect" /\ ~a.meta ->
            [written |-> <<memcpy(dst, param(0).to, a.layout.size)>>, used |-> 1]
       [] a.mode = "cast" -> [written |-> StoreCast(a.cast, param(0), a.layout), used |-> 1]
       [] a.mode = "direct" -> [written |-> <<store(param(0), dst, 0)>>, used |-> 1]
       \* rustc_codegen_ssa keeps unsized arguments where they are (external)
       [] a.mode = "indirect" /\ a.meta ->
            [written |-> <<param(0).to, store(param(1), alloca(WordSize), 0)>>, used |-> 2]

(* The arguments, one after the other. *)
Entry(sig, params) ==
  LET at[k \in 0 .. Len(sig.args)] ==
        IF k = 0 THEN [idx |-> IF sig.ret.mode = "indirect" THEN 1 ELSE 0, written |-> <<>>]
        ELSE LET s == store_fn_arg(sig, params, sig.args[k], at[k - 1].idx)
             IN [idx |-> at[k - 1].idx + s.used, written |-> Append(at[k - 1].written, s.written)]
  IN at[Len(sig.args)].written

(* The value of the C return statement; the result is in memory.           *)
Returned(r) ==
  LET ty == fn_abi_ret_type(r)
      obj == Object(0, r.layout.size)
  IN CASE r.mode = "direct" -> Convert(load_operand(r.layout, obj)[1], ty)
       [] r.mode = "pair" ->
            LET vs == load_operand(r.layout, obj)
            IN insert_value(insert_value(Undef(ty), from_immediate(vs[1]), 1), from_immediate(vs[2]), 2)
       [] r.mode = "cast" -> load(ty, obj, 0)
       [] r.mode = "indirect" -> load(ty, memcpy(alloca(SizeOf(ty)), obj, r.layout.size), 0)

(* The caller stores what the call returned (call, store_arg). *)
StoreResult(r) ==
  LET v == Returned(r)
      dst == alloca(r.layout.size)
  IN CASE r.mode = "ignore" -> <<dst>>
       [] r.mode = "direct" -> <<store(from_immediate(v), dst, 0)>>
       [] r.mode = "pair" ->
            LET part(i) == from_immediate(to_immediate_scalar(extract_value(v, i), r.layout.scalars[i]))
            IN <<store(part(2), store(part(1), dst, 0), b_offset(r.layout))>>
       [] r.mode = "cast" -> StoreCast(r.cast, v, r.layout)
       [] r.mode = "indirect" -> <<store(v, dst, 0)>>

-----------------------------------------------------------------------------
(* Repeated elements                                                       *)

UNROLL_LIMIT == 16

(* OperandValue::store of rustc_codegen_ssa (external), of element 0 of an *)
(* object, at an offset.                                                   *)
StoreOperand(l, mem, off) ==
  LET vs == load_operand(l, Object(0, l.size))
  IN CASE l.repr = "pair" ->
            store(from_immediate(vs[2]), store(from_immediate(vs[1]), mem, off), off + b_offset(l))
       [] l.repr = "memory" -> store(load(layout_to_c_type(l), Object(0, l.size), 0), mem, off)
       [] OTHER -> store(from_immediate(vs[1]), mem, off)

(* `[elem; count]`: memset for bytes (an element that is no immediate is a *)
(* bug!() there, and nothing is written), else stores, or a loop that      *)
(* copies the first element.                                               *)
write_operand_repeatedly(l, count) ==
  LET dst == alloca(l.size * count)
      elem == load_operand(l, Object(0, l.size))[1]
      first == StoreOperand(l, dst, 0)
      stored[n \in 0 .. count] ==
        IF n = 0 THEN dst ELSE StoreOperand(l, stored[n - 1], (n - 1) * l.size)
  IN IF count > UNROLL_LIMIT /\ l.size = 1
     THEN IF l.repr = "memory" THEN dst
          ELSE [dst EXCEPT !.at = [i \in DOMAIN @ |-> IF i < count THEN elem.bytes[0] ELSE @[i]]]
     ELSE IF count > UNROLL_LIMIT
     THEN [first EXCEPT !.at = [i \in DOMAIN @ |->
             IF i < count * l.size THEN Read(first, i % l.size) ELSE @[i]]]
     ELSE stored[count]

-----------------------------------------------------------------------------
(* What rustc makes sure of: layouts, and the modes that go with them.  Of *)
(* casts only those are meant whose C type has the cast's size; by-value   *)
(* parameters are aggregates.                                              *)

ScalarOK(s) ==
  /\ s.prim \in {"bool", "int", "float", "ptr"} /\ s.size \in {1, 2, 4, 8, 16}
  /\ s.word \in BOOLEAN /\ (s.word => s.prim = "int")
  /\ s.prim = "bool" => s.size = 1
  /\ s.prim = "ptr" \/ s.word => s.size = WordSize

LayoutOK(l) ==
  /\ l.size \in Nat
  /\ \/ l.repr = "zst" /\ l.size = 0
     \/ l.repr \in {"vector", "memory"}
     \/ l.repr = "scalar" /\ ScalarOK(l.scalars[1]) /\ l.size = l.scalars[1].size
     \/ /\ l.repr = "pair" /\ ScalarOK(l.scalars[1]) /\ ScalarOK(l.scalars[2])
        /\ l.second = AlignUp(l.scalars[1].size, l.scalars[2].size)
        /\ l.second + l.scalars[2].size <= l.size
        /\ l.size % l.scalars[1].size = 0 /\ l.size % l.scalars[2].size = 0

CastOK(r) ==
  /\ cast_size(r.cast) \in Nat /\ SizeOf(cast_target_to_c_type(r.cast)) = cast_size(r.cast)
  /\ unaligned_size(r.cast) \in r.layout.size .. cast_size(r.cast)

ResultOK(r) ==
  /\ LayoutOK(r.layout)
  /\ \/ r.mode = "ignore" /\ r.layout.repr = "zst"
     \/ r.mode = "direct" /\ r.layout.repr \in {"scalar", "vector"}
     \/ r.mode = "pair" /\ r.layout.repr = "pair"
     \/ r.mode = "cast" /\ CastOK(r)
     \/ r.mode = "indirect"

ArgumentOK(a) ==
  /\ ResultOK(a) /\ a.on_stack \in BOOLEAN /\ a.meta \in BOOLEAN
  /\ a.meta => a.mode = "indirect" /\ ~a.on_stack
  /\ a.on_stack => a.mode = "indirect" /\ a.layout.repr \in {"pair", "memory"}

SignatureOK(sig) ==
  /\ ResultOK(sig.ret) /\ sig.args \in Seq(Range(sig.args))
  /\ \A k \in DOMAIN sig.args : ArgumentOK(sig.args[k])

(* A one-byte aggregate is not repeated by memset. *)
RepeatOK(r) ==
  /\ LayoutOK(r[1]) /\ r[2] \in Nat
  /\ r[1].repr = "memory" /\ r[1].size = 1 => r[2] <= UNROLL_LIMIT

-----------------------------------------------------------------------------
Init ==
  /\ \/ \E sig \in Signatures : call = [op |-> "call", sig |-> sig]
     \/ \E r \in Repeats : call = [op |-> "repeat", layout |-> r[1], count |-> r[2]]
  /\ out = NoResult

Next ==
  /\ out = NoResult
  /\ \/ call.op = "call" /\ out' = [args |-> Entry(call.sig, CallParams(call.sig)),
                                    ret |-> StoreResult(call.sig.ret)]
     \/ call.op = "repeat" /\ out' = write_operand_repeatedly(call.layout, call.count)
  /\ UNCHANGED call

Spec == Init /\ [][Next]_vars

(* The bytes of a layout that are not padding. *)
DataBytes(l) ==
  CASE l.repr = "zst" -> {}
    [] l.repr = "pair" -> (0 .. l.scalars[1].size - 1) \cup
                          (l.second .. l.second + l.scalars[2].size - 1)
    [] OTHER -> 0 .. l.size - 1

(* Every data byte of every argument is where the callee expects it, every *)
(* data byte of the result where the caller does, and every element of a   *)
(* repeat expression has all bytes of the value, however many there are.   *)
BytesArrive ==
  out # NoResult =>
    IF call.op = "call"
    THEN /\ \A k \in DOMAIN call.sig.args :
              /\ \A i \in DataBytes(call.sig.args[k].layout) : out.args[k][1].at[i] = <<k, i>>
              /\ call.sig.args[k].meta =>
                   \A i \in 0 .. WordSize - 1 : out.args[k][2].at[i] = <<k, i>>
         /\ \A i \in DataBytes(call.sig.ret.layout) : out.ret[1].at[i] = <<0, i>>
    ELSE \A n \in 0 .. call.count - 1 : \A i \in DataBytes(call.layout) :
           out.at[n * call.layout.size + i] = <<0, i>>

(* No store, also of a C type that is wider than the Rust type, writes     *)
(* behind the local or the buffer it is for.                               *)
StoresStayInside ==
  out # NoResult =>
    \A m \in IF call.op = "repeat" THEN {out}
             ELSE UNION {Range(w) : w \in Range(out.args) \cup {out.ret}} :
      \A i \in DOMAIN m.at : i >= m.size => m.at[i] = Guard
=============================================================================
