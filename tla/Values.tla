------------------------------- MODULE Values -------------------------------
(***************************************************************************)
(* Reading values from the memory of the stopped program                   *)
(* (server/peek.go, server/value.go, arch/arch.go, program.go).            *)
(*                                                                         *)
(* A type is named by its DWARF offset, here an element of DOMAIN Types.   *)
(* Its description is a record with a kind k and, by kind, its size in     *)
(* bytes, its element type, its fields, its length, its stride in bits and *)
(* the type it is declared as.  A value is a record with the kind of Go    *)
(* value that stands for it.  The layout of the buckets of a map is left   *)
(* out, with the errors of a type that has another one.                    *)
(***************************************************************************)
EXTENDS Arith, MapWalk

CONSTANTS Types,          \* the descriptions of the types
          Mem,            \* address -> byte, for the addresses that can be read
          Hmaps,          \* address -> header of the map there
          PointerSize,
          MaxString       \* maxStringSize of value

(* A read that comes after another one, and does not if that one fails. *)
Then(o, F(_)) == IF o.err # "" THEN Fail(o.err) ELSE F(o.v)

(* ptracePeek: the n bytes at addr, all or nothing. *)
Readable(addr, n) == \A i \in 0..(n - 1) : addr + i \in DOMAIN Mem
Bytes(addr, n) == [i \in 1..n |-> Mem[addr + i - 1]]

(* UintN and IntN of a little-endian architecture. *)
UintN(buf) ==
  LET u[i \in 0..Len(buf)] == IF i = 0 THEN 0 ELSE u[i - 1] + buf[i] * 2^(ByteBits * (i - 1))
  IN u[Len(buf)]
IntN(buf) == IF buf = << >> THEN 0 ELSE TwosComp(UintN(buf), ByteBits * Len(buf))

(* Float64frombits and its like: any meaning of the bits, here in halves. *)
FloatBits(buf) == <<IntN(buf), 2>>

peekUint(addr, n) == IF Readable(addr, n) THEN OK(UintN(Bytes(addr, n))) ELSE Fail("peek")
peekInt(addr, n) == IF Readable(addr, n) THEN OK(IntN(Bytes(addr, n))) ELSE Fail("peek")
peekPtr(addr) == peekUint(addr, PointerSize)

(* getField: the one field with a name. *)
getField(fields, name) ==
  LET named == {i \in DOMAIN fields : fields[i].name = name}
  IN IF named = {} THEN Fail("struct field missing")
     ELSE IF Cardinality(named) > 1 THEN Fail("struct definition repeats field")
     ELSE OK(fields[CHOOSE i \in named : TRUE])

peekPtrStructField(fields, addr, name) ==
  Then(getField(fields, name), LAMBDA f :
    IF Types[f.type].k # "ptr" THEN Fail("field is not a pointer") ELSE peekPtr(addr + f.off))

(* peekUintOrIntStructField: a length, whose type may be signed. *)
peekLenStructField(fields, addr, name) ==
  Then(getField(fields, name), LAMBDA f :
    CASE Types[f.type].k = "uint" -> peekUint(addr + f.off, Types[f.type].size)
      [] Types[f.type].k = "int" ->
           Then(peekInt(addr + f.off, Types[f.type].size), LAMBDA i :
             IF i < 0 THEN Fail("field is negative") ELSE OK(i))
      [] OTHER -> Fail("field is not an integer"))

(* peekUintStructField and peekIntStructField: k is "uint" or "int". *)
peekIntegerStructField(fields, addr, name, k) ==
  Then(getField(fields, name), LAMBDA f :
    IF Types[f.type].k # k THEN Fail("field is not such an integer")
    ELSE IF k = "uint" THEN peekUint(addr + f.off, Types[f.type].size)
    ELSE peekInt(addr + f.off, Types[f.type].size))

(* The first error of several outcomes, in order. *)
FirstErr(outs) ==
  LET bad == {i \in DOMAIN outs : outs[i].err # ""}
  IN IF bad = {} THEN "" ELSE outs[CHOOSE i \in bad : \A j \in bad : i <= j].err

peekSlice(t, addr) ==
  Then(peekPtrStructField(Types[t].fields, addr, "array"), LAMBDA a :
  Then(peekLenStructField(Types[t].fields, addr, "len"), LAMBDA len :
  Then(peekLenStructField(Types[t].fields, addr, "cap"), LAMBDA cap :
    IF cap < len THEN Fail("slice's capacity is less than its length")
    ELSE OK([k |-> "Slice", elem |-> Types[t].elem, a |-> a, len |-> len,
             stride |-> Types[Types[t].elem].size, cap |-> cap]))))

(* The header of a string, then at most limit of its bytes. *)
peekStringBytes(fields, addr, limit) ==
  Then(peekPtrStructField(fields, addr, "str"), LAMBDA ptr :
  Then(peekLenStructField(fields, addr, "len"), LAMBDA len :
    LET n == IF len > limit THEN limit ELSE len
    IN IF ~Readable(ptr, n) THEN Fail("peek")
       ELSE OK([k |-> "String", len |-> len, str |-> Bytes(ptr, n)])))

(* The fields of the struct that maps and channels of type t point to. *)
pointedFields(t) ==
  LET pt == Types[Types[t].type] IN
  IF pt.k # "ptr" THEN Fail("type is not a pointer")
  ELSE IF Types[pt.elem].k # "struct" THEN Fail("type is not a pointer to struct")
  ELSE OK(Types[pt.elem].fields)

(* peekMapLocationAndType: the map at the pointer at a, its header or nil. *)
peekMapHeader(t, a) ==
  Then(pointedFields(t), LAMBDA fs :
  Then(peekPtr(a), LAMBDA p :
    IF p = 0 THEN OK(NewMap)
    ELSE IF p \notin DOMAIN Hmaps THEN Fail("peek")
    ELSE OK(Hmaps[p])))

(* value of an integer, a float or a complex number: its size is checked   *)
(* twice, by readBasic and for the kind.                                   *)
BasicSizes == [int |-> {1, 2, 4, 8}, uint |-> {1, 2, 4, 8}, bool |-> {1, 2, 4, 8, 16},
               float |-> {4, 8}, complex |-> {8, 16}]

readBasic(k, n, addr) ==
  LET buf == Bytes(addr, n)
      Half(i) == SubSeq(buf, i * (n \div 2) + 1, (i + 1) * (n \div 2))
  IN IF n \notin {1, 2, 4, 8, 16} THEN Fail("invalid size")
     ELSE IF ~Readable(addr, n) THEN Fail("peek")
     ELSE IF n \notin BasicSizes[k] THEN Fail("invalid size")
     ELSE OK(CASE k = "int" -> Num(k, n, Frac(IntN(buf)), Frac(0))
               [] k = "uint" -> Num(k, n, Frac(UintN(buf)), Frac(0))
               [] k = "bool" -> [k |-> "bool", b |-> \E i \in 1..n : buf[i] # 0]
               [] k = "float" -> Num(k, n, FloatBits(buf), Frac(0))
               [] k = "complex" -> Num(k, n, FloatBits(Half(0)), FloatBits(Half(1))))

(* value of a channel: nil, or the fields of the struct it points to. *)
channelValue(t, addr) ==
  LET Channel(a, b, l, c, s) ==
        [k |-> "Channel", elem |-> Types[t].elem, a |-> a, buf |-> b, len |-> l, cap |-> c,
         stride |-> Types[Types[t].elem].size, start |-> s]
  IN Then(pointedFields(t), LAMBDA fs :
     Then(peekPtr(addr), LAMBDA p :
       IF p = 0 THEN OK(Channel(0, 0, 0, 0, 0))
       ELSE Then(peekPtrStructField(fs, p, "buf"), LAMBDA buf :
            Then(peekLenStructField(fs, p, "qcount"), LAMBDA len :
            Then(peekLenStructField(fs, p, "dataqsiz"), LAMBDA cap :
            Then(peekLenStructField(fs, p, "recvx"), LAMBDA start :
              OK(Channel(p, buf, len, cap, start))))))))

(* value: what is at addr, as a value of type t. *)
RECURSIVE value(_, _)
value(t, addr) ==
  LET d == Types[t]
  IN CASE d.k \in DOMAIN BasicSizes -> readBasic(d.k, d.size, addr)
       [] d.k = "ptr" ->
            IF d.size # PointerSize THEN Fail("invalid pointer size")
            ELSE Then(peekPtr(addr), LAMBDA a : OK([k |-> "Pointer", t |-> d.elem, a |-> a]))
       [] d.k = "slice" -> peekSlice(t, addr)
       [] d.k = "array" ->
            IF d.stride % ByteBits # 0 THEN Fail("array is not byte-aligned")
            ELSE OK([k |-> "Array", elem |-> d.elem, a |-> addr, len |-> d.count,
                     stride |-> d.stride \div ByteBits])
       [] d.k = "struct" ->
            OK([k |-> "Struct",
                fields |-> [i \in DOMAIN d.fields |->
                  [name |-> d.fields[i].name, t |-> d.fields[i].type, a |-> addr + d.fields[i].off]]])
       [] d.k = "typedef" -> value(d.elem, addr)
       [] d.k = "map" ->
            Then(peekMapHeader(t, addr), LAMBDA h :
              OK([k |-> "Map", t |-> t, a |-> addr, len |-> peekMapLength(h)]))
       [] d.k = "string" -> peekStringBytes(d.fields, addr, MaxString)
       [] d.k = "chan" -> channelValue(t, addr)
       [] d.k = "func" -> Then(peekPtr(addr), LAMBDA a : OK([k |-> "Func", a |-> a]))
       [] d.k = "interface" -> OK([k |-> "Interface"])
       [] OTHER -> Fail("Unsupported type")

(* followTypedefs: two pointers run along the typedefs, one of them twice  *)
(* as fast, and "" stands for the nil type of a cycle.                     *)
RECURSIVE followFrom(_, _)
followFrom(slow, fast) ==
  IF Types[fast].k # "typedef" THEN fast
  ELSE LET f1 == Types[fast].elem IN
       IF Types[f1].k # "typedef" THEN f1
       ELSE IF Types[slow].elem = Types[f1].elem THEN ""
       ELSE followFrom(Types[slow].elem, Types[f1].elem)

followTypedefs(t) == followFrom(t, t)
=============================================================================
