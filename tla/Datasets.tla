------------------------------ MODULE Datasets ------------------------------
(* The bytes of PTP: integers, strings, arrays and containers (ptp/pack,    *)
(* ptp/container.rs), the datasets made of them (ptp/types) and the ones    *)
(* the virtual device builds (virtual_device/builders.rs, prop_list.rs).    *)
(* A buffer is a sequence of bytes, and a byte has Base values: 256 in the  *)
(* code, fewer here, so that every width, length byte and limit keeps its   *)
(* place while the numbers stay small.  A string is a sequence of           *)
(* characters; one high and one low surrogate stand for all, and the text   *)
(* of a date is a single character (MtpDateTime has the dates).             *)
EXTENDS Integers, Sequences, SequencesExt, FiniteSetsExt

CONSTANTS
    Base,        \* the values of a byte
    ObjectNames, \* the file names objects have on the device
    RawStrings   \* the UTF-16 units devices send for a string

ASSUME DatasetAssumption == Base \in Nat /\ Base >= 8 /\ Base % 4 = 0

VARIABLES
    sample,  \* what is to be sent
    payload, \* its bytes, once written, and then the ones that arrived
    whole,   \* no byte of them was lost
    read     \* what their reader made of them

datasetVars == << sample, payload, whole, read >>

Bad == [ok |-> FALSE]
Good(value, consumed) == [ok |-> TRUE, v |-> value, n |-> consumed]
Unread == [unread |-> TRUE]

(* What `?` does with the result of a reader. *)
Then(r, next(_)) == IF r.ok THEN next(r) ELSE Bad

(* pack_u8 .. pack_u64 and unpack_u8 .. unpack_u64: little-endian. *)
PackInt(v, w) == [i \in 1 .. w |-> (v \div Base ^ (i - 1)) % Base]

UnpackInt(buf, w) ==
    IF Len(buf) < w THEN Bad
    ELSE Good(FoldRight(LAMBDA b, acc : acc * Base + b, SubSeq(buf, 1, w), 0), w)

(* pack_i8 .. pack_i64 and unpack_i8 .. unpack_i64: two's complement. *)
PackSigned(v, w) == PackInt(v % Base ^ w, w)

(* Mutant: a signed value is read as an unsigned one. *)
UnpackSignedBare(buf, w) == UnpackInt(buf, w)

UnpackSigned(buf, w) ==
    Then(UnpackInt(buf, w), LAMBDA u : IF u.v < Base ^ w \div 2 THEN u ELSE Good(u.v - Base ^ w, w))

(* encode_utf16 and from_utf16_lossy: the one character beyond the units is *)
(* a surrogate pair, a surrogate without its partner reads as U+FFFD.       *)
Replacement == Base ^ 2 - 1
HighSurrogate == Base ^ 2 - 2
LowSurrogate == Base ^ 2 - 3
Beyond == Base ^ 2

EncodeUtf16(s) ==
    FlattenSeq([i \in DOMAIN s |->
        IF s[i] = Beyond THEN << HighSurrogate, LowSurrogate >> ELSE << s[i] >>])

FromUtf16Lossy(u) ==
    LET pair(i) == i \in 1 .. Len(u) - 1 /\ u[i] = HighSurrogate /\ u[i + 1] = LowSurrogate
    IN  FlattenSeq([i \in DOMAIN u |->
            CASE pair(i)     -> << Beyond >>
              [] pair(i - 1) -> << >>
              [] u[i] \in {HighSurrogate, LowSurrogate} -> << Replacement >>
              [] OTHER       -> << u[i] >>])

(* pack_string: the length byte counts the terminator, a longer string is   *)
(* refused.                                                                 *)
MaxStringUnits == Base - 2

PackUnits(u) ==
    << Len(u) + 1 >> \o FlattenSeq([i \in DOMAIN u |-> PackInt(u[i], 2)]) \o << 0, 0 >>

PackString(s) ==
    LET u == EncodeUtf16(s)
    IN  CASE s = << >>                -> Good(<< 0 >>, 1)
          [] Len(u) > MaxStringUnits  -> Bad
          [] OTHER                    -> Good(PackUnits(u), 1 + 2 * (Len(u) + 1))

(* pack_device_string: a device cuts what it cannot carry, between          *)
(* characters.                                                              *)
DeviceCut(s) ==
    SubSeq(s, 1, Max({n \in 0 .. Len(s) : Len(EncodeUtf16(SubSeq(s, 1, n))) <= MaxStringUnits}))

PackDeviceString(s) == PackString(DeviceCut(s)).v

(* The units of a string after its length byte, and what comes before the   *)
(* first NUL of them.                                                       *)
UnitsOf(buf, len) == [i \in 1 .. len |-> UnpackInt(SubSeq(buf, 2 * i, 2 * i + 1), 2).v]

UpToNul(unit) ==
    SubSeq(unit, 1, Min({i - 1 : i \in {j \in DOMAIN unit : unit[j] = 0}} \cup {Len(unit)}))

(* Mutant: the padding after the terminator is kept. *)
UnpackStringPadded(buf) ==
    CASE buf = << >> -> Bad
      [] buf # << >> /\ buf[1] = 0 -> Good(<< >>, 1)
      [] buf # << >> /\ buf[1] > 0 /\ Len(buf) < 1 + buf[1] * 2 -> Bad
      [] OTHER -> Good(FromUtf16Lossy(UnitsOf(buf, buf[1])), 1 + buf[1] * 2)

(* Mutant: the units that did arrive are taken. *)
UnpackStringLeniently(buf) ==
    IF buf = << >> THEN Bad
    ELSE Good(FromUtf16Lossy(UnitsOf(buf, Min({buf[1], (Len(buf) - 1) \div 2}))), 1 + buf[1] * 2)

(* unpack_string: the units up to the first NUL; the padding is skipped. *)
UnpackString(buf) ==
    IF buf = << >> THEN Bad
    ELSE IF buf[1] = 0 THEN Good(<< >>, 1)
    ELSE IF Len(buf) < 1 + buf[1] * 2 THEN Bad
    ELSE Good(FromUtf16Lossy(UpToNul(UnitsOf(buf, buf[1]))), 1 + buf[1] * 2)

(* unpack_datetime: what does not parse is no date. *)
NoDateText == << >>
DateTexts == { << 1 >>, << 2 >> }
DateOf(s) == IF s \in DateTexts THEN s ELSE NoDateText

UnpackDate(buf) ==
    Then(UnpackString(buf), LAMBDA s : Good(DateOf(s.v), s.n))

(* pack_u16_array, unpack_u16_array and their u32 forms. *)
PackArray(a, w) == PackInt(Len(a), 4) \o FlattenSeq([i \in DOMAIN a |-> PackInt(a[i], w)])

UnpackArray(buf, w) ==
    Then(UnpackInt(buf, 4), LAMBDA count :
        IF Len(buf) < 4 + count.v * w THEN Bad
        ELSE Good([i \in 1 .. count.v |-> UnpackInt(SubSeq(buf, 5 + (i - 1) * w, Len(buf)), w).v],
                  4 + count.v * w))

(* PropertyDataType: its codes are its places here, String is the last u16  *)
(* and an array adds ArrayFlag (0x4000).                                    *)
TypeNames == << "i8", "u8", "i16", "u16", "i32", "u32", "i64", "u64", "i128", "u128" >>
Widths == [t \in Range(TypeNames) |->
    CASE t \in {"i8", "u8"} -> 1 [] t \in {"i16", "u16"} -> 2 [] t \in {"i32", "u32"} -> 4
      [] t \in {"i64", "u64"} -> 8 [] OTHER -> 16]
SignedTypes == {"i8", "i16", "i32", "i64"}
UnsignedTypes == {"u8", "u16", "u32", "u64"}
ArrayFlag == (Base \div 4) * Base
StringCode == Base ^ 2 - 1

TypeOf(code) ==
    CASE code = 0 -> "undefined"
      [] code \in 1 .. 10 -> TypeNames[code]
      [] code = StringCode -> "string"
      [] OTHER -> "unknown"

CodeOf(t) ==
    CASE t = "undefined" -> 0
      [] t = "string"    -> StringCode
      [] OTHER           -> CHOOSE c \in 1 .. 10 : TypeNames[c] = t

(* The fields of a dataset, one after the other: PropertyValue::from_bytes  *)
(* for the ones whose type a property names.                                *)
ReadField(t, buf) ==
    CASE t \in UnsignedTypes -> UnpackInt(buf, Widths[t])
      [] t \in SignedTypes   -> UnpackSigned(buf, Widths[t])
      [] t = "string"        -> UnpackString(buf)
      [] t = "date"          -> UnpackDate(buf)
      [] t = "u16s"          -> UnpackArray(buf, 2)
      [] OTHER               -> Bad

WriteField(t, v) ==
    CASE t \in UnsignedTypes -> PackInt(v, Widths[t])
      [] t \in SignedTypes   -> PackSigned(v, Widths[t])
      [] t = "u16s"          -> PackArray(v, 2)
      [] OTHER               -> PackDeviceString(v)

From(buf, n) == SubSeq(buf, n + 1, Len(buf))

ReadAll(types, buf) ==
    FoldLeft(LAMBDA acc, t :
                Then(acc, LAMBDA a : Then(ReadField(t, From(buf, a.n)), LAMBDA f :
                    Good(Append(a.v, f.v), a.n + f.n))),
             Good(<< >>, 0), types)

WriteAll(types, values) ==
    FlattenSeq([i \in DOMAIN types |-> WriteField(types[i], values[i])])

Repeat(t, n) == [i \in 1 .. n |-> t]

(* ObjectInfo::from_bytes: storage, format, protection, size, thumbnail     *)
(* (format and three numbers), image (three numbers), parent, association,  *)
(* its description, sequence number, name, two dates and keywords.          *)
ObjectLayout ==
    << "u32", "u16", "u16", "u32", "u16" >> \o Repeat("u32", 7) \o << "u16", "u32", "u32" >>
        \o << "string", "date", "date", "string" >>

U32Max == Base ^ 4 - 1
(* Mutant: a cast where the code saturates. *)
Wrap(size) == size % Base ^ 4
Saturate(size) == Min({size, U32Max})
Association == 1
AssociationOf(folder) == IF folder THEN 1 ELSE 0
FormatOf(folder) == IF folder THEN Association ELSE 2

(* object_facts and build_object_info: folders have no size. *)
FactSize(o) == IF o.folder THEN 0 ELSE o.size

BuildObjectInfo(o) ==
    WriteAll(ObjectLayout,
        << o.storage, FormatOf(o.folder), 0, Saturate(FactSize(o)), 0, 0, 0, 0, 0, 0, 0,
           o.parent, AssociationOf(o.folder), 0, 0, o.name, o.created, o.modified, << >> >>)

InfoOf(values) ==
    [storage |-> values[1], format |-> values[2], size |-> values[4], parent |-> values[12],
     association |-> values[13], name |-> values[16], created |-> values[17],
     modified |-> values[18]]

ReadObjectInfo(buf) ==
    Then(ReadAll(ObjectLayout, buf), LAMBDA r : Good(InfoOf(r.v), r.n))

(* ObjectInfo::is_folder. *)
IsFolderInfo(info) == info.format = Association \/ info.association = 1

(* ObjectInfo::to_bytes: the host refuses a name it cannot send. *)
HostWrites(o) ==
    IF PackString(o.name).ok THEN Good(BuildObjectInfo(o), 0) ELSE Bad

(* The properties of an object, by code. *)
PropStorage == 1
PropFormat == 2
PropProtection == 3
PropSize == 4
PropFileName == 5
PropModified == 6
PropUid == 7
PropParent == 8
PropName == 9
PropDisplayName == 10
PropDateAdded == 11
FileProperties == 1 .. 11

(* push_element: the declared type and the bytes of one property. *)
Element(o, property) ==
    PackInt(o.handle, 4) \o PackInt(property, 2) \o
    (CASE property = PropStorage -> PackInt(CodeOf("u32"), 2) \o PackInt(o.storage, 4)
       [] property = PropFormat  -> PackInt(CodeOf("u16"), 2) \o PackInt(FormatOf(o.folder), 2)
       [] property = PropProtection -> PackInt(CodeOf("u16"), 2) \o PackInt(0, 2)
       [] property = PropSize    -> PackInt(CodeOf("u64"), 2) \o PackInt(FactSize(o), 8)
       [] property \in {PropFileName, PropName, PropDisplayName} ->
              PackInt(StringCode, 2) \o PackDeviceString(o.name)
       [] property \in {PropModified, PropDateAdded} ->
              PackInt(StringCode, 2) \o PackDeviceString(o.modified)
       [] property = PropUid ->
              PackInt(CodeOf("u128"), 2) \o PackInt(o.handle, 4) \o PackInt(o.storage, 4) \o Repeat(0, 8)
       [] property = PropParent -> PackInt(CodeOf("u32"), 2) \o PackInt(o.parent, 4)
       [] OTHER -> PackInt(0, 2))

BuildPropList(o) ==
    PackInt(11, 4) \o FlattenSeq([p \in FileProperties |-> Element(o, p)])

(* Mutant: a value the library does not decode is not stepped over. *)
ElementValueInPlace(code, buf) ==
    LET t == TypeOf(code)
    IN  IF code \in ArrayFlag + 1 .. ArrayFlag + 10 \/ t \in {"i128", "u128", "undefined"}
        THEN Good(<< >>, 0)
        ELSE Then(ReadField(t, buf), LAMBDA f : Good(<< t, f.v >>, f.n))

(* ObjectPropListElement::list_from_bytes: arrays, 128-bit integers and     *)
(* values that are not there are stepped over by their size.                *)
StepOver(buf, n) == IF Len(buf) < n THEN Bad ELSE Good(<< >>, n)

ElementValue(code, buf) ==
    IF code \in ArrayFlag + 1 .. ArrayFlag + 10
    THEN Then(UnpackInt(buf, 4), LAMBDA count :
            StepOver(buf, 4 + count.v * Widths[TypeNames[code - ArrayFlag]]))
    ELSE CASE TypeOf(code) \in {"i128", "u128"} -> StepOver(buf, 16)
           [] TypeOf(code) = "undefined" -> StepOver(buf, 0)
           [] TypeOf(code) = "unknown"   -> Bad
           [] OTHER -> Then(ReadField(TypeOf(code), buf), LAMBDA f : Good(<< TypeOf(code), f.v >>, f.n))

ReadElement(buf) ==
    Then(ReadAll(<< "u32", "u16", "u16" >>, buf), LAMBDA head :
        Then(ElementValue(head.v[3], From(buf, 8)), LAMBDA value :
            Good([handle |-> head.v[1], property |-> head.v[2], value |-> value.v], 8 + value.n)))

ListFromBytes(buf) ==
    Then(UnpackInt(buf, 4), LAMBDA count :
        FoldLeft(LAMBDA acc, k :
                    Then(acc, LAMBDA a : Then(ReadElement(From(buf, a.n)), LAMBDA e :
                        Good(Append(a.v, e.v), a.n + e.n))),
                 Good(<< >>, 4), Repeat(0, count.v)))

(* ObjectInfo::set_property: a value of the wrong kind, or too wide for the *)
(* field, changes nothing.                                                  *)
SetProperty(info, e) ==
    IF e.value = << >> THEN info
    ELSE LET t == e.value[1]
             v == e.value[2]
             p == e.property
         IN  CASE t = "string" ->
                    CASE p = PropFileName -> [info EXCEPT !.name = v]
                      [] p = PropModified -> [info EXCEPT !.modified = DateOf(v)]
                      [] OTHER -> info
               [] t \in UnsignedTypes ->
                    CASE p = PropSize -> [info EXCEPT !.size = v]
                      [] p = PropStorage /\ v <= U32Max -> [info EXCEPT !.storage = v]
                      [] p = PropParent /\ v <= U32Max -> [info EXCEPT !.parent = v]
                      [] p = PropFormat /\ v < Base ^ 2 -> [info EXCEPT !.format = v]
                      [] OTHER -> info
               [] OTHER -> info

BlankInfo == [storage |-> 0, format |-> 0, size |-> 0, parent |-> 0, association |-> 0,
              name |-> << >>, created |-> NoDateText, modified |-> NoDateText]

InfoFromList(elements) == FoldLeft(SetProperty, BlankInfo, elements)

(* StorageInfo::from_bytes, build_storage_info and StorageInfo::from_ptp. *)
StorageLayout == << "u16", "u16", "u16", "u64", "u64", "u32", "string", "string" >>

BuildStorageInfo(s) ==
    WriteAll(StorageLayout,
        << 3, 2, IF s.readOnly THEN 1 ELSE 0, s.capacity, Max({0, s.capacity - s.used}), U32Max,
           s.name, << >> >>)

StorageOf(values) ==
    [writable |-> values[3] = 0, capacity |-> values[4], free |-> values[5], name |-> values[7]]

(* DeviceInfo::from_bytes and build_device_info: operations, events,        *)
(* properties and formats are u16 arrays between the strings.               *)
DeviceLayout ==
    << "u16", "u32", "u16", "string", "u16" >> \o Repeat("u16s", 5) \o Repeat("string", 4)

BasicOps == [i \in 1 .. 15 |-> i]
OpSendObjectInfo == 10
OpSendObjectData == 11
OpDeleteObject == 12
OpMoveObject == 13
OpCopyObject == 14
OpGetPartialObject == 16
OpGetPartialObject64 == 17
OpSetObjectPropValue == 18
OpGetObjectPropList == 19

BuildOps(flags) ==
    BasicOps
        \o (IF "partial" \in flags THEN << OpGetPartialObject >> ELSE << >>)
        \o (IF "partial64" \in flags THEN << OpGetPartialObject64 >> ELSE << >>)
        \o (IF "rename" \in flags THEN << OpSetObjectPropValue >> ELSE << >>)
        \o (IF "prop list" \in flags THEN << OpGetObjectPropList >> ELSE << >>)

BuildDeviceInfo(d) ==
    WriteAll(DeviceLayout,
        << 4, 6, 4, << 3 >>, 0, BuildOps(d.flags), << 1, 2, 3 >>, << >>, << >>, << 1, 2 >>,
           << 4 >>, d.name, << 5 >>, d.serial >>)

(* Capabilities::from_ptp_device_info. *)
CapabilitiesOf(values) ==
    LET ops == Range(values[6])
    IN  [upload |-> {OpSendObjectInfo, OpSendObjectData} \subseteq ops,
         delete |-> OpDeleteObject \in ops,
         rename |-> OpSetObjectPropValue \in ops,
         move |-> OpMoveObject \in ops,
         copy |-> OpCopyObject \in ops,
         partial |-> OpGetPartialObject64 \in ops \/ OpGetPartialObject \in ops,
         events |-> values[7] # << >>]

(* DevicePropDesc::from_bytes and PropertyRange::from_bytes: the value's    *)
(* type decides how far each part reaches.                                  *)
ReadForm(form, t, buf) ==
    CASE form = 1 -> ReadAll(<< t, t, t >>, buf)
      [] form = 2 -> Then(UnpackInt(buf, 2), LAMBDA count : ReadAll(Repeat(t, count.v), From(buf, 2)))
      [] OTHER    -> Good(<< >>, 0)

ReadDescOf(head, t, buf) ==
    Then(ReadAll(<< t, t, "u8" >>, buf), LAMBDA vals :
        Then(ReadForm(vals.v[3], t, From(buf, vals.n)), LAMBDA form :
            Good([code |-> head[1], type |-> t, writable |-> head[3] # 0,
                  default |-> vals.v[1], current |-> vals.v[2], form |-> vals.v[3],
                  allowed |-> form.v], 0)))

ReadDesc(buf) ==
    Then(ReadAll(<< "u16", "u16", "u8" >>, buf), LAMBDA head :
        ReadDescOf(head.v, TypeOf(head.v[2]), From(buf, 5)))

(* A camera's descriptor of a property. *)
WriteDesc(d) ==
    WriteAll(<< "u16", "u16", "u8", d.type, d.type, "u8" >>,
             << d.code, CodeOf(d.type), IF d.writable THEN 1 ELSE 0, d.default, d.current, d.form >>)
        \o (IF d.form = 2 THEN PackInt(Len(d.allowed), 2) ELSE << >>)
        \o WriteAll(Repeat(d.type, Len(d.allowed)), d.allowed)

(* Containers: build_response, build_data_container and build_event. *)
ContainerHeader == 12
ContainerTypes == [command |-> 1, data |-> 2, response |-> 3, event |-> 4]

BuildContainer(type, code, tx, body) ==
    PackInt(ContainerHeader + Len(body), 4) \o PackInt(ContainerTypes[type], 2) \o PackInt(code, 2)
        \o PackInt(tx, 4) \o body

Params(params) == FlattenSeq([i \in DOMAIN params |-> PackInt(params[i], 4)])

BuildEvent(code, params) ==
    BuildContainer("event", code, 0, Params(SubSeq(params, 1, Min({Len(params), 3}))))

(* The header checks of DataContainer, ResponseContainer and EventContainer *)
(* ::from_bytes.                                                            *)
ReadHeader(type, buf) ==
    Then(ReadAll(<< "u32", "u16", "u16", "u32" >>, buf), LAMBDA h :
        IF /\ h.v[2] = ContainerTypes[type]
           /\ h.v[1] >= ContainerHeader
           /\ Len(buf) >= h.v[1]
           /\ type = "event" => h.v[1] <= ContainerHeader + 12
        THEN Good([code |-> h.v[3], tx |-> h.v[4], body |-> SubSeq(buf, ContainerHeader + 1, h.v[1])], 0)
        ELSE Bad)

ParamsOf(body) == ReadAll(Repeat("u32", Len(body) \div 4), body)

ReadParams(type, buf) ==
    Then(ReadHeader(type, buf), LAMBDA h :
        IF Len(h.v.body) % 4 # 0 THEN Bad
        ELSE Then(ParamsOf(h.v.body), LAMBDA given :
            Good([code |-> h.v.code, tx |-> h.v.tx,
                  params |-> IF type = "event" THEN given.v \o Repeat(0, 3 - Len(given.v))
                             ELSE given.v], 0)))

(* ---- What is sent -------------------------------------------------------- *)

ObjectSamples ==
    [storage : {1}, handle : {7}, parent : {9}, folder : BOOLEAN, name : ObjectNames,
     size : {5, U32Max - 1, U32Max, U32Max + 1}, created : {NoDateText},
     modified : {NoDateText, << 1 >>, << 3 >>}]

StorageSamples == [readOnly : BOOLEAN, capacity : {9, U32Max + 1}, used : {0, 10}, name : ObjectNames]

DeviceSamples ==
    [flags : SUBSET {"partial", "partial64", "rename", "prop list"}, name : ObjectNames, serial : {<< 3, 4 >>}]

DescSamples(t) ==
    LET vals  == IF t = "string" THEN {<< >>, << 3, 3 >>}
                 ELSE IF t \in SignedTypes THEN {-1, 2} ELSE {0, Base - 1}
        forms == { << 0, << >> >> } \cup { << 1, << a, b, a >> >> : a, b \in vals }
                     \cup { << 2, << a, b >> >> : a, b \in vals }
    IN  { [code |-> 1, type |-> t, writable |-> w, default |-> a, current |-> b,
           form |-> f[1], allowed |-> f[2]] : w \in BOOLEAN, a \in vals, b \in vals, f \in forms }

ContainerSamples ==
    { [type |-> t, params |-> p] : t \in {"response", "event"},
                                   p \in UNION { [1 .. n -> {1, U32Max}] : n \in 0 .. 4 } }

(* An element of any declared type, the value zeros: an array of two, a     *)
(* string of one unit.                                                      *)
RawElement(code, property) ==
    PackInt(7, 4) \o PackInt(property, 2) \o PackInt(code, 2) \o
    (CASE code \in ArrayFlag + 1 .. ArrayFlag + 10 ->
              PackInt(2, 4) \o Repeat(0, 2 * Widths[TypeNames[code - ArrayFlag]])
       [] code \in 1 .. 10    -> Repeat(0, Widths[TypeNames[code]])
       [] code = StringCode   -> << 2, 1, 0, 0, 0 >>
       [] OTHER               -> << >>)

TypeCodes == 0 .. 11 \cup ArrayFlag .. ArrayFlag + 11 \cup {StringCode}

DatasetInit ==
    /\ \/ \E o \in ObjectSamples, via \in {"info", "list", "upload"} :
              sample = [is |-> via, value |-> o]
       \/ \E v \in StorageSamples   : sample = [is |-> "storage", value |-> v]
       \/ \E v \in DeviceSamples    : sample = [is |-> "device", value |-> v]
       \/ \E t \in {"i8", "u8", "i16", "u64", "string"} : \E v \in DescSamples(t) : sample = [is |-> "desc", value |-> v]
       \/ \E v \in ContainerSamples : sample = [is |-> "container", value |-> v]
       \/ \E a, b \in TypeCodes : sample = [is |-> "elements", value |-> << a, b >>]
       \/ \E u \in RawStrings : sample = [is |-> "string", value |-> u]
    /\ payload = << >>
    /\ whole = TRUE
    /\ read = Unread

(* The bytes of a sample: the virtual device's, or the host's for an upload. *)
Bytes(v) ==
    CASE sample.is = "info"      -> BuildObjectInfo(v)
      [] sample.is = "list"      -> BuildPropList(v)
      [] sample.is = "upload"    -> HostWrites(v).v
      [] sample.is = "storage"   -> BuildStorageInfo(v)
      [] sample.is = "device"    -> BuildDeviceInfo(v)
      [] sample.is = "desc"      -> WriteDesc(v)
      [] sample.is = "container" -> IF v.type = "event" THEN BuildEvent(2, v.params)
                                    ELSE BuildContainer("response", 1, 5, Params(v.params))
      [] sample.is = "elements"  -> PackInt(3, 4) \o RawElement(v[1], 12) \o RawElement(v[2], 12)
                                        \o RawElement(CodeOf("u16"), PropFormat)
      [] sample.is = "string"    -> << Len(v) >> \o FlattenSeq([i \in DOMAIN v |-> PackInt(v[i], 2)])

Compose ==
    /\ payload = << >>
    /\ sample.is = "upload" => HostWrites(sample.value).ok
    /\ payload' = Bytes(sample.value)
    /\ UNCHANGED << sample, whole, read >>

(* The reader of each dataset. *)
FromBytes(buf) ==
    CASE sample.is \in {"info", "upload"} -> ReadObjectInfo(buf)
      [] sample.is = "storage"   -> ReadAll(StorageLayout, buf)
      [] sample.is = "device"    -> ReadAll(DeviceLayout, buf)
      [] sample.is = "desc"      -> ReadDesc(buf)
      [] sample.is = "container" -> ReadParams(sample.value.type, buf)
      [] sample.is = "string"    -> UnpackString(buf)
      [] OTHER                   -> ListFromBytes(buf)

(* The bytes arrive, or the transfer ends early and only the first n do. *)
Arrive ==
    /\ payload # << >> /\ read = Unread
    /\ \E n \in 1 .. Len(payload) :
          /\ payload' = SubSeq(payload, 1, n)
          /\ whole' = (n = Len(payload))
          /\ read' = FromBytes(SubSeq(payload, 1, n))
    /\ UNCHANGED sample

DatasetNext == Compose \/ Arrive

(* ---- Properties ---------------------------------------------------------- *)

(* What an object is, as far as a listing shows it. *)
Shown(o, name) ==
    [storage |-> o.storage, format |-> FormatOf(o.folder), size |-> FactSize(o),
     parent |-> o.parent, name |-> name, modified |-> DateOf(o.modified)]

Listing(info) == [f \in {"storage", "format", "size", "parent", "name", "modified"} |-> info[f]]

(* Every dataset that arrives whole is read as it was meant, whatever comes *)
(* before and after a field: names cut by the device, sizes at the limit,   *)
(* values of any type, parameters that are missing (the from_bytes          *)
(* functions against the builders of the virtual device and of uploads).    *)
ReadsWhatWasWritten ==
    read # Unread /\ whole =>
      LET r == read
          v == sample.value
      IN  CASE sample.is = "info" ->
                 /\ r.ok /\ r.n = Len(payload)
                 /\ Listing(r.v) = [Shown(v, DeviceCut(v.name)) EXCEPT !.size = Saturate(@)]
                 /\ IsFolderInfo(r.v) = v.folder
            [] sample.is = "list" ->
                 /\ r.ok /\ r.n = Len(payload)
                 /\ Listing(InfoFromList(r.v)) = Shown(v, DeviceCut(v.name))
            [] sample.is = "upload" ->
                 /\ r.ok
                 /\ Listing(r.v) = [Shown(v, v.name) EXCEPT !.size = Saturate(@)]
            [] sample.is = "storage" ->
                 /\ r.ok
                 /\ StorageOf(r.v) = [writable |-> ~v.readOnly, capacity |-> v.capacity,
                                      free |-> IF v.used > v.capacity THEN 0 ELSE v.capacity - v.used,
                                      name |-> DeviceCut(v.name)]
            [] sample.is = "device" ->
                 /\ r.ok /\ r.v[12] = DeviceCut(v.name) /\ r.v[14] = DeviceCut(v.serial)
                 /\ CapabilitiesOf(r.v).rename = ("rename" \in v.flags)
                 /\ CapabilitiesOf(r.v).partial = (v.flags \cap {"partial", "partial64"} # {})
            [] sample.is = "desc" -> r.ok /\ r.v = v
            [] sample.is = "container" ->
                 /\ r.ok = TRUE
                 /\ IF v.type = "event" THEN r.v.params = SubSeq(v.params \o << 0, 0, 0 >>, 1, 3)
                    ELSE r.v.params = v.params
            [] OTHER -> TRUE

(* Each property of a list is read from its own place: one whose value the  *)
(* library cannot decode is stepped over, and a list with a type it cannot  *)
(* size is refused (ObjectPropListElement::list_from_bytes).                *)
ListsStayInStep ==
    read # Unread /\ whole /\ sample.is = "elements" =>
        LET sized == \A i \in 1 .. 2 : sample.value[i] \notin {11, ArrayFlag, ArrayFlag + 11}
        IN  /\ read.ok = sized
            /\ sized => /\ read.n = Len(payload)
                        /\ read.v[3] = [handle |-> 7, property |-> PropFormat, value |-> << "u16", 0 >>]

(* A dataset of which bytes are missing is refused, never half read.        *)
NothingIsHalfRead ==
    read # Unread /\ ~whole => ~read.ok

(* An object looks the same through GetObjectInfo, once a size at the u32   *)
(* limit is asked for by itself, as through GetObjectPropList               *)
(* (builders.rs: both answer from object_facts "so they agree").            *)
PathsAgree ==
    read # Unread /\ whole /\ sample.is = "list" =>
        LET o       == sample.value
            info    == ReadObjectInfo(BuildObjectInfo(o)).v
            whole64 == ReadField("u64", PackInt(FactSize(o), 8)).v
            full    == [info EXCEPT !.size = IF @ = U32Max THEN whole64 ELSE @]
            list    == InfoFromList(read.v)
        IN  Listing(full) = Listing(list) /\ IsFolderInfo(full) = IsFolderInfo(list)

(* Whatever units a device sends for a string, terminated early, padded or  *)
(* cut inside a surrogate pair, the host reads text without NULs and steps  *)
(* over all of it; if the device ended it with a NUL, the host can send the *)
(* same text back (unpack_string, pack_string).                             *)
RawStringsAreRead ==
    read # Unread /\ whole /\ sample.is = "string" =>
        /\ read.ok
        /\ read.n = Len(payload)
        /\ Range(read.v) \cap {0, HighSurrogate, LowSurrogate} = {}
        /\ 0 \in Range(sample.value) =>
             /\ PackString(read.v).ok
             /\ UnpackString(PackString(read.v).v).v = read.v

(* Reader and writer of the protocol agree on every dataset, whole or cut,  *)
(* and a reader stays in step with whatever a device sends.                 *)
DatasetsAreRead ==
    ReadsWhatWasWritten /\ ListsStayInStep /\ NothingIsHalfRead /\ PathsAgree /\ RawStringsAreRead
=============================================================================
