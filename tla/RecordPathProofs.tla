--------------------------- MODULE RecordPathProofs ---------------------------
(***************************************************************************)
(* Proofs about RecordPath for all capacities and all records: what a slot *)
(* and the worker's scratch buffers hold fits them, the status of a call   *)
(* is what the contract says, a record with nothing to escape is rendered  *)
(* whole, and the sinks are handed what the caller passed.                 *)
(***************************************************************************)
EXTENDS RecordPath, WellFoundedInduction, TLAPS

USE DEF ring, line

(* Arithmetic: the widths of i fields.                                     *)
LEMMA OneMore ==
  ASSUME NEW i \in Nat, NEW w \in Nat PROVE (i + 1) * w = i * w + w
OBVIOUS

LEMMA NoMore ==
  ASSUME NEW i \in Nat, NEW n \in Nat, NEW w \in Nat, i <= n
  PROVE  i * w <= n * w
<1>1. (n - i) * w >= 0
  OBVIOUS
<1>2. (n - i) * w = n * w - i * w
  OBVIOUS
<1> QED
  BY <1>1, <1>2

(* Copies fit.                                                             *)
LEMMA CutFits ==
  ASSUME NEW t \in Text, NEW n \in Nat, n > 1
  PROVE  Fits(Cut(t, n), n) /\ (t.length < n => Cut(t, n) = t)
BY DEF Text, Cut, Fits, Classes

\* A field that fits its storage is copied as it is.
LEMMA CopyFits ==
  ASSUME NEW f \in Field, f.key.length < FieldKeyCapacity,
         f.type = "string" => f.text.length < FieldValueCapacity
  PROVE  CopyField(f) = f /\ FieldFits(f)
<1>1. /\ f = [key |-> f.key, type |-> f.type, text |-> f.text]
      /\ f.key \in Key /\ f.text \in Text
  BY DEF Field
<1>2. CutKey(f.key) = f.key
  <2>1. /\ f.key = [name |-> f.key.name, form |-> f.key.form,
                    length |-> f.key.length]
        /\ f.key.length \in Nat
    BY <1>1 DEF Key
  <2>2. ~(f.key.length >= FieldKeyCapacity)
    BY <2>1, SizesAssumption
  <2> QED
    BY <2>1, <2>2 DEF CutKey
<1>3. f.type = "string" => Cut(f.text, FieldValueCapacity) = f.text
  BY <1>1, SizesAssumption, CutFits
<1> QED
  BY <1>1, <1>2, <1>3 DEF CopyField, FieldFits

\* Validation lets nothing through that a copy would cut.
LEMMA AcceptedFits ==
  ASSUME NEW fs \in FieldLists, FieldsAccepted(fs)
  PROVE  /\ Len(fs) \in 0 .. FieldCapacity
         /\ \A i \in 1 .. Len(fs) : CopyField(fs[i]) = fs[i] /\ FieldFits(fs[i])
<1>1. fs \in Seq(Field)
  BY InputsAssumption
<1>2. ASSUME NEW i \in 1 .. Len(fs)
      PROVE  CopyField(fs[i]) = fs[i] /\ FieldFits(fs[i])
  <2>1. fs[i] \in Field /\ FieldStatus(fs, i) = "OK"
    BY <1>1 DEF FieldsAccepted
  <2>2. fs[i].key \in Key /\ fs[i].text \in Text
    BY <2>1 DEF Field
  <2>3. fs[i].key.length < FieldKeyCapacity
    BY <2>1, <2>2, SizesAssumption DEF FieldStatus, KeyRefused, Key
  <2>4. fs[i].type = "string" => fs[i].text.length < FieldValueCapacity
    BY <2>1, <2>2, SizesAssumption DEF FieldStatus, ValueTooLong, Text
  <2> QED
    BY <2>1, <2>3, <2>4, CopyFits
<1> QED
  BY <1>1, <1>2 DEF FieldsAccepted

-------------------------------------------------------------------------------
(* Type correctness.                                                       *)

LEMMA EmptyFits == RecordFits(EmptyRecord)
<1>1. FieldFits(EmptyField)
  <2>1. EmptyField.key \in Key /\ Empty \in Text
    BY DEF EmptyField, Key, Text, Classes, Empty
  <2>2. EmptyField \in Field
    BY <2>1 DEF EmptyField, Field, Types
  <2>3. EmptyField.key.length = 0 /\ EmptyField.text.length = 0
    BY DEF EmptyField, Empty
  <2> QED
    BY <2>2, <2>3, SizesAssumption DEF FieldFits
<1> QED
  BY <1>1, SizesAssumption DEF RecordFits, EmptyRecord, Fits, Text, Classes, Empty

\* A copy of the first n fields of one record over another.
LEMMA CopiedFit ==
  ASSUME NEW to, NEW from, NEW n \in 0 .. FieldCapacity,
         \A i \in 1 .. FieldCapacity : FieldFits(to[i]),
         \A i \in 1 .. n : FieldFits(CopyField(from[i]))
  PROVE  /\ DOMAIN CopyFields(to, from, n) = 1 .. FieldCapacity
         /\ \A i \in 1 .. FieldCapacity : FieldFits(CopyFields(to, from, n)[i])
<1>1. ASSUME NEW i \in 1 .. FieldCapacity
      PROVE  FieldFits(CopyFields(to, from, n)[i])
  <2>1. CopyFields(to, from, n)[i] = IF i <= n THEN CopyField(from[i]) ELSE to[i]
    BY DEF CopyFields
  <2>2. CASE i <= n
    <3>1. i \in 1 .. n
      BY <2>2, SizesAssumption
    <3> QED
      BY <2>1, <2>2, <3>1
  <2>3. CASE ~(i <= n)
    BY <2>1, <2>3
  <2> QED
    BY <2>2, <2>3
<1>2. DOMAIN CopyFields(to, from, n) = 1 .. FieldCapacity
  BY DEF CopyFields
<1> QED
  BY <1>1, <1>2

Call == [message : Messages, context : Contexts, fields : FieldLists]
IInv == TypeOK /\ accepted \in Seq(Call)

LEMMA StoreFits ==
  ASSUME IInv, NEW slot, RecordFits(slot),
         NEW m \in Messages, NEW c \in Contexts,
         NEW fs \in FieldLists, FieldsAccepted(fs)
  PROVE  RecordFits(Store(slot, m, c, fs))
<1> DEFINE new == Store(slot, m, c, fs)
<1>1. /\ Len(fs) \in 0 .. FieldCapacity
      /\ \A i \in 1 .. Len(fs) : FieldFits(CopyField(fs[i]))
  BY AcceptedFits
<1>2. /\ DOMAIN new.fields = 1 .. FieldCapacity
      /\ \A i \in 1 .. FieldCapacity : FieldFits(new.fields[i])
  <2>1. \A i \in 1 .. FieldCapacity : FieldFits(slot.fields[i])
    BY DEF RecordFits
  <2>2. new.fields = CopyFields(slot.fields, fs, Len(fs))
    BY DEF Store
  <2> QED
    BY <1>1, <2>1, <2>2, CopiedFit
<1>3. Fits(new.message, MessageCapacity) /\ Fits(new.context, ContextCapacity)
  BY CutFits, SizesAssumption, InputsAssumption DEF Store
<1>4. new.sequence_id \in Nat /\ new.field_count \in 0 .. FieldCapacity
  BY <1>1 DEF Store, IInv
<1> QED
  BY <1>2, <1>3, <1>4 DEF RecordFits

\* The worker's copy of a slot is the slot's record.
LEMMA TakenFits ==
  ASSUME NEW old, RecordFits(old), NEW slot, RecordFits(slot)
  PROVE  RecordFits([sequence_id |-> slot.sequence_id,
           message |-> slot.message, context |-> slot.context,
           field_count |-> slot.field_count,
           fields |-> CopyFields(old.fields, slot.fields, slot.field_count)])
<1>1. slot.field_count \in 0 .. FieldCapacity
  BY DEF RecordFits
<1>2. \A i \in 1 .. slot.field_count : FieldFits(CopyField(slot.fields[i]))
  <2> SUFFICES ASSUME NEW i \in 1 .. slot.field_count
               PROVE  FieldFits(CopyField(slot.fields[i]))
    OBVIOUS
  <2>1. i \in 1 .. FieldCapacity
    BY <1>1, SizesAssumption
  <2>2. FieldFits(slot.fields[i])
    BY <2>1 DEF RecordFits
  <2> QED
    BY <2>2, CopyFits DEF FieldFits
<1>3. \A i \in 1 .. FieldCapacity : FieldFits(old.fields[i])
  BY DEF RecordFits
<1> QED
  BY <1>1, <1>2, <1>3, CopiedFit DEF RecordFits

LEMMA Initially == Init => IInv
<1> SUFFICES ASSUME Init PROVE IInv
  OBVIOUS
<1>1. \A i \in 0 .. BufferCapacity - 1 : RecordFits(slots[i])
  BY EmptyFits DEF Init
<1>2. RecordFits(record)
  BY EmptyFits DEF Init
<1> QED
  BY <1>1, <1>2, SizesAssumption DEF Init, IInv, TypeOK

LEMMA NextHead ==
  ASSUME TypeOK PROVE (queue_head + 1) % BufferCapacity
                        \in 0 .. BufferCapacity - 1
<1>1. BufferCapacity \in Nat /\ BufferCapacity > 0 /\ queue_head + 1 \in Int
  BY SizesAssumption DEF TypeOK
<1> QED
  BY <1>1

LEMMA EnqueueKeeps ==
  ASSUME IInv, NEW m \in Messages, NEW c \in Contexts, NEW fs \in FieldLists,
         Enqueue(m, c, fs)
  PROVE  IInv'
<1>1. slots' = [slots EXCEPT ![queue_tail] = Store(@, m, c, fs)]
  BY DEF Enqueue
<1>2. DOMAIN slots' = 0 .. BufferCapacity - 1
  BY <1>1 DEF IInv, TypeOK
<1>3. ASSUME NEW i \in 0 .. BufferCapacity - 1
      PROVE  RecordFits(slots'[i])
  <2>1. RecordFits(slots[i])
    BY DEF IInv, TypeOK
  <2>2. RecordFits(Store(slots[i], m, c, fs))
    BY <2>1, StoreFits DEF Enqueue
  <2>3. slots'[i] = IF i = queue_tail THEN Store(slots[i], m, c, fs)
                    ELSE slots[i]
    BY <1>1 DEF IInv, TypeOK
  <2> QED
    BY <2>1, <2>2, <2>3
<1>4. queue_count' \in 0 .. BufferCapacity
  BY SizesAssumption DEF Enqueue, IInv, TypeOK
<1>5. accepted' \in Seq(Call)
  BY DEF Enqueue, IInv, Call
<1>6. UNCHANGED <<queue_head, record, config, wpc, rindex, used>>
  BY DEF Enqueue
<1>7. RecordFits(record')
  BY <1>6 DEF IInv, TypeOK
<1> QED
  BY <1>2, <1>3, <1>4, <1>5, <1>6, <1>7 DEF IInv, TypeOK

LEMMA DequeueKeeps ==
  ASSUME IInv, Dequeue PROVE IInv'
<1>1. RecordFits(record')
  BY TakenFits DEF Dequeue, IInv, TypeOK
<1>2. queue_head' \in 0 .. BufferCapacity - 1
  BY NextHead DEF Dequeue, IInv
<1>3. queue_count' \in 0 .. BufferCapacity
  BY SizesAssumption DEF Dequeue, IInv, TypeOK
<1>4. UNCHANGED <<slots, rindex, used, config, accepted>> /\ wpc' = "record"
  BY DEF Dequeue, WorkerMoves
<1> QED
  BY <1>1, <1>2, <1>3, <1>4 DEF IInv, TypeOK
\* The numbers the renderer adds.
LEMMA EscapedLength ==
  ASSUME NEW t \in Text
  PROVE  Escaped(t) \in Nat /\ (t.class = "plain" => Escaped(t) = t.length)
<1>1. t.length \in Nat
  BY DEF Text
<1>2. 2 * t.length \in Nat /\ 6 * t.length \in Nat
  BY <1>1
<1> QED
  BY <1>1, <1>2 DEF Escaped

LEMMA PlainHeader ==
  ASSUME TypeOK
  PROVE  /\ JsonHeader + ContextPair \in Nat
         /\ TextHeader + ContextPair \in Nat
         /\ Plain => /\ JsonHeader + ContextPair
                          <= MessageCapacity + ContextCapacity + 287
                     /\ TextHeader + ContextPair
                          <= MessageCapacity + ContextCapacity + 287
<1> DEFINE s == Escaped(config.service_name)
           e == Escaped(config.environment_name)
           m == Escaped(record.message)
           c == Escaped(record.context)
<1>1. /\ config.service_name \in Text /\ config.service_name.length <= 63
      /\ config.environment_name \in Text
      /\ config.environment_name.length <= 63
  BY InputsAssumption DEF TypeOK, Config, Name, NameLength
<1>2. /\ record.message \in Text /\ record.message.length < MessageCapacity
      /\ record.context \in Text /\ record.context.length < ContextCapacity
  BY DEF TypeOK, RecordFits, Fits
<1>3. s \in Nat /\ e \in Nat /\ m \in Nat /\ c \in Nat
  BY <1>1, <1>2, EscapedLength
<1>4. Plain => s <= 63 /\ e <= 63 /\ m < MessageCapacity /\ c < ContextCapacity
  BY <1>1, <1>2, EscapedLength DEF Plain
<1>5. Mark \in 1 .. 2
  BY DEF Mark
<1>6. /\ JsonHeader = 1 + 2 + 2 + Mark + 2 + 31 + (Mark + 2 + 5 + Mark + 2 + 7)
                      + (Mark + 2 + 7 + Mark + 2 + s)
                      + (Mark + 2 + 11 + Mark + 2 + e)
                      + (Mark + 2 + 11 + Mark + 2 + 20)
                      + (Mark + 2 + 7 + Mark + 2 + m)
      /\ TextHeader = 31 + (1 + 5 + 3 + 7 - 2) + (1 + 7 + 3 + s)
                      + (1 + 11 + 3 + e) + (1 + 11 + 3 + 20) + (1 + 7 + 3 + m)
  BY <1>3, <1>5 DEF JsonHeader, TextHeader, JsonPair, TextPair, TimestampText,
     LevelText, SequenceText
<1>7. \/ ContextPair = 0
      \/ ContextPair = Mark + 2 + 7 + Mark + 2 + c
      \/ ContextPair = 1 + 7 + 3 + c
  BY DEF ContextPair, JsonPair, TextPair
<1> HIDE DEF s, e, m, c
<1> QED
  BY <1>3, <1>4, <1>5, <1>6, <1>7, SizesAssumption

W == FieldKeyCapacity + FieldValueCapacity + 64

LEMMA PlainField ==
  ASSUME NEW f, FieldFits(f)
  PROVE  FieldWidth(f) \in Nat /\ (f.text.class = "plain" => FieldWidth(f) <= W)
<1> DEFINE x == Escaped(f.text)
<1>1. /\ f.key \in Key /\ f.text \in Text /\ f.key.length < FieldKeyCapacity
      /\ f.type = "string" => f.text.length < FieldValueCapacity
      /\ f.type # "string" => f.text.length <= 24
  BY DEF FieldFits, Field, NumberText
<1>2. f.key.length \in Nat /\ f.text.length \in Nat
  BY <1>1 DEF Key, Text
<1>3. x \in Nat /\ (f.text.class = "plain" => x = f.text.length)
  BY <1>1, EscapedLength
<1>4. Mark \in 1 .. 2
  BY DEF Mark
<1>5. /\ FieldValue(f) \in Nat
      /\ f.text.class = "plain" => FieldValue(f) <= FieldValueCapacity + 24
  <2> HIDE DEF x
  <2>1. FieldValue(f) = IF f.type = "string" THEN 2 + x ELSE f.text.length
    BY DEF FieldValue, x
  <2> QED
    BY <1>1, <1>2, <1>3, <2>1, SizesAssumption
<1>6. \/ FieldWidth(f) = Mark + 2 + f.key.length + Mark + FieldValue(f)
      \/ FieldWidth(f) = 2 + f.key.length + FieldValue(f)
  BY DEF FieldWidth
<1> QED
  BY <1>1, <1>2, <1>4, <1>5, <1>6, SizesAssumption DEF W

-------------------------------------------------------------------------------
(* The steps of the renderer, with the length of a line of plain texts.    *)

Line ==
  /\ wpc \in {"fields", "rendered"} => rindex <= record.field_count
  /\ wpc = "fields" /\ Plain =>
       used <= MessageCapacity + ContextCapacity + 287 + rindex * W
  /\ wpc = "rendered" /\ Plain =>
       used <= MessageCapacity + ContextCapacity + 288
               + record.field_count * W

LEMMA HeaderKeeps ==
  ASSUME IInv, RenderHeader PROVE IInv' /\ Line'
<1>1. UNCHANGED <<slots, queue_head, queue_count, record, config, accepted>>
  BY DEF RenderHeader, WorkerMoves
<1>2. wpc' = "fields" /\ rindex' = 0
  BY DEF RenderHeader, WorkerMoves
<1>3. used' = (IF config.format = "JSON" THEN JsonHeader ELSE TextHeader)
              + ContextPair
  BY DEF RenderHeader
<1>4. used' \in Nat
      /\ (Plain => used' <= MessageCapacity + ContextCapacity + 287)
  BY <1>3, PlainHeader DEF IInv
<1>5. IInv'
  BY <1>1, <1>2, <1>4 DEF IInv, TypeOK, RecordFits
<1>6. Plain' <=> Plain
  BY <1>1 DEF Plain
<1>7. 0 <= record.field_count /\ 0 * W = 0
  BY SizesAssumption, SMTT(30) DEF IInv, TypeOK, RecordFits, W
<1> QED
  BY <1>1, <1>2, <1>4, <1>5, <1>6, <1>7, SizesAssumption DEF Line

LEMMA FieldKeeps ==
  ASSUME IInv, Line, RenderField PROVE IInv' /\ Line'
<1> DEFINE f == record.fields[rindex + 1]
<1>1. UNCHANGED <<slots, queue_head, queue_count, record, config, accepted>>
  BY DEF RenderField, WorkerMoves
<1>2. /\ wpc = "fields" /\ wpc' = "fields" /\ rindex' = rindex + 1
      /\ rindex < record.field_count
      /\ used' = used + FieldWidth(f)
  BY DEF RenderField, WorkerMoves
<1>3. /\ rindex \in Nat /\ used \in Nat /\ W \in Nat
      /\ record.field_count \in 0 .. FieldCapacity
  BY SizesAssumption DEF IInv, TypeOK, RecordFits, W
<1>4. FieldFits(f)
  <2>1. rindex + 1 \in 1 .. FieldCapacity
    BY <1>2, <1>3, SizesAssumption
  <2> QED
    BY <2>1 DEF IInv, TypeOK, RecordFits
<1>5. Plain => f.text.class = "plain"
  <2>1. rindex + 1 \in 1 .. record.field_count
    BY <1>2, <1>3
  <2> QED
    BY <2>1 DEF Plain
<1>6. FieldWidth(f) \in Nat /\ (Plain => FieldWidth(f) <= W)
  BY <1>4, <1>5, PlainField
<1> HIDE DEF f
<1>7. IInv'
  BY <1>1, <1>2, <1>3, <1>6 DEF IInv, TypeOK, RecordFits
<1>8. Plain' <=> Plain
  BY <1>1 DEF Plain
<1>9. /\ rindex * W \in Int
      /\ (rindex + 1) * W = rindex * W + W
  BY <1>3, OneMore
<1>10. rindex' <= record'.field_count
  BY <1>1, <1>2, <1>3
<1>11. Plain' => used' <= MessageCapacity + ContextCapacity + 287 + rindex' * W
  BY <1>2, <1>3, <1>6, <1>8, <1>9, SizesAssumption DEF Line
<1> QED
  BY <1>2, <1>7, <1>10, <1>11 DEF Line

LEMMA EndKeeps ==
  ASSUME IInv, Line, RenderEnd PROVE IInv' /\ Line'
<1>1. UNCHANGED <<slots, queue_head, queue_count, record, config, accepted>>
  BY DEF RenderEnd, WorkerMoves
<1>2. /\ wpc = "fields" /\ wpc' = "rendered" /\ rindex' = rindex
      /\ rindex = record.field_count
      /\ used' = used + (IF config.format = "JSON" THEN 1 ELSE 0)
  BY DEF RenderEnd, WorkerMoves
<1>3. /\ rindex \in Nat /\ used \in Nat /\ W \in Nat
      /\ record.field_count \in Nat
  BY SizesAssumption DEF IInv, TypeOK, RecordFits, W
<1>4. used' \in Nat /\ used' <= used + 1
  BY <1>2, <1>3
<1>5. IInv'
  BY <1>1, <1>2, <1>3, <1>4 DEF IInv, TypeOK, RecordFits
<1>6. Plain' <=> Plain
  BY <1>1 DEF Plain
<1>7. rindex * W \in Int
  BY <1>3
<1>8. Plain' => used' <= MessageCapacity + ContextCapacity + 288
                         + record'.field_count * W
  <2>1. record' = record
    BY <1>1
  <2>2. Plain => used <= MessageCapacity + ContextCapacity + 287 + rindex * W
    BY <1>2 DEF Line
  <2>3. record'.field_count * W = rindex * W
    BY <1>2, <2>1
  <2> HIDE DEF W
  <2> QED
    BY <1>3, <1>4, <1>6, <1>7, <2>2, <2>3, SizesAssumption
<1> QED
  BY <1>1, <1>2, <1>3, <1>5, <1>8 DEF Line

-------------------------------------------------------------------------------
(* The invariants of the specification.                                    *)

LEMMA Inductive == IInv /\ Line /\ [Next]_vars => IInv' /\ Line'
<1> SUFFICES ASSUME IInv, Line, [Next]_vars PROVE IInv' /\ Line'
  OBVIOUS
<1>1. CASE UNCHANGED <<slots, queue_head, queue_count, record, config, wpc,
                       rindex, used, accepted>>
  BY <1>1 DEF IInv, TypeOK, RecordFits, Line, Plain
<1>2. ASSUME NEW fs \in FieldLists, NEW m \in Messages, NEW c \in Contexts,
             Enqueue(m, c, fs)
      PROVE  IInv' /\ Line'
  <2>1. UNCHANGED <<record, config, wpc, rindex, used>>
    BY <1>2 DEF Enqueue
  <2> QED
    BY <1>2, <2>1, EnqueueKeeps DEF Line, Plain
<1>3. CASE Dequeue
  BY <1>3, DequeueKeeps DEF Line, Dequeue, WorkerMoves
<1>4. CASE FanOut
  BY <1>4 DEF FanOut, WorkerMoves, IInv, TypeOK, RecordFits, Line
<1>5. ASSUME NEW new \in Configs, Configure(new) PROVE IInv' /\ Line'
  BY <1>5 DEF Configure, IInv, TypeOK, RecordFits, Line
<1> QED
  BY <1>1, <1>2, <1>3, <1>4, <1>5, HeaderKeeps, FieldKeeps, EndKeeps
     DEF Next, vars, Refuse, QueueFull, Return, Terminated

LEMMA LineInitially == Init => Line
BY DEF Init, Line

LEMMA Typed == Spec => [](IInv /\ Line)
BY Initially, LineInitially, Inductive, PTL DEF Spec

\* Whatever is logged, in whatever order, no copy runs over its storage.
THEOREM TypeCorrect == Spec => []TypeOK
<1>1. IInv /\ Line => TypeOK
  BY DEF IInv
<1> QED
  BY <1>1, Typed, PTL

\* With any capacities, a record with nothing to escape is rendered whole.
THEOREM PlainStaysWhole == Spec => []PlainIsWhole
<1>1. IInv /\ Line => PlainIsWhole
  <2> SUFFICES ASSUME IInv, Line, wpc = "rendered", Plain PROVE Whole
    BY DEF PlainIsWhole
  <2>1. used <= MessageCapacity + ContextCapacity + 288
                + record.field_count * W
    BY DEF Line
  <2>2. /\ record.field_count \in Nat /\ record.field_count <= FieldCapacity
        /\ W \in Nat /\ used \in Nat
    BY SizesAssumption DEF IInv, TypeOK, RecordFits, W
  <2>3. /\ record.field_count * W <= FieldCapacity * W
        /\ record.field_count * W \in Int /\ FieldCapacity * W \in Int
    BY <2>2, NoMore, SizesAssumption
  <2>4. RenderCapacity = MessageCapacity + ContextCapacity + FieldCapacity * W
                         + 384
    BY DEF RenderCapacity, W
  <2> HIDE DEF W
  <2> QED
    BY <2>1, <2>2, <2>3, <2>4, SizesAssumption DEF Whole
<1> QED
  BY <1>1, Typed, PTL

-------------------------------------------------------------------------------
(* The status of a refused call.                                           *)

\* Among the fields that are refused there is a first.
LEMMA FirstRefused ==
  ASSUME NEW fs \in Seq(Field), NEW n \in 1 .. Len(fs),
         FieldStatus(fs, n) # "OK"
  PROVE  \E i \in 1 .. Len(fs) :
           /\ FieldStatus(fs, i) # "OK"
           /\ \A j \in 1 .. i - 1 : FieldStatus(fs, j) = "OK"
<1> DEFINE bad == {i \in 1 .. Len(fs) : FieldStatus(fs, i) # "OK"}
<1>1. bad \subseteq Nat /\ bad # {}
  OBVIOUS
<1>2. \E i \in bad : \A j \in bad : ~ (<<j, i>> \in OpToRel(<, Nat))
  BY <1>1, NatLessThanWellFounded, WFMin
<1>3. PICK i \in bad : \A j \in bad : ~ (j < i)
  BY <1>1, <1>2 DEF OpToRel
<1>4. ASSUME NEW j \in 1 .. i - 1 PROVE FieldStatus(fs, j) = "OK"
  <2>1. Len(fs) \in Nat /\ i \in 1 .. Len(fs)
    BY <1>3
  <2>2. j \in 1 .. Len(fs) /\ j < i
    BY <2>1
  <2> QED
    BY <1>3, <2>2
<1> QED
  BY <1>3, <1>4

LEMMA StatusIsComplaint ==
  ASSUME NEW fs \in Seq(Field), NEW i \in 1 .. Len(fs)
  PROVE  /\ FieldStatus(fs, i) # "OK" => FieldStatus(fs, i) \in Complaints(fs)
         /\ FieldStatus(fs, i) = "OK" =>
              /\ fs[i].key.form = "valid"
              /\ fs[i].key.length + 1 <= FieldKeyCapacity
              /\ fs[i].type = "string" =>
                   fs[i].text.length + 1 <= FieldValueCapacity
              /\ fs[i].type \notin {"notFinite", "unknown"}
              /\ \A j \in i + 1 .. Len(fs) : fs[i].key.name # fs[j].key.name
<1>1. fs[i] \in Field /\ fs[i].key \in Key /\ fs[i].text \in Text
  BY DEF Field
<1>2. /\ fs[i].key.length \in Nat /\ fs[i].text.length \in Nat
      /\ fs[i].key.form \in {"valid", "reserved", "malformed"}
  BY <1>1 DEF Key, Text
<1>3. CASE KeyRefused(fs[i].key)
  BY <1>2, <1>3, SizesAssumption DEF KeyRefused, FieldStatus, Complaints
<1>4. CASE KeyRepeated(fs, i)
  <2>1. PICK j \in i + 1 .. Len(fs) : fs[i].key.name = fs[j].key.name
    BY <1>4 DEF KeyRepeated
  <2>2. j \in 1 .. Len(fs) \ {i}
    BY <2>1
  <2>3. FieldStatus(fs, i) = "INVALID_ARGUMENT"
    BY <1>4 DEF FieldStatus
  <2> QED
    BY <2>1, <2>2, <2>3 DEF Complaints
<1>5. CASE ~KeyRefused(fs[i].key) /\ ~KeyRepeated(fs, i)
  BY <1>2, <1>5, SizesAssumption, SMTT(30)
     DEF KeyRefused, KeyRepeated, ValueTooLong, TypeRefused, FieldStatus,
         Complaints
<1> QED
  BY <1>3, <1>4, <1>5

LEMMA RefusedForReason ==
  ASSUME NEW fs \in FieldLists
  PROVE  /\ ~FieldsAccepted(fs) => Refusal(fs) \in Complaints(fs)
         /\ FieldsAccepted(fs) => Complaints(fs) = {}
<1>1. fs \in Seq(Field) /\ Len(fs) \in Nat
  BY InputsAssumption
<1>2. CASE Len(fs) > FieldCapacity
  BY <1>1, <1>2, SizesAssumption DEF Refusal, Complaints, FieldsAccepted
<1>3. CASE Len(fs) <= FieldCapacity /\ ~FieldsAccepted(fs)
  <2>1. PICK n \in 1 .. Len(fs) : FieldStatus(fs, n) # "OK"
    BY <1>3 DEF FieldsAccepted
  <2> DEFINE IsFirst(i) == /\ FieldStatus(fs, i) # "OK"
                           /\ \A j \in 1 .. i - 1 : FieldStatus(fs, j) = "OK"
             first == CHOOSE i \in 1 .. Len(fs) : IsFirst(i)
  <2>2. \E i \in 1 .. Len(fs) : IsFirst(i)
    BY <1>1, <2>1, FirstRefused
  <2>3. first \in 1 .. Len(fs) /\ IsFirst(first)
    BY <2>2
  <2>4. Refusal(fs) = FieldStatus(fs, first)
    BY <1>1, <1>3, SizesAssumption DEF Refusal
  <2> HIDE DEF first
  <2> QED
    BY <1>1, <1>3, <2>3, <2>4, StatusIsComplaint
<1>4. CASE FieldsAccepted(fs)
  <2>1. \A i \in 1 .. Len(fs) : FieldStatus(fs, i) = "OK"
    BY <1>4 DEF FieldsAccepted
  <2>2. ASSUME NEW i \in 1 .. Len(fs), NEW j \in 1 .. Len(fs) \ {i}
        PROVE  fs[i].key.name # fs[j].key.name
    <3>1. i \in j + 1 .. Len(fs) \/ j \in i + 1 .. Len(fs)
      BY <1>1, <2>2
    <3> QED
      BY <1>1, <2>1, <3>1, StatusIsComplaint
  <2>3. \A i \in 1 .. Len(fs) :
          /\ fs[i].key.form = "valid"
          /\ fs[i].key.length \in Nat /\ fs[i].text.length \in Nat
          /\ fs[i].key.length + 1 <= FieldKeyCapacity
          /\ fs[i].type = "string" => fs[i].text.length + 1 <= FieldValueCapacity
          /\ fs[i].type \notin {"notFinite", "unknown"}
    <3> SUFFICES
          ASSUME NEW i \in 1 .. Len(fs)
          PROVE  /\ fs[i].key.form = "valid"
                 /\ fs[i].key.length \in Nat /\ fs[i].text.length \in Nat
                 /\ fs[i].key.length + 1 <= FieldKeyCapacity
                 /\ fs[i].type = "string" =>
                      fs[i].text.length + 1 <= FieldValueCapacity
                 /\ fs[i].type \notin {"notFinite", "unknown"}
      OBVIOUS
    <3>1. fs[i].key \in Key /\ fs[i].text \in Text
      <4>1. fs[i] \in Field
        BY <1>1
      <4> QED
        BY <4>1 DEF Field
    <3>2. fs[i].key.length \in Nat /\ fs[i].text.length \in Nat
      BY <3>1 DEF Key, Text
    <3>3. FieldStatus(fs, i) = "OK"
      BY <2>1
    <3> QED
      BY <1>1, <3>2, <3>3, StatusIsComplaint
  <2>4. ~(Len(fs) > FieldCapacity)
    BY <1>1, <1>4, SizesAssumption DEF FieldsAccepted
  <2>5. "LIMIT_EXCEEDED" \notin Complaints(fs)
    BY <2>3, <2>4, SizesAssumption DEF Complaints
  <2>6. \A i \in 1 .. Len(fs) : ~(fs[i].key.length + 1 > FieldKeyCapacity)
    BY <2>3, SizesAssumption
  <2>7. "INVALID_ARGUMENT" \notin Complaints(fs)
    BY <2>2, <2>3, <2>6 DEF Complaints
  <2>8. Complaints(fs) \subseteq {"INVALID_ARGUMENT", "LIMIT_EXCEEDED"}
    BY DEF Complaints
  <2> QED
    BY <1>4, <2>5, <2>7, <2>8
<1> QED
  BY <1>1, <1>2, <1>3, <1>4, SizesAssumption

\* A call is refused for its fields exactly when they break the contract.
THEOREM AnswersFollowContract == Spec => []AnswerIsContract
<1>0. Complaints(<< >>) = {}
  BY SizesAssumption DEF Complaints
<1>1. Init => AnswerIsContract
  BY <1>0 DEF Init, Nothing, AnswerIsContract
<1>2. AnswerIsContract /\ [Next]_vars => AnswerIsContract'
  <2> SUFFICES ASSUME AnswerIsContract, [Next]_vars PROVE AnswerIsContract'
    OBVIOUS
  <2>1. CASE answer' = answer
    BY <2>1, ZenonT(60) DEF AnswerIsContract, Complaints
  <2>2. CASE answer' = Nothing
    BY <1>0, <2>2 DEF Nothing, AnswerIsContract
  <2>3. ASSUME NEW fs \in FieldLists,
               \/ ~FieldsAccepted(fs)
                    /\ answer' = [fields |-> fs, status |-> Refusal(fs)]
               \/ FieldsAccepted(fs)
                    /\ \/ answer' = [fields |-> fs, status |-> "QUEUE_FULL"]
                       \/ answer' = [fields |-> fs, status |-> "OK"]
        PROVE  AnswerIsContract'
    <3>1. /\ answer'.fields = fs
          /\ IF FieldsAccepted(fs) THEN answer'.status \in {"OK", "QUEUE_FULL"}
             ELSE answer'.status = Refusal(fs)
      BY <2>3
    <3>2. AnswerIsContract' <=>
            IF Complaints(answer'.fields) = {}
            THEN answer'.status \in {"OK", "QUEUE_FULL"}
            ELSE answer'.status \in Complaints(answer'.fields)
      BY DEF AnswerIsContract, Complaints
    <3> QED
      BY <3>1, <3>2, RefusedForReason
  <2> QED
    BY <2>1, <2>2, <2>3 DEF Next, vars, Refuse, QueueFull, Return, Enqueue,
       Dequeue, RenderHeader, RenderField, RenderEnd, FanOut, WorkerMoves,
       Configure, Terminated
<1> QED
  BY <1>1, <1>2, PTL DEF Spec

-------------------------------------------------------------------------------
(* What the sinks are handed.                                              *)

\* Positions of the ring.
LEMMA Wraps ==
  ASSUME NEW b \in Nat, b > 0, NEW a \in 0 .. 2 * b - 1
  PROVE  a % b = IF a < b THEN a ELSE a - b
<1>1. CASE a < b
  BY <1>1
<1>2. CASE a >= b
  <2>1. a = b + (a - b) /\ a - b \in 0 .. b - 1
    BY <1>2
  <2>2. (b + (a - b)) % b = a - b
    BY <2>1
  <2> QED
    BY <1>2, <2>1, <2>2
<1> QED
  BY <1>1, <1>2

Position(k) == (queue_head + k) % BufferCapacity

LEMMA Positions ==
  ASSUME TypeOK
  PROVE  /\ \A k \in 0 .. BufferCapacity - 1 :
              Position(k) \in 0 .. BufferCapacity - 1
         /\ \A k, l \in 0 .. BufferCapacity - 1 :
              Position(k) = Position(l) => k = l
         /\ Position(0) = queue_head
         /\ \A k \in 0 .. BufferCapacity - 1 :
              (((queue_head + 1) % BufferCapacity) + k) % BufferCapacity
                = (queue_head + (k + 1)) % BufferCapacity
<1> DEFINE b == BufferCapacity
<1>1. b \in Nat /\ b > 0 /\ queue_head \in 0 .. b - 1
  BY SizesAssumption DEF TypeOK
<1> HIDE DEF b
<1>2. \A a \in 0 .. 2 * b - 1 : a % b = IF a < b THEN a ELSE a - b
  BY <1>1, Wraps
<1>3. \A k \in 0 .. b - 1 :
        (queue_head + k) % b = IF queue_head + k < b THEN queue_head + k
                               ELSE queue_head + k - b
  <2> TAKE k \in 0 .. b - 1
  <2>1. queue_head + k \in 0 .. 2 * b - 1
    BY <1>1
  <2> QED
    BY <1>1, <2>1, Wraps
<1>4. /\ \A k \in 0 .. b - 1 : (queue_head + k) % b \in 0 .. b - 1
      /\ \A k, l \in 0 .. b - 1 :
           (queue_head + k) % b = (queue_head + l) % b => k = l
      /\ (queue_head + 0) % b = queue_head
  BY <1>1, <1>3
<1>5. ASSUME NEW k \in 0 .. b - 1
      PROVE  (((queue_head + 1) % b) + k) % b = (queue_head + (k + 1)) % b
  <2> DEFINE h == (queue_head + 1) % b
  <2>1. h = IF queue_head + 1 < b THEN queue_head + 1 ELSE 0
    <3>1. queue_head + 1 \in 0 .. 2 * b - 1 /\ queue_head + 1 <= b
      BY <1>1
    <3> QED
      BY <1>1, <1>2, <3>1
  <2> HIDE DEF h
  <2>2. h \in 0 .. b - 1 /\ h + k \in 0 .. 2 * b - 1
    BY <1>1, <2>1
  <2>3. (h + k) % b = IF h + k < b THEN h + k ELSE h + k - b
    BY <1>1, <2>2, Wraps
  <2>4. CASE queue_head + 1 < b
    <3>1. queue_head + (k + 1) \in 0 .. 2 * b - 1 /\ h + k = queue_head + (k + 1)
      BY <1>1, <2>1, <2>4
    <3> QED
      BY <1>2, <3>1 DEF h
  <2>5. CASE ~(queue_head + 1 < b)
    <3>1. queue_head + (k + 1) = b + k /\ b + k \in 0 .. 2 * b - 1 /\ h = 0
      BY <1>1, <2>1, <2>5
    <3>2. (b + k) % b = k /\ k % b = k
      BY <1>1, <1>2, <3>1
    <3> QED
      BY <3>1, <3>2 DEF h
  <2> QED
    BY <2>4, <2>5
<1> QED
  BY <1>4, <1>5 DEF Position, b

Holds(r, call) ==
  /\ r.message = Cut(call.message, MessageCapacity)
  /\ r.context = Cut(call.context, ContextCapacity)
  /\ r.field_count = Len(call.fields)
  /\ \A i \in 1 .. r.field_count : r.fields[i] = call.fields[i]
Recorded(r) ==
  r.sequence_id \in 1 .. Len(accepted) /\ Holds(r, accepted[r.sequence_id])

\* What waits in the ring, and what the worker has, is what was accepted.
HInv ==
  /\ \A k \in 0 .. queue_count - 1 : Recorded(slots[Position(k)])
  /\ wpc # "idle" => Recorded(record)
  /\ \A n \in 1 .. Len(accepted) : FieldsAccepted(accepted[n].fields)

LEMMA StoreRecords ==
  ASSUME IInv, NEW m \in Messages, NEW c \in Contexts, NEW fs \in FieldLists,
         Enqueue(m, c, fs)
  PROVE  /\ \A r : Recorded(r) => Recorded(r)'
         /\ \A slot, r : RecordFits(slot) /\ r = Store(slot, m, c, fs)
                            => Recorded(r)'
         /\ (\A n \in 1 .. Len(accepted) : FieldsAccepted(accepted[n].fields))
              => \A n \in 1 .. Len(accepted') : FieldsAccepted(accepted'[n].fields)
<1> DEFINE call == [message |-> m, context |-> c, fields |-> fs]
<1>1. accepted \in Seq(Call) /\ call \in Call
  BY DEF IInv, Call
<1>2. accepted' = Append(accepted, call) /\ FieldsAccepted(fs)
  BY DEF Enqueue
<1>3. /\ Len(accepted) \in Nat /\ Len(accepted') = Len(accepted) + 1
      /\ \A n \in 1 .. Len(accepted) : accepted'[n] = accepted[n]
      /\ accepted'[Len(accepted) + 1] = call
  BY <1>1, <1>2
<1>4. \A r : Recorded(r) => Recorded(r)'
  BY <1>3 DEF Recorded
<1>5. ASSUME NEW slot, RecordFits(slot), NEW r, r = Store(slot, m, c, fs)
      PROVE  Recorded(r)'
  <2>1. /\ r.sequence_id = Len(accepted) + 1
        /\ r.message = Cut(m, MessageCapacity)
        /\ r.context = Cut(c, ContextCapacity)
        /\ r.field_count = Len(fs)
        /\ r.fields = CopyFields(slot.fields, fs, Len(fs))
    BY <1>5 DEF Store
  <2>2. /\ Len(fs) \in 0 .. FieldCapacity
        /\ \A i \in 1 .. Len(fs) : CopyField(fs[i]) = fs[i]
    BY <1>2, AcceptedFits
  <2>3. \A i \in 1 .. Len(fs) : r.fields[i] = fs[i]
    <3> TAKE i \in 1 .. Len(fs)
    <3>1. i \in 1 .. FieldCapacity /\ i <= Len(fs)
      BY <2>2, SizesAssumption
    <3> QED
      BY <2>1, <2>2, <3>1 DEF CopyFields
  <2>4. Holds(r, call)
    BY <2>1, <2>3 DEF Holds
  <2>5. accepted'[r.sequence_id] = call /\ r.sequence_id \in 1 .. Len(accepted')
    BY <1>3, <2>1
  <2> QED
    BY <2>4, <2>5 DEF Recorded, Holds
<1> QED
  BY <1>2, <1>3, <1>4, <1>5

LEMMA EnqueueRecords ==
  ASSUME IInv, HInv, NEW m \in Messages, NEW c \in Contexts,
         NEW fs \in FieldLists, Enqueue(m, c, fs)
  PROVE  HInv'
<1>1. /\ queue_head' = queue_head /\ queue_count' = queue_count + 1
      /\ wpc' = wpc /\ record' = record /\ queue_count < BufferCapacity
      /\ slots' = [slots EXCEPT ![queue_tail] = Store(@, m, c, fs)]
  BY DEF Enqueue
<1>2. /\ queue_count \in 0 .. BufferCapacity - 1
      /\ queue_tail = Position(queue_count)
  BY <1>1, SizesAssumption DEF IInv, TypeOK, queue_tail, Position
<1>3. ASSUME NEW k \in 0 .. queue_count' - 1
      PROVE  Recorded(slots[Position(k)])'
  <2>1. k \in 0 .. BufferCapacity - 1 /\ (k < queue_count \/ k = queue_count)
    BY <1>1, <1>2, SizesAssumption
  <2>2. Position(k)' = Position(k)
    BY <1>1 DEF Position
  <2>3. Position(k) \in 0 .. BufferCapacity - 1 /\ RecordFits(slots[Position(k)])
    BY <2>1, Positions DEF IInv, TypeOK
  <2>4. CASE k < queue_count
    <3>1. Position(k) # queue_tail
      BY <1>2, <2>1, <2>4, Positions DEF IInv
    <3>2. slots'[Position(k)] = slots[Position(k)]
      BY <1>1, <2>3, <3>1 DEF IInv, TypeOK
    <3>3. Recorded(slots[Position(k)])
      BY <1>2, <2>1, <2>4 DEF HInv
    <3>4. \A r : Recorded(r) => Recorded(r)'
      BY StoreRecords
    <3>5. \A r : r = slots'[Position(k)] => Recorded(r)'
      BY <3>2, <3>3, <3>4
    <3> QED
      BY <2>2, <3>5 DEF Recorded, Holds
  <2>5. CASE k = queue_count
    <3>1. slots'[Position(k)] = Store(slots[Position(k)], m, c, fs)
      BY <1>1, <1>2, <2>3, <2>5 DEF IInv, TypeOK
    <3>2. \A slot, r : RecordFits(slot) /\ r = Store(slot, m, c, fs)
                         => Recorded(r)'
      BY StoreRecords
    <3>3. \A r : r = Store(slots[Position(k)], m, c, fs) => Recorded(r)'
      BY <2>3, <3>2
    <3>4. \A r : r = slots'[Position(k)] => Recorded(r)'
      BY <3>1, <3>3
    <3> QED
      BY <2>2, <3>4 DEF Recorded, Holds
  <2> QED
    BY <2>1, <2>4, <2>5
<1>4. wpc' # "idle" => Recorded(record)'
  <2>1. \A r : Recorded(r) => Recorded(r)'
    BY StoreRecords
  <2> QED
    BY <1>1, <2>1 DEF HInv, Recorded, Holds
<1>5. \A n \in 1 .. Len(accepted') : FieldsAccepted(accepted'[n].fields)
  BY StoreRecords, SMTT(30) DEF HInv
<1> QED
  BY <1>3, <1>4, <1>5 DEF HInv

LEMMA DequeueRecords ==
  ASSUME IInv, HInv, Dequeue PROVE HInv'
<1> DEFINE slot == slots[queue_head]
<1>1. /\ queue_count > 0 /\ queue_count' = queue_count - 1
      /\ queue_head' = (queue_head + 1) % BufferCapacity
      /\ slots' = slots /\ accepted' = accepted
      /\ record' = [sequence_id |-> slot.sequence_id, message |-> slot.message,
                    context |-> slot.context, field_count |-> slot.field_count,
                    fields |-> CopyFields(record.fields, slot.fields,
                                          slot.field_count)]
  BY DEF Dequeue, WorkerMoves
<1>2. queue_count \in Nat /\ queue_count <= BufferCapacity
  BY SizesAssumption DEF IInv, TypeOK
<1>3. Recorded(slot) /\ RecordFits(slot)
  <2>1. 0 \in 0 .. queue_count - 1 /\ Position(0) = queue_head
    BY <1>1, <1>2, Positions DEF IInv
  <2>2. Recorded(slots[Position(0)])
    BY <2>1 DEF HInv
  <2>3. RecordFits(slots[queue_head])
    BY DEF IInv, TypeOK
  <2> QED
    BY <2>1, <2>2, <2>3
<1>4. Recorded(record')
  <2>1. slot.field_count \in 0 .. FieldCapacity
    BY <1>3 DEF RecordFits
  <2>2. \A i \in 1 .. slot.field_count : record'.fields[i] = slot.fields[i]
    <3> TAKE i \in 1 .. slot.field_count
    <3>1. i \in 1 .. FieldCapacity /\ i <= slot.field_count
      BY <2>1, SizesAssumption
    <3>2. FieldFits(slot.fields[i])
      BY <1>3, <3>1 DEF RecordFits
    <3>3. CopyField(slot.fields[i]) = slot.fields[i]
      BY <3>2, CopyFits DEF FieldFits
    <3>4. record'.fields = CopyFields(record.fields, slot.fields,
                                      slot.field_count)
      BY <1>1
    <3> HIDE DEF slot
    <3> QED
      BY <3>1, <3>3, <3>4 DEF CopyFields
  <2>3. /\ record'.sequence_id = slot.sequence_id
        /\ record'.message = slot.message /\ record'.context = slot.context
        /\ record'.field_count = slot.field_count
    BY <1>1
  <2> HIDE DEF slot
  <2> QED
    BY <1>3, <2>2, <2>3 DEF Recorded, Holds
<1>5. ASSUME NEW k \in 0 .. queue_count' - 1
      PROVE  Recorded(slots[Position(k)])'
  <2>1. /\ k \in 0 .. BufferCapacity - 1 /\ k + 1 \in 0 .. queue_count - 1
    BY <1>1, <1>2, SizesAssumption
  <2>2. Position(k)' = Position(k + 1)
    BY <1>1, <2>1, Positions DEF Position, IInv
  <2>3. Recorded(slots[Position(k + 1)])
    BY <2>1 DEF HInv
  <2> QED
    BY <1>1, <2>2, <2>3 DEF Recorded, Holds
<1> QED
  BY <1>1, <1>4, <1>5 DEF HInv, Recorded, Holds

LEMMA HandedInductive == IInv /\ HInv /\ [Next]_vars => HInv'
<1> SUFFICES ASSUME IInv, HInv, [Next]_vars PROVE HInv'
  OBVIOUS
<1>1. CASE /\ UNCHANGED <<slots, queue_head, queue_count, record, accepted>>
           /\ wpc = "idle" => wpc' = "idle"
  BY <1>1 DEF HInv, Recorded, Holds, Position
<1> QED
  BY <1>1, EnqueueRecords, DequeueRecords
     DEF Next, vars, Refuse, QueueFull, Return, RenderHeader, RenderField,
         RenderEnd, FanOut, WorkerMoves, Configure, Terminated

LEMMA Recordings == Spec => [](IInv /\ HInv)
<1>1. Init => HInv
  BY DEF Init, HInv
<1> QED
  BY <1>1, Initially, Typed, HandedInductive, PTL DEF Spec

\* What the sinks are handed is what the caller passed, whatever the slot and
\* the scratch buffers held before.
THEOREM HandedWhole == Spec => []HandedAsAccepted
<1>1. IInv /\ HInv => HandedAsAccepted
  BY DEF HInv, Recorded, Holds, HandedAsAccepted
<1> QED
  BY <1>1, Recordings, PTL

\* Validation is what keeps the keys of a line distinct.
THEOREM KeysStayDistinct == Spec => []KeysDistinct
<1>1. ASSUME IInv, HInv, wpc # "idle"
      PROVE  \A i, j \in 1 .. record.field_count :
               /\ record.fields[i].key.form = "valid"
               /\ record.fields[i].key.name = record.fields[j].key.name => i = j
  <2> DEFINE fs == accepted[record.sequence_id].fields
  <2>1. /\ record.field_count = Len(fs)
        /\ \A i \in 1 .. record.field_count : record.fields[i] = fs[i]
        /\ FieldsAccepted(fs)
    BY <1>1 DEF HInv, Recorded, Holds
  <2>2. fs \in Seq(Field)
    <3>1. accepted \in Seq(Call) /\ record.sequence_id \in 1 .. Len(accepted)
      BY <1>1 DEF HInv, Recorded, IInv
    <3>2. accepted[record.sequence_id] \in Call
      BY <3>1
    <3>3. fs \in FieldLists
      BY <3>2 DEF Call
    <3> QED
      BY <3>3, InputsAssumption
  <2> HIDE DEF fs
  <2>3. \A i \in 1 .. Len(fs) :
          /\ fs[i].key.form = "valid"
          /\ \A j \in i + 1 .. Len(fs) : fs[i].key.name # fs[j].key.name
    BY <2>1, <2>2, StatusIsComplaint DEF FieldsAccepted
  <2>4. ASSUME NEW i \in 1 .. Len(fs), NEW j \in 1 .. Len(fs),
               fs[i].key.name = fs[j].key.name
        PROVE  i = j
    <3>1. Len(fs) \in Nat
      BY <2>2
    <3>2. j \notin i + 1 .. Len(fs) /\ i \notin j + 1 .. Len(fs)
      BY <2>3, <2>4
    <3> QED
      BY <3>1, <3>2
  <2> QED
    BY <2>1, <2>3, <2>4
<1>2. IInv /\ HInv => KeysDistinct
  BY <1>1 DEF KeysDistinct
<1> QED
  BY <1>2, Recordings, PTL
===============================================================================
