------------------------------ MODULE RecordPath ------------------------------
(***************************************************************************)
(* The way of a record's data: mp_logger_log_fields validates it, copies   *)
(* it into storage of a fixed size that every record after it uses again,  *)
(* the worker copies it into its own scratch buffers and renders it into a *)
(* buffer whose size create computed (src/src/mp_logger.c:63-249, 749-759, *)
(* 839-889; src/src/mp_logger_streams.c:61-250, 540-570, 615-772).         *)
(*                                                                         *)
(* A text is its length and what escaping makes of its characters; within  *)
(* one text they are alike.  queue_mutex makes a whole copy one step;      *)
(* rendering, under stream_mutex, is one step per field, and configure     *)
(* comes before it or after the sinks.  Calls are taken one at a time:     *)
(* validation reads nothing that another call changes.                     *)
(***************************************************************************)
EXTENDS Integers, Sequences

CONSTANTS
  BufferCapacity, MessageCapacity, ContextCapacity,   \* of the configuration:
  FieldCapacity, FieldKeyCapacity, FieldValueCapacity, \* fixed at create
  Messages, Contexts,  \* texts that are logged; no context is an empty one
  FieldLists,          \* sequences of fields that are logged
  Configs,             \* what configure may change
  MaxRecords           \* bound: records admitted

\* Printable characters stay, quotes, backslashes and \n, \r, \t become two;
\* the other control characters become six in JSON and a question mark in text.
Classes == {"plain", "short", "control"}
Text == [length : Nat, class : Classes]
Empty == [length |-> 0, class |-> "plain"]

\* All a key's validity depends on; a number stands for its characters.
Key == [name : Nat, form : {"valid", "reserved", "malformed"}, length : Nat]

\* A bool, an integer and a finite float64 are numbers: text of one form.  A
\* string that is NULL is an empty one.  No other type has a text.
NumberText == 24   \* "%.17g" of the longest float64
Types == {"string", "number", "notFinite", "unknown"}
Field == {f \in [key : Key, type : Types, text : Text] :
            f.type # "string" => f.text.class = "plain"
                                 /\ f.text.length <= NumberText}

NameLength == 63   \* MP_LOGGER_NAME_CAPACITY - 1
Name == {t \in Text : t.length <= NameLength}
Config == [format : {"JSON", "TEXT"}, pretty_output : BOOLEAN,
           service_name : Name, environment_name : Name]

\* mp_logger_validate_config.
ASSUME SizesAssumption ==
  /\ BufferCapacity \in Nat /\ BufferCapacity > 0
  /\ MessageCapacity \in Nat /\ MessageCapacity > 1
  /\ ContextCapacity \in Nat /\ ContextCapacity > 1
  /\ FieldCapacity \in Nat /\ FieldCapacity > 0
  /\ FieldKeyCapacity \in Nat /\ FieldKeyCapacity > 1
  /\ FieldValueCapacity \in Nat /\ FieldValueCapacity > 1

ASSUME InputsAssumption ==
  /\ Messages \subseteq Text /\ Contexts \subseteq Text
  /\ \A fs \in FieldLists : fs \in Seq(Field)
  /\ Configs \subseteq Config
  /\ MaxRecords \in Nat

VARIABLES
  slots, queue_head, queue_count,  \* the ring; its tail follows from them
  record,       \* the worker's scratch buffers
  config,
  wpc,          \* where the worker is
  rindex, used, \* the renderer's loop; the logical length of the line
  answer,       \* fields and status of the call that is about to return
  accepted      \* history: the arguments of the calls that were admitted

vars == <<slots, queue_head, queue_count, record, config, wpc, rindex, used,
          answer, accepted>>
ring == <<slots, queue_head, queue_count>>
line == <<rindex, used>>

\* Wrong: the room for the context is forgotten.
RenderCapacityShort ==
  MessageCapacity
  + FieldCapacity * (FieldKeyCapacity + FieldValueCapacity + 64) + 384

\* logger->render_capacity, with MP_LOGGER_NUMBER_TEXT_CAPACITY for each field
\* and MP_LOGGER_RENDER_PADDING.
RenderCapacity ==
  MessageCapacity + ContextCapacity
  + FieldCapacity * (FieldKeyCapacity + FieldValueCapacity + 64) + 384

EmptyField ==
  [key |-> [name |-> 0, form |-> "valid", length |-> 0], type |-> "string",
   text |-> Empty]
EmptyRecord ==
  [sequence_id |-> 0, message |-> Empty, context |-> Empty, field_count |-> 0,
   fields |-> [i \in 1 .. FieldCapacity |-> EmptyField]]

Nothing == [fields |-> << >>, status |-> "OK"]

Init ==
  /\ slots = [i \in 0 .. BufferCapacity - 1 |-> EmptyRecord]
  /\ queue_head = 0 /\ queue_count = 0
  /\ record = EmptyRecord
  /\ config \in Configs
  /\ wpc = "idle" /\ rindex = 0 /\ used = 0
  /\ answer = Nothing
  /\ accepted = << >>

-------------------------------------------------------------------------------
(* mp_logger_validate_fields.                                              *)

KeyRefused(key) == key.form # "valid" \/ key.length >= FieldKeyCapacity

KeyRepeated(fields, i) ==
  \E j \in i + 1 .. Len(fields) : fields[i].key.name = fields[j].key.name

\* Wrong: the terminator is not counted.
ValueTooLongOffByOne(f) ==
  f.type = "string" /\ f.text.length > FieldValueCapacity

ValueTooLong(f) == f.type = "string" /\ f.text.length >= FieldValueCapacity

TypeRefused(f) == f.type \in {"notFinite", "unknown"}

FieldStatus(fields, i) ==
  IF KeyRefused(fields[i].key) \/ KeyRepeated(fields, i)
  THEN "INVALID_ARGUMENT"
  ELSE IF ValueTooLong(fields[i]) THEN "LIMIT_EXCEEDED"
  ELSE IF TypeRefused(fields[i]) THEN "INVALID_ARGUMENT" ELSE "OK"

FieldsAccepted(fields) ==
  /\ Len(fields) <= FieldCapacity
  /\ \A i \in 1 .. Len(fields) : FieldStatus(fields, i) = "OK"

\* The first field that is refused decides.
Refusal(fields) ==
  IF Len(fields) > FieldCapacity THEN "LIMIT_EXCEEDED"
  ELSE LET first == CHOOSE i \in 1 .. Len(fields) :
             /\ FieldStatus(fields, i) # "OK"
             /\ \A j \in 1 .. i - 1 : FieldStatus(fields, j) = "OK"
       IN FieldStatus(fields, first)

-------------------------------------------------------------------------------
(* Producers.  What the lock's state makes of a call is MpLogger's matter. *)

\* Wrong: no room is left for the terminator.
CutOffByOne(text, capacity) ==
  [length |-> IF text.length > capacity THEN capacity ELSE text.length,
   class |-> text.class]

\* mp_logger_copy_truncated.
Cut(text, capacity) ==
  [length |-> IF text.length >= capacity THEN capacity - 1 ELSE text.length,
   class |-> text.class]
CutKey(key) ==
  [name |-> key.name, form |-> key.form,
   length |-> IF key.length >= FieldKeyCapacity THEN FieldKeyCapacity - 1
              ELSE key.length]

CopyField(f) ==
  [key |-> CutKey(f.key), type |-> f.type,
   text |-> IF f.type = "string" THEN Cut(f.text, FieldValueCapacity)
            ELSE f.text]

\* The first n entries are overwritten; those behind keep what they had.
CopyFields(to, from, n) ==
  [i \in 1 .. FieldCapacity |-> IF i <= n THEN CopyField(from[i]) ELSE to[i]]

queue_tail == (queue_head + queue_count) % BufferCapacity

Refuse(fields) ==
  /\ answer = Nothing
  /\ ~FieldsAccepted(fields)
  /\ answer' = [fields |-> fields, status |-> Refusal(fields)]
  /\ UNCHANGED <<ring, record, config, wpc, line, accepted>>

QueueFull(fields) ==
  /\ answer = Nothing
  /\ FieldsAccepted(fields)
  /\ queue_count >= BufferCapacity
  /\ answer' = [fields |-> fields, status |-> "QUEUE_FULL"]
  /\ UNCHANGED <<ring, record, config, wpc, line, accepted>>

\* The caller has its status.
Return ==
  /\ answer # Nothing
  /\ answer' = Nothing
  /\ UNCHANGED <<ring, record, config, wpc, line, accepted>>

\* Wrong: the count of fields is stored with the first of them only.
StoreKeepsCount(slot, message, context, fields) ==
  [sequence_id |-> Len(accepted) + 1,
   message |-> Cut(message, MessageCapacity),
   context |-> Cut(context, ContextCapacity),
   field_count |-> IF fields = << >> THEN slot.field_count ELSE Len(fields),
   fields |-> CopyFields(slot.fields, fields, Len(fields))]

\* What the slot then holds; mp_logger_log comes with no fields.
Store(slot, message, context, fields) ==
  [sequence_id |-> Len(accepted) + 1,
   message |-> Cut(message, MessageCapacity),
   context |-> Cut(context, ContextCapacity),
   field_count |-> Len(fields),
   fields |-> CopyFields(slot.fields, fields, Len(fields))]

Enqueue(message, context, fields) ==
  /\ answer = Nothing
  /\ FieldsAccepted(fields)
  /\ queue_count < BufferCapacity
  /\ Len(accepted) < MaxRecords
  /\ slots' = [slots EXCEPT ![queue_tail] = Store(@, message, context, fields)]
  /\ queue_count' = queue_count + 1
  /\ answer' = [fields |-> fields, status |-> "OK"]
  /\ accepted' = Append(accepted, [message |-> message, context |-> context,
                                   fields |-> fields])
  /\ UNCHANGED <<queue_head, record, config, wpc, line>>

-------------------------------------------------------------------------------
(* The worker: mp_logger_copy_record_from_slot and mp_logger_render_record. *)

WorkerMoves(from, to) ==
  /\ wpc = from /\ wpc' = to
  /\ UNCHANGED <<config, answer, accepted>>

Dequeue ==
  LET slot == slots[queue_head] IN
  /\ queue_count > 0
  /\ WorkerMoves("idle", "record")
  /\ record' = [sequence_id |-> slot.sequence_id, message |-> slot.message,
                context |-> slot.context, field_count |-> slot.field_count,
                fields |-> CopyFields(record.fields, slot.fields,
                                      slot.field_count)]
  /\ queue_head' = (queue_head + 1) % BufferCapacity
  /\ queue_count' = queue_count - 1
  /\ UNCHANGED <<slots, line>>

\* The characters an escaped text takes, class by class.
Escaped(t) ==
  IF t.class = "plain" THEN t.length
  ELSE IF t.class = "short" THEN 2 * t.length
  ELSE IF config.format = "JSON" THEN 6 * t.length ELSE t.length

\* The longest forms: a timestamp fills its buffer of 32, a level is "WARNING"
\* or "UNKNOWN", a sequence number has the digits of 2^64 - 1.
TimestampText == 31
LevelText == 7
SequenceText == 20

\* ", " and ": ", or without the space.
Mark == IF config.pretty_output THEN 2 ELSE 1

\* A key of k characters and its value in quotes, and what separates them from
\* what is before.
JsonPair(k, value) == Mark + 2 + k + Mark + 2 + value
TextPair(k, value) == 1 + k + 3 + value

ContextPair ==
  IF record.context.length = 0 THEN 0
  ELSE IF config.format = "JSON" THEN JsonPair(7, Escaped(record.context))
  ELSE TextPair(7, Escaped(record.context))

\* Keys ts, level, service, environment, sequence_id, message and context; the
\* first has no separator, but an opening brace.
JsonHeader ==
  1 + (JsonPair(2, TimestampText) - Mark) + JsonPair(5, LevelText)
  + JsonPair(7, Escaped(config.service_name))
  + JsonPair(11, Escaped(config.environment_name))
  + JsonPair(11, SequenceText) + JsonPair(7, Escaped(record.message))

\* The timestamp has no key and the level no quotes.
TextHeader ==
  TimestampText + (TextPair(5, LevelText) - 2)
  + TextPair(7, Escaped(config.service_name))
  + TextPair(11, Escaped(config.environment_name))
  + TextPair(11, SequenceText) + TextPair(7, Escaped(record.message))

RenderHeader ==
  /\ WorkerMoves("record", "fields")
  /\ rindex' = 0
  /\ used' = (IF config.format = "JSON" THEN JsonHeader ELSE TextHeader)
             + ContextPair
  /\ UNCHANGED <<ring, record>>

\* Only strings are quoted and escaped; a key needs no escaping.
FieldValue(f) ==
  IF f.type = "string" THEN 2 + Escaped(f.text) ELSE f.text.length
FieldWidth(f) ==
  IF config.format = "JSON"
  THEN Mark + 2 + f.key.length + Mark + FieldValue(f)
  ELSE 2 + f.key.length + FieldValue(f)

RenderField ==
  /\ rindex < record.field_count
  /\ WorkerMoves("fields", "fields")
  /\ rindex' = rindex + 1
  /\ used' = used + FieldWidth(record.fields[rindex + 1])
  /\ UNCHANGED <<ring, record>>

RenderEnd ==
  /\ rindex = record.field_count
  /\ WorkerMoves("fields", "rendered")
  /\ used' = used + (IF config.format = "JSON" THEN 1 ELSE 0)
  /\ UNCHANGED <<ring, record, rindex>>

\* Every sink has had the record and the line; the buffers stay as they are.
FanOut ==
  /\ WorkerMoves("rendered", "idle")
  /\ rindex' = 0 /\ used' = 0
  /\ UNCHANGED <<ring, record>>

\* mp_logger_configure with a configuration of the same sizes, between two
\* holders of stream_mutex.
Configure(new) ==
  /\ wpc \in {"idle", "record"}
  /\ config' = new
  /\ UNCHANGED <<ring, record, wpc, line, answer, accepted>>

\* All records that may be admitted have been, and are out.
Terminated ==
  /\ Len(accepted) = MaxRecords /\ queue_count = 0 /\ wpc = "idle"
  /\ UNCHANGED vars

Next ==
  \/ \E fs \in FieldLists :
       \/ Refuse(fs) \/ QueueFull(fs)
       \/ \E m \in Messages, c \in Contexts : Enqueue(m, c, fs)
  \/ Return
  \/ Dequeue \/ RenderHeader \/ RenderField \/ RenderEnd \/ FanOut
  \/ \E new \in Configs : Configure(new)
  \/ Terminated

Spec == Init /\ [][Next]_vars

-------------------------------------------------------------------------------
(* Properties.                                                             *)

\* What fits the storage of one slot, terminators included.
Fits(text, capacity) == text \in Text /\ text.length < capacity
FieldFits(f) ==
  /\ f \in Field
  /\ f.key.length < FieldKeyCapacity
  /\ f.type = "string" => f.text.length < FieldValueCapacity
RecordFits(r) ==
  /\ r.sequence_id \in Nat
  /\ Fits(r.message, MessageCapacity) /\ Fits(r.context, ContextCapacity)
  /\ r.field_count \in 0 .. FieldCapacity
  /\ DOMAIN r.fields = 1 .. FieldCapacity
  /\ \A i \in 1 .. FieldCapacity : FieldFits(r.fields[i])

\* No copy runs over the storage it is made into, whatever was logged before.
TypeOK ==
  /\ DOMAIN slots = 0 .. BufferCapacity - 1
  /\ \A i \in 0 .. BufferCapacity - 1 : RecordFits(slots[i])
  /\ queue_head \in 0 .. BufferCapacity - 1
  /\ queue_count \in 0 .. BufferCapacity
  /\ RecordFits(record)
  /\ config \in Configs
  /\ wpc \in {"idle", "record", "fields", "rendered"}
  /\ rindex \in Nat /\ used \in Nat

\* What a sink is handed is what the caller passed, with only the message and
\* the context cut: every field whole and in its place, and no field of an
\* earlier record that used the same slot or the same scratch buffers
\* (README.md:127-129).
HandedAsAccepted ==
  wpc # "idle" =>
    LET call == accepted[record.sequence_id] IN
    /\ record.message = Cut(call.message, MessageCapacity)
    /\ record.context = Cut(call.context, ContextCapacity)
    /\ record.field_count = Len(call.fields)
    /\ \A i \in 1 .. record.field_count : record.fields[i] = call.fields[i]

\* README.md:126-128 and include/mp_logger.h:244: what is wrong with the fields
\* of a call, in any order.
Complaints(fields) ==
  {s \in {"INVALID_ARGUMENT", "LIMIT_EXCEEDED"} :
     \/ /\ s = "LIMIT_EXCEEDED"
        /\ \/ Len(fields) > FieldCapacity
           \/ \E i \in 1 .. Len(fields) :
                fields[i].type = "string"
                  /\ fields[i].text.length + 1 > FieldValueCapacity
     \/ /\ s = "INVALID_ARGUMENT"
        /\ \E i \in 1 .. Len(fields) :
             \/ fields[i].key.form \in {"reserved", "malformed"}
             \/ fields[i].key.length + 1 > FieldKeyCapacity
             \/ fields[i].type \in {"notFinite", "unknown"}
             \/ \E j \in 1 .. Len(fields) \ {i} :
                  fields[i].key.name = fields[j].key.name}

\* A call is refused for its fields exactly when something is wrong with them,
\* with the status of a thing that is.
AnswerIsContract ==
  IF Complaints(answer.fields) = {} THEN answer.status \in {"OK", "QUEUE_FULL"}
  ELSE answer.status \in Complaints(answer.fields)

\* The keys of a rendered line are all different, those the renderer adds
\* included, so that no reader of the JSON object loses a value
\* (mp_logger.c:41).
KeysDistinct ==
  wpc # "idle" =>
    \A i, j \in 1 .. record.field_count :
      /\ record.fields[i].key.form = "valid"
      /\ record.fields[i].key.name = record.fields[j].key.name => i = j

Plain ==
  /\ config.service_name.class = "plain"
  /\ config.environment_name.class = "plain"
  /\ record.message.class = "plain" /\ record.context.class = "plain"
  /\ \A i \in 1 .. record.field_count : record.fields[i].text.class = "plain"

\* The line is cut when its end does not fit before the terminator.
Whole == used < RenderCapacity

\* A record with nothing to escape is never cut, however many fields it has,
\* and under whichever configuration it is rendered: render_capacity counts
\* everything that rendering adds (mp_logger.c:753-759).
PlainIsWhole == wpc = "rendered" /\ Plain => Whole

(* Where the documentation says more than the code does.                   *)

\* README.md:130: JSON output escapes control characters so structured fields
\* cannot break the output shape.  Escaping lengthens the record, and the line
\* loses its closing brace.
ShapeKept == wpc = "rendered" /\ config.format = "JSON" => Whole
===============================================================================
