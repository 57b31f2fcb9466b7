----------------------------- MODULE MsgSchema -----------------------------
(***************************************************************************)
(* Messages of src/msg-schema.c and the accessors that bin/bor-msg-schema  *)
(* writes for them.  A schema is a sequence of fields [kind, default,      *)
(* schema]; a message is [hdr, f]: the fields its header marks, and what   *)
(* each field holds.  An array is [slots, size]: the slots are what is     *)
(* allocated.  A number of type double is <<sign, n, k>> for n * 2^k.  The *)
(* buffer holds what was written, with its length in bytes.                *)
(***************************************************************************)
EXTENDS Integers, Sequences, FiniteSets, SequencesExt

CONSTANTS
  Schema,        \* the top schema
  Values(_),     \* what a field of a kind is set to
  MaxSize,       \* bound on the elements of an array
  ExpBits, SigBits,
  None

VARIABLES store, result

vars == <<store, result>>

Scalars == {"int", "float", "double"}

-----------------------------------------------------------------------------
(* Floating point.                                                         *)

\* The exponent of the leading digit.
RECURSIVE Log2(_)
Log2(n) == IF n < 2 THEN 0 ELSE 1 + Log2(n \div 2)

Bias == 2^(ExpBits - 1) - 1
Modulus == 2^(ExpBits + SigBits + 1)

\* pack754: of a number that is not zero, with what the shifts keep of it.
pack754(d) ==
  IF d[2] = 0 THEN 0
  ELSE LET shift == d[3] + Log2(d[2])
           significand == (d[2] * 2^SigBits) \div 2^Log2(d[2]) - 2^SigBits
       IN (d[1] * 2^(ExpBits + SigBits) + (shift + Bias) * 2^SigBits + significand) % Modulus

\* unpack754: the number with an odd n, as equal numbers are equal here.
RECURSIVE Odd(_, _, _)
Odd(s, n, k) == IF n % 2 = 1 THEN <<s, n, k>> ELSE Odd(s, n \div 2, k + 1)
Zero == <<0, 0, 0>>
unpack754(i) ==
  IF i = 0 THEN Zero
  ELSE Odd(i \div 2^(ExpBits + SigBits), 2^SigBits + (i % 2^SigBits),
           ((i \div 2^SigBits) % 2^ExpBits) - Bias - SigBits)

-----------------------------------------------------------------------------
(* Buffers.                                                                *)

SizeOf(kind) == IF kind = "int" THEN 4 ELSE 8

\* W: room is doubled, and then made for what does not fit either.
W(b, v, size) ==
  LET doubled == 2 * b.size
  IN [buf |-> Append(b.buf, v), w |-> b.w + size,
      size |-> CASE b.w + size <= b.size -> b.size
                 [] doubled - b.w >= size -> doubled
                 [] OTHER -> doubled + size]

WField(b, v, kind) == W(b, IF kind = "int" THEN v ELSE pack754(v), SizeOf(kind))
RField(v, kind) == IF kind = "int" THEN v ELSE unpack754(v)

-----------------------------------------------------------------------------
(* Messages.                                                               *)

Held(arr) == SubSeq(arr.slots, 1, arr.size)
EmptyArr == [slots |-> <<>>, size |-> 0]

\* schema->default_msg, as Msg.cDefaultVal writes it; borMsgInit copies it.
RECURSIVE Default(_)
Default(schema) ==
  [hdr |-> {},
   f |-> [i \in DOMAIN schema |->
            CASE schema[i].kind \in Scalars -> schema[i].default
              [] schema[i].kind = "msg" -> Default(schema[i].schema)
              [] OTHER -> EmptyArr] \o <<>>]

\* cmpFieldDefault: a float is taken for eight bytes, so the field behind it counts.
DiffersFromDefault(msg, schema, i) ==
  \/ msg.f[i] # schema[i].default
  \/ schema[i].kind = "float" /\ i < Len(schema) /\ schema[i + 1].kind = "int"
       /\ msg.f[i + 1] # schema[i + 1].default

\* A bug the checks must find: an array of one element does not count as changed.
RECURSIVE SetHeaderShort(_, _)
SetHeaderShort(msg, schema) ==
  LET part(i) ==
        CASE schema[i].kind \in Scalars -> msg.f[i]
          [] schema[i].kind = "msg" -> SetHeaderShort(msg.f[i], schema[i].schema)
          [] OTHER -> msg.f[i]
      f == [i \in DOMAIN schema |-> part(i)] \o <<>>
      changed(i) ==
        CASE schema[i].kind \in Scalars -> DiffersFromDefault(msg, schema, i)
          [] schema[i].kind = "msg" -> f[i].hdr # {}
          [] OTHER -> msg.f[i].size > 1
  IN [hdr |-> {i \in DOMAIN schema : changed(i)}, f |-> f]

\* borMsgSetHeader.
RECURSIVE SetHeader(_, _)
SetHeader(msg, schema) ==
  LET part(i) ==
        CASE schema[i].kind = "msg" -> SetHeader(msg.f[i], schema[i].schema)
          [] schema[i].kind = "msgarr" ->
               [msg.f[i] EXCEPT !.slots =
                  [n \in DOMAIN @ |-> IF n <= msg.f[i].size THEN SetHeader(@[n], schema[i].schema) ELSE @[n]] \o <<>>]
          [] OTHER -> msg.f[i]
      f == [i \in DOMAIN schema |-> part(i)] \o <<>>
      changed(i) ==
        CASE schema[i].kind \in Scalars -> DiffersFromDefault(msg, schema, i)
          [] schema[i].kind = "msg" -> f[i].hdr # {}
          [] OTHER -> msg.f[i].size > 0
  IN [hdr |-> {i \in DOMAIN schema : changed(i)}, f |-> f]

\* Arrays begin with their length; a message in an array is decoded into a new one.
WArr(b, arr) == FoldLeft(LAMBDA c, v : WField(c, v, "double"), W(b, arr.size, 4), Held(arr))
RArr(buf) ==
  LET n == Head(buf)
  IN [buf |-> SubSeq(buf, n + 2, Len(buf)), els |-> [k \in 1 .. n |-> RField(buf[k + 1], "double")] \o <<>>]

RECURSIVE Encode(_, _, _)
WMsgArr(b, arr, schema) == FoldLeft(LAMBDA c, m : Encode(c, m, schema), W(b, arr.size, 4), Held(arr))
Encode(b, msg, schema) ==
  LET write(c, i) ==
        CASE i \notin msg.hdr -> c
          [] schema[i].kind \in Scalars -> WField(c, msg.f[i], schema[i].kind)
          [] schema[i].kind = "msg" -> Encode(c, msg.f[i], schema[i].schema)
          [] schema[i].kind = "msgarr" -> WMsgArr(c, msg.f[i], schema[i].schema)
          [] OTHER -> WArr(c, msg.f[i])
  IN FoldLeft(write, W(b, msg.hdr, 4), [i \in DOMAIN schema |-> i])

\* decode into msg, as [buf, msg]: what is left to read and what was read.
RECURSIVE Decode(_, _, _)
RMsgArr(buf, schema) ==
  FoldLeft(LAMBDA a, k : LET d == Decode(a.buf, Default(schema), schema)
                         IN [buf |-> d.buf, els |-> Append(a.els, d.msg)],
           [buf |-> Tail(buf), els |-> <<>>], [k \in 1 .. Head(buf) |-> k])
Decode(buf, msg, schema) ==
  LET hdr == Head(buf)
      put(r, i, rest, v) == [buf |-> rest, msg |-> [r.msg EXCEPT !.f[i] = v]]
      putArr(r, i, a) == put(r, i, a.buf, [slots |-> a.els, size |-> Len(a.els)])
      read(r, i) ==
        CASE i \notin hdr -> r
          [] schema[i].kind \in Scalars -> put(r, i, Tail(r.buf), RField(Head(r.buf), schema[i].kind))
          [] schema[i].kind = "msg" ->
               LET d == Decode(r.buf, r.msg.f[i], schema[i].schema) IN put(r, i, d.buf, d.msg)
          [] schema[i].kind = "msgarr" -> putArr(r, i, RMsgArr(r.buf, schema[i].schema))
          [] OTHER -> putArr(r, i, RArr(r.buf))
  IN FoldLeft(read, [buf |-> Tail(buf), msg |-> [msg EXCEPT !.hdr = hdr]], [i \in DOMAIN schema |-> i])

borMsgEncode(msg, b) == Encode([buf |-> <<>>, w |-> 0, size |-> b], msg, Schema)
borMsgDecode(buf) == Decode(buf, Default(Schema), Schema)

-----------------------------------------------------------------------------
(* Generated accessors.                                                    *)

\* Add: where the array is full its room doubles, with slots that hold fill.
Grown(arr, fill) ==
  IF arr.size < Len(arr.slots) THEN arr
  ELSE LET room == 2 * (IF arr.slots = <<>> THEN 1 ELSE Len(arr.slots))
       IN [arr EXCEPT !.slots = @ \o [k \in 1 .. room - Len(@) |-> fill]]

\* Reserve: the new slots hold anything.
Reserved(arr, size, junk) ==
  IF Len(arr.slots) >= size THEN arr
  ELSE [arr EXCEPT !.slots = @ \o [k \in 1 .. size - Len(@) |-> junk]]

\* The elements behind idx move down; the slot they leave keeps a copy of the last.
MovedDown(arr, idx) ==
  [slots |-> [k \in DOMAIN arr.slots |->
                IF k >= idx /\ k < arr.size THEN arr.slots[k + 1] ELSE arr.slots[k]] \o <<>>,
   size |-> arr.size - 1]

Init == store = Default(Schema) /\ result = None

Put(i, v) == store' = [hdr |-> store.hdr \cup {i}, f |-> [store.f EXCEPT ![i] = v]]
Quiet == result' = None

SetVal ==
  \E i \in DOMAIN Schema :
    /\ Schema[i].kind \in Scalars
    /\ \E v \in Values(Schema[i].kind) : Put(i, v)
    /\ Quiet

Unset ==
  /\ \E i \in DOMAIN Schema : i \in store.hdr /\ store' = [store EXCEPT !.hdr = @ \ {i}]
  /\ Quiet

AddVal ==
  \E i \in DOMAIN Schema :
    /\ Schema[i].kind = "doublearr" /\ store.f[i].size < MaxSize
    /\ \E v \in Values("double") :
         LET arr == Grown(store.f[i], Zero)
         IN Put(i, [slots |-> [arr.slots EXCEPT ![arr.size + 1] = v], size |-> arr.size + 1])
    /\ Quiet

SetArr ==
  \E i \in DOMAIN Schema :
    /\ Schema[i].kind = "doublearr"
    /\ \E v \in Values("double"), n \in 0 .. MaxSize :
         LET arr == Reserved(store.f[i], n, v)
         IN Put(i, [slots |-> [k \in DOMAIN arr.slots |-> IF k <= n THEN v ELSE arr.slots[k]] \o <<>>, size |-> n])
    /\ Quiet

\* Remove, of either kind of array; an element that is a message is freed first, which clears its header.
RemoveElem ==
  \E i \in DOMAIN Schema :
    /\ Schema[i].kind \notin Scalars \cup {"msg"}
    /\ \E idx \in 1 .. store.f[i].size :
         LET freed == IF Schema[i].kind = "msgarr" THEN [store.f[i] EXCEPT !.slots[idx].hdr = {}] ELSE store.f[i]
             arr == MovedDown(freed, idx)
         IN store' = [hdr |-> IF arr.size = 0 THEN store.hdr \ {i} ELSE store.hdr,
                      f |-> [store.f EXCEPT ![i] = arr]]
    /\ Quiet

\* SetSub and a setter on the message it returns.
SetSub ==
  \E i \in DOMAIN Schema :
    /\ Schema[i].kind = "msg"
    /\ \E j \in DOMAIN Schema[i].schema : \E v \in Values(Schema[i].schema[j].kind) :
         Put(i, [hdr |-> store.f[i].hdr \cup {j}, f |-> [store.f[i].f EXCEPT ![j] = v]])
    /\ Quiet

\* Add of a message: only slots that Add itself makes are initialised; one that
\* Remove, Resize or Reserve left behind comes back with what it holds.
AddSub ==
  \E i \in DOMAIN Schema :
    /\ Schema[i].kind = "msgarr" /\ store.f[i].size < MaxSize
    /\ LET arr == Grown(store.f[i], Default(Schema[i].schema)) IN Put(i, [arr EXCEPT !.size = @ + 1])
    /\ Quiet

SetElemVal ==
  \E i \in DOMAIN Schema :
    /\ Schema[i].kind = "doublearr"
    /\ \E n \in 1 .. store.f[i].size, v \in Values("double") : Put(i, [store.f[i] EXCEPT !.slots[n] = v])
    /\ Quiet

\* SetElem and a setter on the message it returns.
SetElemSub ==
  \E i \in DOMAIN Schema :
    /\ Schema[i].kind = "msgarr"
    /\ \E n \in 1 .. store.f[i].size, j \in DOMAIN Schema[i].schema : \E v \in Values(Schema[i].schema[j].kind) :
         Put(i, [store.f[i] EXCEPT !.slots[n] = [hdr |-> @.hdr \cup {j}, f |-> [@.f EXCEPT ![j] = v]]])
    /\ Quiet

\* What realloc leaves in a new slot.
Leftover(i) ==
  IF Schema[i].kind = "doublearr" THEN Values("double")
  ELSE {[Default(Schema[i].schema) EXCEPT !.hdr = DOMAIN Schema[i].schema]}

Reserve ==
  \E i \in DOMAIN Schema :
    /\ Schema[i].kind \notin Scalars \cup {"msg"}
    /\ \E n \in 1 .. MaxSize, junk \in Leftover(i) :
         store' = [store EXCEPT !.f[i] = Reserved(@, n, junk)]
    /\ Quiet

ResizeVal ==
  \E i \in DOMAIN Schema :
    /\ Schema[i].kind = "doublearr"
    /\ \E n \in 0 .. MaxSize, junk \in Leftover(i) : Put(i, [Reserved(store.f[i], n, junk) EXCEPT !.size = n])
    /\ Quiet

\* Resize of messages; the ones it adds are initialised, the ones it leaves stay in their slots.
ResizeSub ==
  \E i \in DOMAIN Schema :
    /\ Schema[i].kind = "msgarr"
    /\ \E n \in 0 .. MaxSize :
         LET new == Default(Schema[i].schema)
             arr == Reserved(store.f[i], n, new)
         IN Put(i, [slots |-> [k \in DOMAIN arr.slots |->
                                 IF k > arr.size /\ k <= n THEN new ELSE arr.slots[k]] \o <<>>,
                    size |-> n])
    /\ Quiet

\* borMsgSetHeader.
borMsgSetHeader ==
  /\ store' = SetHeader(store, Schema)
  /\ result' = [call |-> "header", before |-> store]

\* The message written to a buffer of some room and read into a new message.
Transfer ==
  /\ \E room \in {0, 1, 6, 64} :
       LET b == borMsgEncode(store, room)
           d == borMsgDecode(b.buf)
       IN result' = [call |-> "transfer", w |-> b.w, size |-> b.size, left |-> d.buf, got |-> d.msg]
  /\ UNCHANGED store

\* borMsgFree, and borMsgInit to use the message again.
FreeInit == store' = Default(Schema) /\ Quiet

\* What was read is not used any further.
Going == result # None => result.call = "header"
Next ==
  /\ Going
  /\ \/ SetVal \/ Unset \/ AddVal \/ SetArr \/ RemoveElem \/ SetSub \/ AddSub \/ SetElemVal \/ SetElemSub
     \/ Reserve \/ ResizeVal \/ ResizeSub \/ borMsgSetHeader \/ Transfer \/ FreeInit
Spec == Init /\ [][Next]_vars

-----------------------------------------------------------------------------

\* The message a reader should get: what the header does not mark is as in a new message.
RECURSIVE Marked(_, _)
Marked(msg, schema) ==
  LET arr(els) == [slots |-> els, size |-> Len(els)]
      part(i) ==
        CASE i \notin msg.hdr -> Default(schema).f[i]
          [] schema[i].kind \in Scalars -> msg.f[i]
          [] schema[i].kind = "msg" -> Marked(msg.f[i], schema[i].schema)
          [] schema[i].kind = "msgarr" ->
               arr([k \in 1 .. msg.f[i].size |-> Marked(msg.f[i].slots[k], schema[i].schema)] \o <<>>)
          [] OTHER -> arr(Held(msg.f[i]))
  IN [hdr |-> msg.hdr, f |-> [i \in DOMAIN schema |-> part(i)] \o <<>>]

\* What a message says, whatever its header marks.
RECURSIVE Content(_, _)
Content(msg, schema) ==
  [i \in DOMAIN schema |->
     CASE schema[i].kind \in Scalars -> msg.f[i]
       [] schema[i].kind = "msg" -> Content(msg.f[i], schema[i].schema)
       [] schema[i].kind = "msgarr" ->
            [k \in 1 .. msg.f[i].size |-> Content(msg.f[i].slots[k], schema[i].schema)] \o <<>>
       [] OTHER -> Held(msg.f[i])] \o <<>>

\* Through a buffer of any room, however its fields were set, removed, resized and marked,
\* a message arrives with exactly the fields it marks, nothing is left in the buffer, and
\* no byte was written behind its end; and once borMsgSetHeader has chosen the marks, they
\* keep all that the message says, and mark nothing that is as in a new message (but a
\* float, which is compared together with the bytes behind it).
RoundTrip ==
  result # None =>
    CASE result.call = "transfer" ->
           result.got = Marked(store, Schema) /\ result.left = <<>> /\ result.w <= result.size
      [] result.call = "header" ->
           /\ Content(Marked(store, Schema), Schema) = Content(result.before, Schema)
           /\ \A i \in store.hdr :
                Content(store, Schema)[i] = Content(Default(Schema), Schema)[i] => Schema[i].kind = "float"
      [] OTHER -> TRUE
=============================================================================
