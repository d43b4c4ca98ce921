----------------------- MODULE InvoicePaymentsProofs ------------------------
(***************************************************************************)
(* What InvoicePayments guarantees for every total, credit note and set of *)
(* requests and calls.  The proof goes in four rounds, each resting on the *)
(* ones before: the types; a request is on the invoice once and approved   *)
(* only when it was; what is left to pay is the rest; and, of one call at  *)
(* a time, that the figures, the status and the receipts are right.        *)
(***************************************************************************)
EXTENDS InvoicePayments, FiniteSetTheorems, TLAPS

(* What there is of a call, by where it is. *)

\* A call of a request's approval (and of a save, if it is for a request).
Asking == {"weigh", "claim", "read", "back", "unset", "receipt", "stamp", "mark"}

Shaped(c) ==
    /\ c.at \in Asking => c.req \in Requests
    /\ c.at \in Asking \cup {"save", "edit", "amend"} => c.amount \in Amounts
    /\ c.at \in {"save", "edit", "remove", "amend", "apply"} => c.doc \in Invoice
    /\ c.at \in {"edit", "remove"} =>
          c.id \in Ids /\ IsFiniteSet(c.doc.payments)
    /\ c.at \in {"target", "apply", "count"} => c.note \in Note
    /\ c.at \notin Asking \cup {"save"} => c.req = None
    /\ c.req \in Requests => request[c.req].status # "absent"

CallShape == \A a \in Actors : call[a] # Idle => Shaped(call[a])

RequestShape ==
    \A r \in Requests : request[r].status # "absent" => request[r].amount \in Amounts

\* An id is given once, so a payment is known by its id.
IdsOnce == /\ IsFiniteSet(used)
           /\ \A p \in invoice.payments : p.id \in used
           /\ \A p, q \in invoice.payments : p.id = q.id => p = q

Shape == TypeOK /\ CallShape /\ RequestShape /\ IdsOnce

----------------------------------------------------------------------------
(* What SumOf adds up to. *)

Units(payments) == {unit \in payments \X Amounts : unit[2] <= unit[1].amount}

LEMMA AmountsOK == Total \in Nat /\ Amounts \subseteq Nat \ {0}
BY AmountsAssumption DEF Amounts

LEMMA UnitsFinite ==
    ASSUME NEW payments, IsFiniteSet(payments)
    PROVE  IsFiniteSet(Units(payments)) /\ SumOf(payments) \in Nat
<1>1. IsFiniteSet(Amounts)
  BY AmountsAssumption, FS_Interval DEF Amounts
<1>2. IsFiniteSet(payments \X Amounts)
  BY <1>1, FS_Product
<1>3. Units(payments) \in SUBSET (payments \X Amounts)
  BY DEF Units
<1>4. IsFiniteSet(Units(payments))
  BY <1>2, <1>3, FS_Subset
<1>5. Cardinality(Units(payments)) \in Nat
  BY <1>4, FS_CardinalityType
<1> QED
  BY <1>4, <1>5 DEF Units, SumOf

LEMMA SumOfNone == SumOf({}) = 0
<1>1. Units({}) = {}
  BY DEF Units
<1> QED
  BY <1>1, FS_EmptySet DEF Units, SumOf

\* One payment more is its amount more.
LEMMA SumOfAdded ==
    ASSUME NEW payments, IsFiniteSet(payments), NEW p, p \notin payments, p.amount \in Amounts
    PROVE  SumOf(payments \cup {p}) = SumOf(payments) + p.amount
<1> DEFINE own == {p} \X (1..p.amount)
<1>1. p.amount \in Nat /\ 1..p.amount \subseteq Amounts
  BY AmountsAssumption DEF Amounts
<1>2. IsFiniteSet({p}) /\ Cardinality({p}) = 1
  BY FS_Singleton
<1>3. IsFiniteSet(1..p.amount) /\ Cardinality(1..p.amount) = p.amount
  <2>1. 1 \in Int /\ p.amount \in Int
    BY <1>1
  <2>2. IsFiniteSet(1..p.amount)
        /\ Cardinality(1..p.amount) = IF 1 > p.amount THEN 0 ELSE p.amount - 1 + 1
    BY <2>1, FS_Interval
  <2> QED
    BY <1>1, <2>2
<1>4. IsFiniteSet(own) /\ Cardinality(own) = p.amount
  <2>1. IsFiniteSet(own) /\ Cardinality(own) = Cardinality({p}) * Cardinality(1..p.amount)
    BY <1>2, <1>3, FS_Product
  <2> QED
    BY <1>1, <1>2, <1>3, <2>1
<1>5. Units(payments \cup {p}) = Units(payments) \cup own
  <2>1. ASSUME NEW unit \in Units(payments \cup {p}) PROVE unit \in Units(payments) \cup own
    BY AmountsAssumption DEF Units, Amounts
  <2>2. ASSUME NEW unit \in Units(payments) \cup own PROVE unit \in Units(payments \cup {p})
    BY <1>1, AmountsAssumption DEF Units, Amounts
  <2> QED
    BY <2>1, <2>2
<1>6. Units(payments) \cap own = {}
  BY DEF Units
<1>7. IsFiniteSet(Units(payments)) /\ Cardinality(Units(payments)) \in Nat
  BY UnitsFinite, FS_CardinalityType
<1>8. Cardinality(Units(payments) \cup own) = Cardinality(Units(payments)) + Cardinality(own)
  <2>1. Cardinality(Units(payments) \cap own) = 0
    BY <1>6, FS_EmptySet
  <2>2. Cardinality(Units(payments) \cup own)
          = Cardinality(Units(payments)) + Cardinality(own) - Cardinality(Units(payments) \cap own)
    BY <1>4, <1>7, FS_Union
  <2> HIDE DEF own
  <2> QED
    BY <1>1, <1>4, <1>7, <2>1, <2>2
<1> QED
  BY <1>4, <1>5, <1>8 DEF Units, SumOf

LEMMA SumOfTaken ==
    ASSUME NEW payments, IsFiniteSet(payments), NEW p \in payments, p.amount \in Amounts
    PROVE  SumOf(payments) = SumOf(payments \ {p}) + p.amount
<1>1. IsFiniteSet(payments \ {p})
  BY FS_RemoveElement
<1>2. payments = (payments \ {p}) \cup {p} /\ p \notin payments \ {p}
  OBVIOUS
<1>3. SumOf((payments \ {p}) \cup {p}) = SumOf(payments \ {p}) + p.amount
  BY <1>1, <1>2, SumOfAdded
<1> QED
  BY <1>2, <1>3

----------------------------------------------------------------------------
(* What the parts of a step do. *)

LEMMA AmountIsNat == ASSUME NEW n \in Amounts PROVE n \in Nat /\ n \in Int /\ n > 0 /\ n <= Total
BY AmountsAssumption DEF Amounts

LEMMA InvoiceInts ==
    ASSUME NEW doc \in Invoice
    PROVE  doc.total \in Int /\ doc.total > 0 /\ doc.paid \in Int /\ doc.balance \in Int
BY AmountIsNat DEF Invoice

\* The figures a save writes.
Figured(new, doc, paid, balance, status) ==
    /\ new \in Invoice
    /\ new.total = invoice.total /\ new.payments = invoice.payments
    /\ new.paid = IF paid # doc.paid THEN paid ELSE invoice.paid
    /\ new.balance = IF balance # doc.balance THEN balance ELSE invoice.balance
    /\ new.status = IF status # doc.status THEN status ELSE invoice.status

LEMMA WrittenIs ==
    ASSUME invoice \in Invoice, NEW doc \in Invoice, NEW paid \in Int, NEW balance \in Int,
           NEW status \in {"draft", "sent", "partial", "paid", "void"}
    PROVE  Figured(Written(doc, paid, balance, status), doc, paid, balance, status)
BY DEF Written, Invoice, Figured

LEMMA FiguresTyped ==
    ASSUME invoice \in Invoice
    PROVE  /\ Figures \in Invoice
           /\ Figures.total = invoice.total /\ Figures.paid = invoice.paid
           /\ Figures.balance = invoice.balance /\ Figures.status = invoice.status
BY DEF Invoice, Figures

\* A call as it was, but that its save may now be refused.
Kept(b) == /\ call[b] = Idle => call'[b] = Idle
           /\ call[b] # Idle =>
                /\ call'[b] \in Call /\ call'[b] # Idle
                /\ call'[b].at = call[b].at /\ call'[b].req = call[b].req
                /\ call'[b].id = call[b].id /\ call'[b].amount = call[b].amount
                /\ call'[b].doc = call[b].doc /\ call'[b].note = call[b].note
                /\ call'[b].number = call[b].number

LEMMA SameIsKept ==
    ASSUME TypeOK, NEW b \in Actors, call'[b] = call[b] PROVE Kept(b)
BY DEF TypeOK, Kept

\* One call becomes `new`, and the others are as they were.
Becomes(a, new) ==
    /\ call'[a] = new /\ call' \in [Actors -> Call \cup {Idle}]
    /\ \A b \in Actors : b # a => Kept(b)

LEMMA CallSet ==
    ASSUME TypeOK, NEW a \in Actors, NEW new \in Call \cup {Idle},
           call' = [call EXCEPT ![a] = new]
    PROVE  Becomes(a, new) /\ \A b \in Actors : b # a => call'[b] = call[b]
<1>1. call'[a] = new /\ call' \in [Actors -> Call \cup {Idle}]
  BY DEF TypeOK
<1>2. \A b \in Actors : b # a => call'[b] = call[b]
  BY DEF TypeOK
<1> QED
  BY <1>1, <1>2, SameIsKept DEF Becomes

LEMMA CallSetMoving ==
    ASSUME TypeOK, NEW a \in Actors, NEW new \in Call \cup {Idle},
           new.at \notin {"edit", "amend"}, call' = MovesOn([call EXCEPT ![a] = new])
    PROVE  Becomes(a, new)
<1> DEFINE set == [call EXCEPT ![a] = new]
<1>1. set \in [Actors -> Call \cup {Idle}] /\ set[a] = new
      /\ \A b \in Actors : b # a => set[b] = call[b]
  BY DEF TypeOK
<1> HIDE DEF set
<1>2. call' = [b \in Actors |-> IF set[b].at \in {"edit", "amend"} THEN [set[b] EXCEPT !.moved = TRUE]
                                ELSE set[b]]
  BY DEF MovesOn, set
<1>3. call'[a] = new
  BY <1>1, <1>2
<1>4. ASSUME NEW b \in Actors, b # a
      PROVE  Kept(b)
  <2>1. set[b] = call[b] /\ call[b] \in Call \cup {Idle}
    BY <1>1, <1>4
  <2>2. CASE call[b].at \in {"edit", "amend"}
    <3>1. call[b] \in Call /\ call[b] # Idle
      BY <2>1, <2>2 DEF Idle
    <3>2. call'[b] = [call[b] EXCEPT !.moved = TRUE]
      BY <1>2, <2>1, <2>2
    <3> QED
      BY <3>1, <3>2 DEF Call, Idle, Kept
  <2>3. CASE call[b].at \notin {"edit", "amend"}
    BY <1>2, <2>1, <2>3 DEF Kept
  <2> QED
    BY <2>2, <2>3
<1>5. call' \in [Actors -> Call \cup {Idle}]
  <2>1. \A b \in Actors : call'[b] \in Call \cup {Idle}
    BY <1>1, <1>3, <1>4 DEF Kept
  <2> QED
    BY <1>2, <2>1
<1> QED
  BY <1>3, <1>4, <1>5 DEF Becomes

\* A call begins: noticed if another is in progress.
Begun(a, new) ==
    /\ call[a] = Idle /\ Becomes(a, new)
    /\ \A b \in Actors : b # a => call'[b] = call[b]
    /\ raced' \in BOOLEAN /\ crossed' \in BOOLEAN
    /\ ~raced' => ~raced /\ \A b \in Actors : call[b] = Idle
    /\ ~crossed' => ~crossed /\ \A b \in Actors : b # a /\ call[b] # Idle =>
                                    new.at # "amend" /\ call[b].at # "amend"

LEMMA BeginStep ==
    ASSUME TypeOK, NEW a \in Actors, NEW new \in Call, Begin(a, new)
    PROVE  Begun(a, new)
<1>1. Becomes(a, new) /\ \A b \in Actors : b # a => call'[b] = call[b]
  BY CallSet DEF Begin
<1> QED
  BY <1>1 DEF Begin, Together, Begun, TypeOK

Steps == {"weigh", "claim", "read", "save", "back", "unset", "receipt", "stamp", "mark",
          "edit", "remove", "amend", "send", "target", "apply", "count"}

LEMMA CallIsTyped == ASSUME TypeOK, NEW a \in Actors, call[a] # Idle PROVE call[a] \in Call
BY DEF TypeOK

----------------------------------------------------------------------------
(* What each action does to the calls and the invoice. *)

Typed == call' \in [Actors -> Call \cup {Idle}]
Others(a) == \A b \in Actors : b # a => call'[b] = call[b]
OthersKept(a) == \A b \in Actors : b # a => Kept(b)

\* A call begins.
Starts(a, at, req, id, amount, doc, with) ==
    /\ call[a] = Idle /\ Typed /\ Others(a) /\ OthersKept(a)
    /\ call'[a] \in Call /\ call'[a] # Idle /\ call'[a].at = at /\ call'[a].req = req
    /\ call'[a].id = id /\ call'[a].amount = amount /\ call'[a].doc = doc
    /\ call'[a].note = with
    /\ raced' \in BOOLEAN /\ crossed' \in BOOLEAN
    /\ ~raced' => ~raced /\ \A b \in Actors : call[b] = Idle
    /\ ~crossed' => ~crossed /\ \A b \in Actors : b # a /\ call[b] # Idle =>
                                    at # "amend" /\ call[b].at # "amend"

LEMMA StartStep ==
    ASSUME TypeOK, NEW a \in Actors, NEW new, new \in Call, new # Idle, Begin(a, new)
    PROVE  Starts(a, new.at, new.req, new.id, new.amount, new.doc, new.note)
<1>1. Begun(a, new)
  BY BeginStep
<1> QED
  BY <1>1 DEF Begun, Becomes, Typed, Others, OthersKept, Starts

LEMMA RecordStep ==
    ASSUME Shape, NEW a \in Actors, NEW amount \in Amounts, Record(a, amount)
    PROVE  Starts(a, "save", None, None, amount, Figures, None)
<1>1. Figures \in Invoice /\ amount \in Int
  BY FiguresTyped, AmountsOK DEF Shape, TypeOK
<1> DEFINE new == [Fresh("save", Figures) EXCEPT !.amount = amount]
<1>2. /\ new \in Call /\ new # Idle /\ new.at = "save" /\ new.req = None /\ new.id = None
      /\ new.amount = amount /\ new.doc = Figures /\ new.note = None
  BY <1>1 DEF Fresh, Call, Idle, NoNumber
<1>3. Begin(a, new)
  BY DEF Record
<1> HIDE DEF new
<1> QED
  BY <1>1, <1>2, <1>3, StartStep DEF Shape

LEMMA EditStep ==
    ASSUME Shape, NEW a \in Actors, NEW p \in invoice.payments, NEW amount \in Amounts,
           Edit(a, p, amount)
    PROVE  Starts(a, "edit", None, p.id, amount, invoice, None) /\ p.id \in Ids
<1>1. invoice \in Invoice /\ amount \in Int /\ p.id \in Ids
  BY AmountsOK DEF Shape, TypeOK, Invoice, Payment
<1> DEFINE new == [Fresh("edit", invoice) EXCEPT !.id = p.id, !.amount = amount]
<1>2. /\ new \in Call /\ new # Idle /\ new.at = "edit" /\ new.req = None /\ new.id = p.id
      /\ new.amount = amount /\ new.doc = invoice /\ new.note = None
  BY <1>1 DEF Fresh, Call, Idle, NoNumber
<1>3. Begin(a, new)
  BY DEF Edit
<1> HIDE DEF new
<1> QED
  BY <1>1, <1>2, <1>3, StartStep DEF Shape

LEMMA RemoveStep ==
    ASSUME Shape, NEW a \in Actors, NEW p \in invoice.payments, Remove(a, p)
    PROVE  Starts(a, "remove", None, p.id, 0, invoice, None) /\ p.id \in Ids
<1>1. invoice \in Invoice /\ p.id \in Ids
  BY DEF Shape, TypeOK, Invoice, Payment
<1> DEFINE fresh == Fresh("remove", invoice)
           new == [fresh EXCEPT !.id = p.id]
<1>2. /\ new \in Call /\ new # Idle /\ new.at = "remove" /\ new.req = None /\ new.id = p.id
      /\ new.amount = 0 /\ new.doc = invoice /\ new.note = None
  <2>1. /\ fresh \in Call /\ fresh.at = "remove" /\ fresh.req = None /\ fresh.id = None
        /\ fresh.amount = 0 /\ fresh.doc = invoice /\ fresh.note = None
    BY <1>1 DEF Fresh, Call, NoNumber
  <2> HIDE DEF fresh
  <2> QED
    BY <1>1, <2>1 DEF Call, Idle
<1>3. Begin(a, new)
  BY DEF Remove
<1> HIDE DEF new
<1> QED
  BY <1>1, <1>2, <1>3, StartStep DEF Shape

LEMMA AmendStep ==
    ASSUME Shape, NEW a \in Actors, NEW total \in Amounts, Amend(a, total)
    PROVE  Starts(a, "amend", None, None, total, Figures, None)
<1>1. Figures \in Invoice /\ total \in Int
  BY FiguresTyped, AmountsOK DEF Shape, TypeOK
<1> DEFINE new == [Fresh("amend", Figures) EXCEPT !.amount = total]
<1>2. /\ new \in Call /\ new # Idle /\ new.at = "amend" /\ new.req = None /\ new.id = None
      /\ new.amount = total /\ new.doc = Figures /\ new.note = None
  BY <1>1 DEF Fresh, Call, Idle, NoNumber
<1>3. Begin(a, new)
  BY DEF Amend
<1> HIDE DEF new
<1> QED
  BY <1>1, <1>2, <1>3, StartStep DEF Shape

LEMMA SendStep ==
    ASSUME Shape, NEW a \in Actors, Send(a)
    PROVE  Starts(a, "send", None, None, 0, None, None)
<1> DEFINE new == Fresh("send", None)
<1>1. /\ new \in Call /\ new # Idle /\ new.at = "send" /\ new.req = None /\ new.id = None
      /\ new.amount = 0 /\ new.doc = None /\ new.note = None
  BY DEF Fresh, Call, Idle, NoNumber
<1>2. Begin(a, new)
  BY DEF Send
<1> HIDE DEF new
<1> QED
  BY <1>1, <1>2, StartStep DEF Shape

LEMMA ApplyStep ==
    ASSUME Shape, NEW a \in Actors, Apply(a)
    PROVE  Starts(a, "target", None, None, 0, None, note)
<1>1. note \in Note
  BY DEF Shape, TypeOK
<1> DEFINE fresh == Fresh("target", None)
           new == [fresh EXCEPT !.note = note]
<1>2. /\ new \in Call /\ new # Idle /\ new.at = "target" /\ new.req = None /\ new.id = None
      /\ new.amount = 0 /\ new.doc = None /\ new.note = note
  <2>1. /\ fresh \in Call /\ fresh.at = "target" /\ fresh.req = None /\ fresh.id = None
        /\ fresh.amount = 0 /\ fresh.doc = None /\ fresh.note = None
    BY <1>1 DEF Fresh, Call, NoNumber
  <2> HIDE DEF fresh
  <2> QED
    BY <1>1, <2>1 DEF Call, Idle
<1>3. Begin(a, new)
  BY DEF Apply
<1> HIDE DEF new
<1> QED
  BY <1>1, <1>2, <1>3, StartStep DEF Shape

LEMMA ApproveStep ==
    ASSUME Shape, NEW a \in Actors, NEW r \in Requests, Approve(a, r)
    PROVE  /\ Starts(a, "weigh", r, None, request[r].amount, None, None)
           /\ request[r].amount \in Amounts
<1>1. request[r].amount \in Amounts /\ request[r].amount \in Int
  BY AmountsOK DEF Approve, Shape, RequestShape
<1> DEFINE new == [Fresh("weigh", None) EXCEPT !.req = r, !.amount = request[r].amount]
<1>2. /\ new \in Call /\ new # Idle /\ new.at = "weigh" /\ new.req = r /\ new.id = None
      /\ new.amount = request[r].amount /\ new.doc = None /\ new.note = None
  BY <1>1 DEF Fresh, Call, Idle, NoNumber
<1>3. Begin(a, new)
  BY DEF Approve
<1> HIDE DEF new
<1> QED
  BY <1>1, <1>2, <1>3, StartStep DEF Shape

\* A call goes on, its request and amount as they were.
Goes(a, at) ==
    /\ call[a] # Idle /\ call'[a] \in Call /\ call'[a] # Idle /\ call'[a].at = at
    /\ call'[a].req = call[a].req /\ call'[a].id = call[a].id
    /\ call'[a].note = call[a].note /\ call'[a].amount = call[a].amount
    /\ Typed /\ Others(a) /\ OthersKept(a)

Ends(a) == call[a] # Idle /\ call'[a] = Idle /\ Typed /\ Others(a) /\ OthersKept(a)

LEMMA DoneStep ==
    ASSUME Shape, NEW a \in Actors, call[a] # Idle, Done(a) PROVE Ends(a)
<1>1. Becomes(a, Idle) /\ \A b \in Actors : b # a => call'[b] = call[b]
  BY CallSet DEF Done, Shape
<1> QED
  BY <1>1 DEF Becomes, Ends, Typed, Others, OthersKept

LEMMA GoStep ==
    ASSUME Shape, NEW a \in Actors, NEW at \in Steps, call[a] # Idle, Go(a, at)
    PROVE  Goes(a, at) /\ call'[a].doc = call[a].doc /\ call'[a].number = call[a].number
<1> DEFINE new == [call[a] EXCEPT !.at = at]
<1>1. call[a] \in Call
  BY CallIsTyped DEF Shape
<1>2. /\ new \in Call /\ new # Idle /\ new.at = at /\ new.req = call[a].req /\ new.id = call[a].id
      /\ new.note = call[a].note /\ new.amount = call[a].amount
      /\ new.doc = call[a].doc /\ new.number = call[a].number
  BY <1>1 DEF Call, Steps, Idle
<1>3. call' = [call EXCEPT ![a] = new]
  BY DEF Go, Shape, TypeOK
<1> HIDE DEF new
<1>4. Becomes(a, new) /\ \A b \in Actors : b # a => call'[b] = call[b]
  BY <1>2, <1>3, CallSet DEF Shape
<1> QED
  BY <1>2, <1>4 DEF Becomes, Goes, Typed, Others, OthersKept

\* Goes on with another document, or none.
LEMMA GoWithStep ==
    ASSUME Shape, NEW a \in Actors, NEW at \in Steps, call[a] # Idle, NEW doc \in Invoice \cup {None},
           call' = [call EXCEPT ![a] = [call[a] EXCEPT !.at = at, !.doc = doc]]
    PROVE  Goes(a, at) /\ call'[a].doc = doc
<1> DEFINE new == [call[a] EXCEPT !.at = at, !.doc = doc]
<1>1. call[a] \in Call
  BY CallIsTyped DEF Shape
<1>2. /\ new \in Call /\ new # Idle /\ new.at = at /\ new.req = call[a].req /\ new.id = call[a].id
      /\ new.note = call[a].note /\ new.amount = call[a].amount /\ new.doc = doc
  <2>1. new \in Call
    BY <1>1 DEF Call, Steps
  <2>2. new.at = at /\ new.doc = doc /\ new # Idle
    BY <1>1 DEF Call, Steps, Idle
  <2>3. /\ new.req = call[a].req /\ new.id = call[a].id
        /\ new.note = call[a].note /\ new.amount = call[a].amount
    BY <1>1 DEF Call
  <2> QED
    BY <2>1, <2>2, <2>3
<1> HIDE DEF new
<1>3. call' = [call EXCEPT ![a] = new]
  BY DEF new
<1>4. Becomes(a, new) /\ \A b \in Actors : b # a => call'[b] = call[b]
  BY <1>2, <1>3, CallSet DEF Shape
<1> QED
  BY <1>2, <1>4 DEF Becomes, Goes, Typed, Others, OthersKept

LEMMA GoNumberedStep ==
    ASSUME Shape, NEW a \in Actors, NEW at \in Steps, call[a] # Idle, NEW number \in Nat,
           call' = [call EXCEPT ![a].at = at, ![a].number = number]
    PROVE  Goes(a, at) /\ call'[a].number = number
<1> DEFINE new == [call[a] EXCEPT !.at = at, !.number = number]
<1>1. call[a] \in Call
  BY CallIsTyped DEF Shape
<1>2. /\ new \in Call /\ new # Idle /\ new.at = at /\ new.req = call[a].req /\ new.id = call[a].id
      /\ new.note = call[a].note /\ new.amount = call[a].amount /\ new.number = number
  <2>1. new \in Call
    BY <1>1 DEF Call, Steps
  <2>2. new.at = at /\ new.number = number /\ new # Idle
    BY <1>1 DEF Call, Steps, Idle
  <2>3. /\ new.req = call[a].req /\ new.id = call[a].id
        /\ new.note = call[a].note /\ new.amount = call[a].amount
    BY <1>1 DEF Call
  <2> QED
    BY <2>1, <2>2, <2>3
<1>3. call' = [call EXCEPT ![a] = new]
  BY DEF Shape, TypeOK
<1> HIDE DEF new
<1>4. Becomes(a, new) /\ \A b \in Actors : b # a => call'[b] = call[b]
  BY <1>2, <1>3, CallSet DEF Shape
<1> QED
  BY <1>2, <1>4 DEF Becomes, Goes, Typed, Others, OthersKept

LEMMA PaymentsFinite == ASSUME Shape PROVE IsFiniteSet(invoice.payments)
<1> DEFINE f == [p \in invoice.payments |-> p.id]
<1>1. f \in Injection(invoice.payments, used)
  BY DEF Shape, IdsOnce, Injection, IsInjective
<1>2. IsFiniteSet(used)
  BY DEF Shape, IdsOnce
<1> QED
  BY <1>1, <1>2, FS_Injection

\* The payments as an edit, a removal and a receipt leave them.
Edited(c) == {IF p.id = c.id THEN [p EXCEPT !.amount = c.amount] ELSE p : p \in invoice.payments}
Left(payments, c) == {p \in payments : p.id # c.id}
WithReceipt(c) == {IF p.ref = c.req /\ p.receipt = NoNumber THEN [p EXCEPT !.receipt = c.number] ELSE p
                     : p \in invoice.payments}

\* The same payments but for their amounts, or their receipts.
LEMMA EditedIs ==
    ASSUME Shape, NEW c \in Call, c.amount \in Amounts
    PROVE  /\ Edited(c) \subseteq Payment
           /\ \A q \in Edited(c) : \E p \in invoice.payments :
                /\ q.id = p.id /\ q.ref = p.ref /\ q.receipt = p.receipt
                /\ q = IF p.id = c.id THEN [p EXCEPT !.amount = c.amount] ELSE p
           /\ \A p \in invoice.payments : \E q \in Edited(c) : q.id = p.id /\ q.ref = p.ref
<1>1. invoice.payments \subseteq Payment
  BY DEF Shape, TypeOK, Invoice
<1>2. ASSUME NEW p \in Payment
      PROVE  LET q == IF p.id = c.id THEN [p EXCEPT !.amount = c.amount] ELSE p
             IN  q \in Payment /\ q.id = p.id /\ q.ref = p.ref /\ q.receipt = p.receipt
  BY DEF Payment
<1> DEFINE New(p) == IF p.id = c.id THEN [p EXCEPT !.amount = c.amount] ELSE p
<1>3. Edited(c) = {New(p) : p \in invoice.payments}
  BY DEF Edited
<1>4. \A p \in Payment : /\ New(p) \in Payment /\ New(p).id = p.id /\ New(p).ref = p.ref
                         /\ New(p).receipt = p.receipt
  BY <1>2
<1>5. \A q \in Edited(c) : \E p \in invoice.payments : q = New(p)
  BY <1>3
<1>6. \A p \in invoice.payments : New(p) \in Edited(c)
  BY <1>3
<1>7. \A q \in Edited(c) : \E p \in invoice.payments :
         /\ q.id = p.id /\ q.ref = p.ref /\ q.receipt = p.receipt
         /\ q = IF p.id = c.id THEN [p EXCEPT !.amount = c.amount] ELSE p
  <2> TAKE q \in Edited(c)
  <2>1. PICK p \in invoice.payments : q = New(p)
    BY <1>5
  <2>2. q = IF p.id = c.id THEN [p EXCEPT !.amount = c.amount] ELSE p
    BY <2>1
  <2> HIDE DEF New
  <2>3. q.id = p.id /\ q.ref = p.ref /\ q.receipt = p.receipt
    BY <1>1, <1>4, <2>1
  <2> WITNESS p \in invoice.payments
  <2> QED
    BY <2>2, <2>3
<1> HIDE DEF New
<1>8. Edited(c) \subseteq Payment
  BY <1>1, <1>4, <1>5
<1>9. \A p \in invoice.payments : \E q \in Edited(c) : q.id = p.id /\ q.ref = p.ref
  BY <1>1, <1>4, <1>6
<1> QED
  BY <1>7, <1>8, <1>9

LEMMA WithReceiptIs ==
    ASSUME Shape, NEW c \in Call
    PROVE  /\ WithReceipt(c) \subseteq Payment
           /\ \A q \in WithReceipt(c) : \E p \in invoice.payments :
                /\ q.id = p.id /\ q.ref = p.ref /\ q.amount = p.amount
                /\ q = IF p.ref = c.req /\ p.receipt = NoNumber THEN [p EXCEPT !.receipt = c.number]
                       ELSE p
           /\ \A p \in invoice.payments : \E q \in WithReceipt(c) : q.id = p.id /\ q.ref = p.ref
<1>1. invoice.payments \subseteq Payment /\ c.number \in Nat
  BY DEF Shape, TypeOK, Invoice, Call
<1>2. ASSUME NEW p \in Payment
      PROVE  LET q == IF p.ref = c.req /\ p.receipt = NoNumber THEN [p EXCEPT !.receipt = c.number]
                      ELSE p
             IN  q \in Payment /\ q.id = p.id /\ q.ref = p.ref /\ q.amount = p.amount
  BY <1>1 DEF Payment
<1> QED
  BY <1>1, <1>2 DEF WithReceipt

\* The invoice after a save.
Saved(doc, paid, balance, status, total, payments) ==
    /\ invoice' \in Invoice
    /\ invoice'.total = total /\ invoice'.payments = payments
    /\ invoice'.paid = IF paid # doc.paid THEN paid ELSE invoice.paid
    /\ invoice'.balance = IF balance # doc.balance THEN balance ELSE invoice.balance
    /\ invoice'.status = IF status # doc.status THEN status ELSE invoice.status

LEMMA SavedWith ==
    ASSUME Shape, NEW doc \in Invoice, NEW paid \in Int, NEW balance \in Int,
           NEW status \in {"draft", "sent", "partial", "paid", "void"},
           NEW payments \in SUBSET Payment,
           invoice' = [Written(doc, paid, balance, status) EXCEPT !.payments = payments]
    PROVE  Saved(doc, paid, balance, status, invoice.total, payments)
<1>1. Figured(Written(doc, paid, balance, status), doc, paid, balance, status)
  BY WrittenIs DEF Shape, TypeOK
<1> QED
  BY <1>1 DEF Figured, Invoice, Saved

LEMMA SavedTotal ==
    ASSUME Shape, NEW doc \in Invoice, NEW paid \in Int, NEW balance \in Int,
           NEW status \in {"draft", "sent", "partial", "paid", "void"}, NEW total \in Amounts,
           invoice' = [Written(doc, paid, balance, status) EXCEPT !.total = total]
    PROVE  Saved(doc, paid, balance, status, total, invoice.payments)
<1>1. Figured(Written(doc, paid, balance, status), doc, paid, balance, status)
  BY WrittenIs DEF Shape, TypeOK
<1> QED
  BY <1>1 DEF Figured, Invoice, Saved

LEMMA SavedOnly ==
    ASSUME Shape, NEW doc \in Invoice, NEW paid \in Int, NEW balance \in Int,
           NEW status \in {"draft", "sent", "partial", "paid", "void"},
           invoice' = Written(doc, paid, balance, status)
    PROVE  Saved(doc, paid, balance, status, invoice.total, invoice.payments)
<1>1. Figured(Written(doc, paid, balance, status), doc, paid, balance, status)
  BY WrittenIs DEF Shape, TypeOK
<1> QED
  BY <1>1 DEF Figured, Invoice, Saved

(* The steps of a call in progress. *)

\* The payment a save puts on the invoice.
PaymentOf(c, id) == [id |-> id, amount |-> c.amount, ref |-> c.req, receipt |-> NoNumber]

RecordedAs(a, id) ==
    LET c == call[a] IN
      /\ c \in Call /\ c # Idle /\ c.at = "save" /\ id \in Ids \ used
      /\ c.doc \in Invoice /\ c.amount \in Amounts /\ PaymentOf(c, id) \in Payment
      /\ Saved(c.doc, c.doc.paid + c.amount, c.doc.total - (c.doc.paid + c.amount),
               StatusFor(c.doc.total - (c.doc.paid + c.amount)), invoice.total,
               invoice.payments \cup {PaymentOf(c, id)})
      /\ used' = used \cup {id} /\ recorded' = recorded \cup ({c.req} \ {None})
      /\ IF c.req = None THEN call'[a] = Idle
         ELSE /\ call'[a] \in Call /\ call'[a] # Idle /\ call'[a].at = "back"
              /\ call'[a].req = c.req /\ call'[a].amount = c.amount
      /\ Typed /\ OthersKept(a)

LEMMA SaveRecordedStep ==
    ASSUME Shape, NEW a \in Actors, SaveRecorded(a)
    PROVE  \E id \in Ids : RecordedAs(a, id)
<1> DEFINE c == call[a]
           paid == c.doc.paid + c.amount
           balance == c.doc.total - paid
           next == IF c.req = None THEN Idle ELSE [c EXCEPT !.at = "back", !.doc = None]
<1>1. c # Idle /\ c.at = "save"
  BY DEF SaveRecorded, Idle
<1>2. c \in Call /\ c.doc \in Invoice /\ c.amount \in Amounts /\ c.req \in Requests \cup {None}
  BY <1>1, CallIsTyped DEF Shape, CallShape, Shaped, Call
<1>3. paid \in Int /\ balance \in Int
  BY <1>2, AmountIsNat, InvoiceInts
<1>4. PICK id \in Ids \ used :
        /\ invoice' = [Written(c.doc, paid, balance, StatusFor(balance)) EXCEPT
                         !.payments = @ \cup {PaymentOf(c, id)}]
        /\ used' = used \cup {id} /\ recorded' = recorded \cup ({c.req} \ {None})
        /\ call' = MovesOn([call EXCEPT ![a] = next])
  BY DEF SaveRecorded, PaymentOf
<1>5. PaymentOf(c, id) \in Payment
  BY <1>2, <1>4 DEF PaymentOf, Payment, NoNumber
<1>6. next \in Call \cup {Idle} /\ next.at \notin {"edit", "amend"}
      /\ (c.req # None => /\ next \in Call /\ next # Idle /\ next.at = "back" /\ next.req = c.req
                          /\ next.amount = c.amount)
  BY <1>2 DEF Call, Idle
<1>7. Becomes(a, next)
  <2> HIDE DEF next
  <2> QED
    BY <1>4, <1>6, CallSetMoving DEF Shape
<1>8. StatusFor(balance) \in {"draft", "sent", "partial", "paid", "void"}
  BY DEF StatusFor
<1>9. Written(c.doc, paid, balance, StatusFor(balance)).payments = invoice.payments
  BY <1>2, <1>3, <1>8, WrittenIs DEF Shape, TypeOK, Figured
<1>10. invoice.payments \cup {PaymentOf(c, id)} \in SUBSET Payment
  BY <1>5 DEF Shape, TypeOK, Invoice
<1>11. Saved(c.doc, paid, balance, StatusFor(balance), invoice.total,
             invoice.payments \cup {PaymentOf(c, id)})
  BY <1>2, <1>3, <1>4, <1>8, <1>9, <1>10, SavedWith
<1> WITNESS id \in Ids
<1> QED
  BY <1>1, <1>2, <1>4, <1>5, <1>6, <1>7, <1>11 DEF RecordedAs, Becomes, Typed, OthersKept

\* What is left to pay is figured from what the payments read come to.
PaidWith(c) == SumOf(Left(c.doc.payments, c)) + c.amount

LEMMA LeftTyped ==
    ASSUME Shape, NEW a \in Actors, call[a].at \in {"edit", "remove"}
    PROVE  /\ call[a] \in Call /\ call[a] # Idle /\ call[a].doc \in Invoice /\ call[a].id \in Ids
           /\ SumOf(Left(call[a].doc.payments, call[a])) \in Nat
           /\ call[a].at = "edit" => call[a].amount \in Amounts
<1>1. call[a] # Idle
  BY DEF Idle
<1>2. /\ call[a] \in Call /\ call[a].doc \in Invoice /\ call[a].id \in Ids
      /\ IsFiniteSet(call[a].doc.payments) /\ (call[a].at = "edit" => call[a].amount \in Amounts)
  BY <1>1, CallIsTyped DEF Shape, CallShape, Shaped
<1>3. Left(call[a].doc.payments, call[a]) \in SUBSET call[a].doc.payments
  BY DEF Left
<1>4. IsFiniteSet(Left(call[a].doc.payments, call[a]))
  BY <1>2, <1>3, FS_Subset
<1> QED
  BY <1>1, <1>2, <1>4, UnitsFinite

LEMMA SaveEditStep ==
    ASSUME Shape, NEW a \in Actors, SaveEdit(a)
    PROVE  LET c == call[a] IN
             /\ Ends(a) /\ c.at = "edit" /\ c \in Call /\ c.doc \in Invoice /\ c.amount \in Amounts
             /\ PaidWith(c) \in Int
             /\ IF c.moved THEN invoice' = invoice
                ELSE Saved(c.doc, PaidWith(c), c.doc.total - PaidWith(c),
                           StatusFor(c.doc.total - PaidWith(c)), invoice.total, Edited(c))
<1> DEFINE c == call[a]
           paid == PaidWith(c)
           balance == c.doc.total - paid
<1>1. c.at = "edit"
  BY DEF SaveEdit
<1>2. /\ c \in Call /\ c # Idle /\ c.doc \in Invoice /\ c.amount \in Amounts
      /\ SumOf(Left(c.doc.payments, c)) \in Nat
  BY <1>1, LeftTyped
<1>3. paid \in Int /\ balance \in Int
  BY <1>2, AmountIsNat, InvoiceInts DEF PaidWith
<1>4. Ends(a)
  BY <1>2, DoneStep DEF SaveEdit
<1>5. invoice' = IF c.moved THEN invoice
                 ELSE [Written(c.doc, paid, balance, StatusFor(balance)) EXCEPT !.payments = Edited(c)]
  BY DEF SaveEdit, PaidWith, Left, Edited
<1>6. StatusFor(balance) \in {"draft", "sent", "partial", "paid", "void"}
  BY DEF StatusFor
<1>7. Edited(c) \in SUBSET Payment
  BY <1>2, EditedIs
<1>8. ~c.moved => Saved(c.doc, paid, balance, StatusFor(balance), invoice.total, Edited(c))
  BY <1>2, <1>3, <1>5, <1>6, <1>7, SavedWith
<1> QED
  BY <1>1, <1>2, <1>3, <1>4, <1>5, <1>8

LEMMA SaveRemoveStep ==
    ASSUME Shape, NEW a \in Actors, SaveRemove(a)
    PROVE  LET c == call[a] paid == SumOf(Left(c.doc.payments, c)) IN
             /\ c # Idle /\ c.at = "remove" /\ c \in Call /\ c.doc \in Invoice /\ paid \in Nat
             /\ call'[a] = Idle /\ Typed /\ OthersKept(a)
             /\ Saved(c.doc, paid, c.doc.total - paid, Outstanding(paid, c.doc.total - paid),
                      invoice.total, Left(invoice.payments, c))
<1> DEFINE c == call[a]
           paid == SumOf(Left(c.doc.payments, c))
           balance == c.doc.total - paid
           status == Outstanding(paid, balance)
<1>1. c.at = "remove"
  BY DEF SaveRemove
<1>2. c \in Call /\ c # Idle /\ c.doc \in Invoice /\ paid \in Nat
  BY <1>1, LeftTyped
<1>3. paid \in Int /\ balance \in Int
  BY <1>2, AmountIsNat, InvoiceInts
<1>4. status \in {"draft", "sent", "partial", "paid", "void"}
  BY DEF Outstanding
<1>5. Becomes(a, Idle)
  BY CallSetMoving DEF SaveRemove, Shape, Idle
<1>6. Written(c.doc, paid, balance, status).payments = invoice.payments
  BY <1>2, <1>3, <1>4, WrittenIs DEF Shape, TypeOK, Figured
<1>7. invoice' = [Written(c.doc, paid, balance, status) EXCEPT !.payments = {p \in @ : p.id # c.id}]
  BY DEF SaveRemove, Left
<1>8. Left(invoice.payments, c) \in SUBSET Payment
  BY DEF Left, Shape, TypeOK, Invoice
<1>9. invoice' = [Written(c.doc, paid, balance, status) EXCEPT !.payments = Left(invoice.payments, c)]
  BY <1>6, <1>7 DEF Left
<1>10. Saved(c.doc, paid, balance, status, invoice.total, Left(invoice.payments, c))
  BY <1>2, <1>3, <1>4, <1>8, <1>9, SavedWith
<1> QED
  BY <1>1, <1>2, <1>5, <1>10 DEF Becomes, Typed, OthersKept

StatusAmended(c) ==
    IF c.doc.status = "draft" THEN "draft" ELSE Outstanding(c.doc.paid, c.amount - c.doc.paid)

LEMMA SaveAmendStep ==
    ASSUME Shape, NEW a \in Actors, SaveAmend(a)
    PROVE  LET c == call[a] IN
             /\ c # Idle /\ c.at = "amend" /\ c \in Call /\ c.doc \in Invoice /\ c.amount \in Amounts
             /\ call'[a] = Idle /\ Typed /\ OthersKept(a)
             /\ \/ c.moved /\ invoice' = invoice
                \/ Saved(c.doc, c.doc.paid, c.amount - c.doc.paid, StatusAmended(c), c.amount,
                         invoice.payments)
<1> DEFINE c == call[a]
           paid == c.doc.paid
           balance == c.amount - paid
<1>1. c # Idle /\ c.at = "amend"
  BY DEF SaveAmend, Idle
<1>2. c \in Call /\ c.doc \in Invoice /\ c.amount \in Amounts
  BY <1>1, CallIsTyped DEF Shape, CallShape, Shaped
<1>3. paid \in Int /\ balance \in Int
  BY <1>2, AmountIsNat, InvoiceInts
<1>4. StatusAmended(c) \in {"draft", "sent", "partial", "paid", "void"}
  BY DEF StatusAmended, Outstanding
<1>5. CASE c.moved
  <2>1. Done(a) /\ invoice' = invoice
    BY <1>5 DEF SaveAmend
  <2>2. Ends(a)
    BY <1>1, <2>1, DoneStep
  <2> QED
    BY <1>1, <1>2, <1>5, <2>1, <2>2 DEF Ends
<1>6. CASE ~c.moved
  <2>1. /\ invoice' = [Written(c.doc, paid, balance, StatusAmended(c)) EXCEPT !.total = c.amount]
        /\ call' = MovesOn([call EXCEPT ![a] = Idle])
    BY <1>6 DEF SaveAmend, StatusAmended
  <2>2. Becomes(a, Idle)
    BY <2>1, CallSetMoving DEF Shape, Idle
  <2>3. Saved(c.doc, paid, balance, StatusAmended(c), c.amount, invoice.payments)
    BY <1>2, <1>3, <1>4, <2>1, SavedTotal
  <2> QED
    BY <1>1, <1>2, <2>2, <2>3 DEF Becomes, Typed, OthersKept
<1> QED
  BY <1>5, <1>6

SaveSendIs(a) == Ends(a) /\ call[a].at = "send" /\ invoice' \in Invoice
                 /\ invoice'.total = invoice.total /\ invoice'.payments = invoice.payments
                 /\ invoice'.paid = invoice.paid /\ invoice'.balance = invoice.balance
                 /\ invoice'.status = "sent"

LEMMA SaveSendStep == ASSUME Shape, NEW a \in Actors, SaveSend(a) PROVE SaveSendIs(a)
<1>1. call[a] # Idle /\ call[a].at = "send"
  BY DEF SaveSend, Idle
<1>2. Ends(a)
  BY <1>1, DoneStep DEF SaveSend
<1> QED
  BY <1>1, <1>2 DEF SaveSend, SaveSendIs, Shape, TypeOK, Invoice

\* Of the credit as much as both have room for.
Room(a) == Credit - call[a].note.applied
AmountToApply(a) == IF Room(a) < invoice.balance THEN Room(a) ELSE invoice.balance

TargetIs(a) ==
    /\ call[a].at = "target" /\ call[a] \in Call /\ call[a].note \in Note
    /\ \/ Ends(a)
       \/ /\ call[a] # Idle /\ invoice.status # "void"
          /\ call'[a] \in Call /\ call'[a] # Idle /\ call'[a].at = "apply"
          /\ call'[a].req = call[a].req /\ call'[a].note = call[a].note
          /\ call'[a].doc = Figures /\ call'[a].amount = AmountToApply(a)
          /\ Typed /\ Others(a) /\ OthersKept(a)

LEMMA TargetStep == ASSUME Shape, NEW a \in Actors, Target(a) PROVE TargetIs(a)
<1> DEFINE new == [call[a] EXCEPT !.at = "apply", !.doc = Figures, !.amount = AmountToApply(a)]
<1>1. call[a] # Idle /\ call[a].at = "target"
  BY DEF Target, Idle
<1>2. call[a] \in Call /\ call[a].note \in Note
  BY <1>1, CallIsTyped DEF Shape, CallShape, Shaped
<1>3. CASE invoice.status = "void"
  <2>1. Ends(a)
    BY <1>1, <1>3, DoneStep DEF Target
  <2> QED
    BY <1>1, <1>2, <2>1 DEF TargetIs
<1>4. CASE invoice.status # "void"
  <2>1. Figures \in Invoice /\ AmountToApply(a) \in Int
    BY <1>2, FiguresTyped, AmountsAssumption, InvoiceInts DEF Shape, TypeOK, Note, AmountToApply, Room
  <2>2. call' = [call EXCEPT ![a].at = "apply", ![a].doc = Figures, ![a].amount = AmountToApply(a)]
    BY <1>4 DEF Target, AmountToApply, Room
  <2>3. call' = [call EXCEPT ![a] = new]
    BY <2>2 DEF Shape, TypeOK
  <2>4. /\ new \in Call /\ new # Idle /\ new.at = "apply" /\ new.req = call[a].req
        /\ new.note = call[a].note /\ new.doc = Figures /\ new.amount = AmountToApply(a)
    BY <1>2, <2>1 DEF Call, Idle
  <2> HIDE DEF new
  <2>5. Becomes(a, new) /\ \A b \in Actors : b # a => call'[b] = call[b]
    BY <2>3, <2>4, CallSet DEF Shape
  <2> QED
    BY <1>1, <1>2, <1>4, <2>4, <2>5 DEF TargetIs, Becomes, Typed, Others, OthersKept
<1> QED
  BY <1>3, <1>4

StatusApplied(c) ==
    IF c.doc.balance - c.amount <= 0 THEN "paid"
    ELSE IF c.doc.paid + c.amount > 0 THEN "partial" ELSE c.doc.status

ApplySaveIs(a) ==
    LET c == call[a] IN
      /\ Goes(a, "count") /\ c.at = "apply" /\ c \in Call /\ c.doc \in Invoice /\ c.note \in Note
      /\ Saved(c.doc, c.doc.paid + c.amount, c.doc.balance - c.amount, StatusApplied(c),
               invoice.total, invoice.payments)
      /\ credited' = credited + c.amount

LEMMA ApplySaveStep == ASSUME Shape, NEW a \in Actors, ApplySave(a) PROVE ApplySaveIs(a)
<1> DEFINE c == call[a]
           paid == c.doc.paid + c.amount
           balance == c.doc.balance - c.amount
<1>1. c # Idle /\ c.at = "apply"
  BY DEF ApplySave, Idle
<1>2. c \in Call /\ c.doc \in Invoice /\ c.note \in Note /\ c.amount \in Int
  BY <1>1, CallIsTyped DEF Shape, CallShape, Shaped, Call
<1>3. paid \in Int /\ balance \in Int
  BY <1>2, InvoiceInts
<1>4. StatusApplied(c) \in {"draft", "sent", "partial", "paid", "void"}
  BY <1>2 DEF StatusApplied, Invoice
<1>5. Saved(c.doc, paid, balance, StatusApplied(c), invoice.total, invoice.payments)
  BY <1>2, <1>3, <1>4, SavedOnly DEF ApplySave, StatusApplied
<1>6. call' = [call EXCEPT ![a] = [call[a] EXCEPT !.at = "count", !.doc = None]]
  BY DEF ApplySave, Shape, TypeOK
<1>7. Goes(a, "count")
  BY <1>1, <1>6, GoWithStep DEF Steps
<1> QED
  BY <1>1, <1>2, <1>5, <1>7 DEF ApplySave, ApplySaveIs

LEMMA CountStep ==
    ASSUME Shape, NEW a \in Actors, Count(a)
    PROVE  /\ Ends(a) /\ call[a].at = "count" /\ call[a] \in Call /\ call[a].note \in Note
           /\ note' \in Note
           /\ note'.applied = note.applied \/ note'.applied = call[a].note.applied + call[a].amount
<1>1. call[a] # Idle /\ call[a].at = "count"
  BY DEF Count, Idle
<1>2. call[a] \in Call /\ call[a].note \in Note /\ call[a].amount \in Int
  BY <1>1, CallIsTyped DEF Shape, CallShape, Shaped, Call
<1>3. Ends(a)
  BY <1>1, DoneStep DEF Count
<1>4. note' \in Note /\ (note'.applied = note.applied
                         \/ note'.applied = call[a].note.applied + call[a].amount)
  BY <1>2 DEF Count, Note, Shape, TypeOK
<1> QED
  BY <1>1, <1>2, <1>3, <1>4

LEMMA WeighStep ==
    ASSUME Shape, NEW a \in Actors, Weigh(a)
    PROVE  /\ call[a].at = "weigh" /\ call[a].req \in Requests
           /\ (Goes(a, "receipt") /\ OnInvoice(call[a].req)) \/ Goes(a, "claim") \/ Ends(a)
<1>1. call[a] # Idle /\ call[a].at = "weigh"
  BY DEF Weigh, Idle
<1>2. call[a].req \in Requests
  BY <1>1 DEF Shape, CallShape, Shaped, Asking
<1> QED
  BY <1>1, <1>2, GoStep, DoneStep DEF Weigh, Steps

ClaimIs(a) ==
    LET r == call[a].req IN
      /\ call[a].at = "claim" /\ r \in Requests
      /\ \/ /\ request[r].status = "pending" /\ ~request[r].claimed
            /\ request' = [request EXCEPT ![r].claimed = TRUE] /\ Goes(a, "read")
         \/ request' = request /\ Ends(a)

LEMMA ClaimStep == ASSUME Shape, NEW a \in Actors, Claim(a) PROVE ClaimIs(a)
<1>1. call[a] # Idle /\ call[a].at = "claim"
  BY DEF Claim, Idle
<1>2. call[a].req \in Requests
  BY <1>1 DEF Shape, CallShape, Shaped, Asking
<1> QED
  BY <1>1, <1>2, GoStep, DoneStep DEF Claim, ClaimIs, Steps

ReadToRecordIs(a) ==
    LET r == call[a].req IN
      /\ call[a].at = "read" /\ r \in Requests
      /\ \/ Goes(a, "receipt") /\ OnInvoice(r)
         \/ Goes(a, "save") /\ ~OnInvoice(r) /\ Takes(invoice, call[a].amount) /\ call'[a].doc = Figures
         \/ Goes(a, "unset")

LEMMA ReadToRecordStep == ASSUME Shape, NEW a \in Actors, ReadToRecord(a) PROVE ReadToRecordIs(a)
<1> DEFINE r == call[a].req
<1>1. call[a] # Idle /\ call[a].at = "read"
  BY DEF ReadToRecord, Idle
<1>2. r \in Requests /\ Figures \in Invoice
  BY <1>1, FiguresTyped DEF Shape, TypeOK, CallShape, Shaped, Asking
<1>3. CASE OnInvoice(r)
  <2>1. Go(a, "receipt")
    BY <1>3 DEF ReadToRecord, Go, Shape, TypeOK
  <2> QED
    BY <1>1, <1>2, <1>3, <2>1, GoStep DEF ReadToRecordIs, Steps
<1>4. CASE ~OnInvoice(r) /\ Takes(invoice, call[a].amount)
  <2>1. call' = [call EXCEPT ![a] = [call[a] EXCEPT !.at = "save", !.doc = Figures]]
    BY <1>4 DEF ReadToRecord
  <2> QED
    BY <1>1, <1>2, <1>4, <2>1, GoWithStep DEF ReadToRecordIs, Steps
<1>5. CASE ~OnInvoice(r) /\ ~Takes(invoice, call[a].amount)
  <2>1. Go(a, "unset")
    BY <1>5 DEF ReadToRecord, Go, Shape, TypeOK
  <2> QED
    BY <1>1, <1>2, <2>1, GoStep DEF ReadToRecordIs, Steps
<1> QED
  BY <1>3, <1>4, <1>5

LEMMA BackStep ==
    ASSUME Shape, NEW a \in Actors, Back(a)
    PROVE  Goes(a, "receipt") /\ call[a].at = "back" /\ call[a].req \in Requests
<1>1. call[a] # Idle /\ call[a].at = "back"
  BY DEF Back, Idle
<1> QED
  BY <1>1, GoStep DEF Back, Steps, Shape, CallShape, Shaped, Asking

UnsetIs(a) ==
    LET r == call[a].req IN
      /\ Ends(a) /\ call[a].at = "unset" /\ r \in Requests
      /\ \/ request' = request /\ request[r].status # "pending"
         \/ request' = [request EXCEPT ![r].claimed = FALSE] /\ request[r].status = "pending"

LEMMA UnsetStep == ASSUME Shape, NEW a \in Actors, Unset(a) PROVE UnsetIs(a)
<1> DEFINE r == call[a].req
<1>1. call[a] # Idle /\ call[a].at = "unset"
  BY DEF Unset, Idle
<1>2. r \in Requests /\ Ends(a)
  BY <1>1, DoneStep DEF Unset, Shape, CallShape, Shaped, Asking
<1>3. CASE request[r].status = "pending"
  BY <1>1, <1>2, <1>3 DEF Unset, UnsetIs
<1>4. CASE request[r].status # "pending"
  <2>1. request' = request
    BY <1>2, <1>4 DEF Unset, Shape, TypeOK, Request
  <2> QED
    BY <1>1, <1>2, <1>4, <2>1 DEF UnsetIs
<1> QED
  BY <1>3, <1>4

\* A payment of the request, and its number or the next one.
ReceiptIs(a) ==
    LET r == call[a].req IN
      /\ call[a].at = "receipt" /\ r \in Requests
      /\ \/ Ends(a) /\ minted' = minted
         \/ \E p \in invoice.payments :
              /\ p.ref = r
              /\ \/ Goes(a, "mark") /\ call'[a].number = p.receipt /\ minted' = minted
                 \/ /\ p.receipt = NoNumber /\ minted' = minted + 1
                    /\ Goes(a, "stamp") /\ call'[a].number = minted + 1

LEMMA ReceiptStep == ASSUME Shape, NEW a \in Actors, Receipt(a) PROVE ReceiptIs(a)
<1> DEFINE r == call[a].req
           p == CHOOSE p \in invoice.payments : p.ref = r
<1>1. call[a] # Idle /\ call[a].at = "receipt"
  BY DEF Receipt, Idle
<1>2. r \in Requests
  BY <1>1 DEF Shape, CallShape, Shaped, Asking
<1>3. CASE ~OnInvoice(r)
  BY <1>1, <1>2, <1>3, DoneStep DEF Receipt, ReceiptIs
<1>4. CASE OnInvoice(r)
  <2>1. p \in invoice.payments /\ p.ref = r
    BY <1>4 DEF OnInvoice
  <2>2. p.receipt \in Nat
    BY <2>1 DEF Shape, TypeOK, Invoice, Payment
  <2>3. \/ /\ p.receipt # NoNumber /\ minted' = minted
           /\ call' = [call EXCEPT ![a].at = "mark", ![a].number = p.receipt]
        \/ /\ p.receipt = NoNumber /\ minted' = minted + 1
           /\ call' = [call EXCEPT ![a].at = "stamp", ![a].number = minted + 1]
    BY <1>4 DEF Receipt
  <2> HIDE DEF p
  <2>4. minted + 1 \in Nat
    BY DEF Shape, TypeOK
  <2>5. CASE p.receipt # NoNumber
    <3>1. Goes(a, "mark") /\ call'[a].number = p.receipt
      BY <1>1, <2>2, <2>3, <2>5, GoNumberedStep DEF Steps
    <3> QED
      BY <1>1, <1>2, <2>1, <2>3, <2>5, <3>1 DEF ReceiptIs
  <2>6. CASE p.receipt = NoNumber
    <3>1. Goes(a, "stamp") /\ call'[a].number = minted + 1
      BY <1>1, <2>3, <2>4, <2>6, GoNumberedStep DEF Steps
    <3> QED
      BY <1>1, <1>2, <2>1, <2>3, <2>6, <3>1 DEF ReceiptIs
  <2> QED
    BY <2>5, <2>6
<1> QED
  BY <1>3, <1>4

StampReceiptIs(a) ==
    /\ call[a].at = "stamp" /\ call[a] \in Call /\ call[a].req \in Requests
    /\ Goes(a, "mark") /\ call'[a].number = call[a].number
    /\ invoice' \in Invoice /\ invoice'.payments = WithReceipt(call[a])
    /\ invoice'.total = invoice.total /\ invoice'.paid = invoice.paid
    /\ invoice'.balance = invoice.balance /\ invoice'.status = invoice.status

LEMMA StampReceiptStep == ASSUME Shape, NEW a \in Actors, StampReceipt(a) PROVE StampReceiptIs(a)
<1>1. call[a] # Idle /\ call[a].at = "stamp"
  BY DEF StampReceipt, Idle
<1>2. call[a] \in Call /\ call[a].req \in Requests
  BY <1>1, CallIsTyped DEF Shape, CallShape, Shaped, Asking
<1>3. Goes(a, "mark") /\ call'[a].number = call[a].number
  BY <1>1, GoStep DEF StampReceipt, Steps
<1>4. invoice' = [invoice EXCEPT !.payments = WithReceipt(call[a])]
  BY DEF StampReceipt, WithReceipt
<1>5. WithReceipt(call[a]) \in SUBSET Payment
  BY <1>2, WithReceiptIs
<1> QED
  BY <1>1, <1>2, <1>3, <1>4, <1>5 DEF StampReceiptIs, Shape, TypeOK, Invoice

MarkIs(a) ==
    LET r == call[a].req IN
      /\ Ends(a) /\ call[a].at = "mark" /\ call[a] \in Call /\ r \in Requests
      /\ request' \in [Requests -> Request]
      /\ request'[r].status = "approved" /\ request'[r].claimed
      /\ request'[r].receipt = call[a].number /\ request'[r].amount = request[r].amount
      /\ \A s \in Requests : s # r => request'[s] = request[s]

LEMMA MarkStep == ASSUME Shape, NEW a \in Actors, Mark(a) PROVE MarkIs(a)
<1> DEFINE r == call[a].req
           old == request[r]
           new == [old EXCEPT !.status = "approved", !.claimed = TRUE, !.receipt = call[a].number]
<1>1. call[a] # Idle /\ call[a].at = "mark"
  BY DEF Mark, Idle
<1>2. call[a] \in Call /\ r \in Requests /\ call[a].number \in Nat
  BY <1>1, CallIsTyped DEF Shape, CallShape, Shaped, Asking, Call
<1>3. Ends(a)
  BY <1>1, DoneStep DEF Mark
<1>4. request' = [request EXCEPT ![r] = new]
  BY DEF Mark
<1>5. /\ new \in Request /\ new.status = "approved" /\ new.claimed = TRUE
      /\ new.receipt = call[a].number /\ new.amount = old.amount
  <2>1. old \in Request
    BY <1>2 DEF Shape, TypeOK
  <2> HIDE DEF old
  <2> QED
    BY <1>2, <2>1 DEF Request
<1> HIDE DEF new
<1> QED
  BY <1>1, <1>2, <1>3, <1>4, <1>5 DEF MarkIs, Shape, TypeOK

LEMMA ThrowStep ==
    ASSUME Shape, NEW a \in Actors, Throw(a)
    PROVE  Goes(a, "unset") /\ call[a].at \in {"read", "save", "back"} /\ call[a].req \in Requests
<1>1. call[a] # Idle /\ call[a].req # None /\ call[a].at \in {"read", "save", "back"}
  BY DEF Throw
<1>2. call[a].req \in Requests
  BY <1>1, CallIsTyped DEF Shape, Call
<1>3. call' = [call EXCEPT ![a] = [call[a] EXCEPT !.at = "unset", !.doc = None]]
  BY DEF Throw, Shape, TypeOK
<1> QED
  BY <1>1, <1>2, <1>3, GoWithStep DEF Steps

LEMMA DieStep == ASSUME Shape, NEW a \in Actors, Die(a) PROVE Ends(a)
BY DoneStep DEF Die

----------------------------------------------------------------------------
(* First round: the types. *)

Standing == \A r \in Requests : request[r].status # "absent" => request'[r].status # "absent"

LEMMA CallShapeStep ==
    ASSUME Shape, NEW a \in Actors, OthersKept(a), call'[a] # Idle => Shaped(call'[a]), Standing
    PROVE  CallShape'
<1>1. ASSUME NEW b \in Actors, b # a, call'[b] # Idle PROVE Shaped(call'[b])
  BY <1>1 DEF OthersKept, Kept, Shape, CallShape, Shaped
<1>2. \A b \in Actors : call'[b] # Idle => Shaped(call'[b])
  BY <1>1
<1>3. \A b \in Actors : call'[b] # Idle => Shaped(call[b])'
  BY <1>2 DEF Shaped, Standing
<1> QED
  BY <1>3 DEF CallShape

\* Nothing but the calls, and what is said of them, goes on.
LEMMA OnlyCalls ==
    ASSUME Shape, NEW a \in Actors, Typed, OthersKept(a), call'[a] # Idle => Shaped(call'[a]),
           raced' \in BOOLEAN, crossed' \in BOOLEAN, faults' \in 0..MaxFaults, minted' \in Nat,
           UNCHANGED <<invoice, used, note, credited, request, recorded>>
    PROVE  Shape'
<1>1. TypeOK'
  BY DEF Shape, TypeOK, Typed
<1>2. CallShape'
  BY CallShapeStep DEF Standing
<1>3. RequestShape' /\ IdsOnce'
  BY DEF Shape, RequestShape, IdsOnce
<1> QED
  BY <1>1, <1>2, <1>3 DEF Shape

\* And a request.
LEMMA CallsAndRequests ==
    ASSUME Shape, NEW a \in Actors, Typed, OthersKept(a), call'[a] # Idle => Shaped(call'[a]),
           request' \in [Requests -> Request], RequestShape', Standing,
           UNCHANGED <<invoice, used, note, credited, recorded, minted, faults, raced, crossed>>
    PROVE  Shape'
<1>1. TypeOK'
  BY DEF Shape, TypeOK, Typed
<1>2. CallShape'
  BY CallShapeStep DEF Standing
<1>3. IdsOnce'
  BY DEF Shape, IdsOnce
<1> QED
  BY <1>1, <1>2, <1>3 DEF Shape

\* And the invoice, each payment of which had its id.
LEMMA CallsAndInvoice ==
    ASSUME Shape, NEW a \in Actors, Typed, OthersKept(a), call'[a] # Idle => Shaped(call'[a]),
           invoice' \in Invoice, IdsOnce', used' \subseteq Ids, recorded' \subseteq Requests,
           credited' \in Int, UNCHANGED <<note, request, minted, faults, raced, crossed>>
    PROVE  Shape'
<1>1. TypeOK'
  BY DEF Shape, TypeOK, Typed
<1>2. CallShape'
  BY CallShapeStep DEF Standing
<1>3. RequestShape'
  BY DEF Shape, RequestShape
<1> QED
  BY <1>1, <1>2, <1>3 DEF Shape

LEMMA SameIds ==
    ASSUME Shape, invoice'.payments = invoice.payments, used' = used PROVE IdsOnce'
BY DEF Shape, IdsOnce

LEMMA ShapeStart == ASSUME Shape, NEW a \in Actors, Start(a) PROVE Shape'
<1>1. ASSUME NEW amount \in Amounts, Record(a, amount) PROVE Shape'
  <2>1. Starts(a, "save", None, None, amount, Figures, None)
    BY <1>1, RecordStep
  <2>2. Shaped(call'[a])
    BY <2>1, FiguresTyped, NoneAssumption DEF Starts, Shaped, Asking, Shape, TypeOK
  <2>3. UNCHANGED <<invoice, used, note, credited, request, recorded, minted, faults>>
    BY <1>1 DEF Record
  <2> QED
    BY <2>1, <2>2, <2>3, OnlyCalls DEF Starts, Shape, TypeOK
<1>2. ASSUME NEW p \in invoice.payments, NEW amount \in Amounts, Edit(a, p, amount) PROVE Shape'
  <2>1. Starts(a, "edit", None, p.id, amount, invoice, None) /\ p.id \in Ids
    BY <1>2, EditStep
  <2>2. Shaped(call'[a])
    BY <2>1, PaymentsFinite, NoneAssumption DEF Starts, Shaped, Asking, Shape, TypeOK
  <2>3. UNCHANGED <<invoice, used, note, credited, request, recorded, minted, faults>>
    BY <1>2 DEF Edit
  <2> QED
    BY <2>1, <2>2, <2>3, OnlyCalls DEF Starts, Shape, TypeOK
<1>3. ASSUME NEW p \in invoice.payments, Remove(a, p) PROVE Shape'
  <2>1. Starts(a, "remove", None, p.id, 0, invoice, None) /\ p.id \in Ids
    BY <1>3, RemoveStep
  <2>2. Shaped(call'[a])
    BY <2>1, PaymentsFinite, NoneAssumption DEF Starts, Shaped, Asking, Shape, TypeOK
  <2>3. UNCHANGED <<invoice, used, note, credited, request, recorded, minted, faults>>
    BY <1>3 DEF Remove
  <2> QED
    BY <2>1, <2>2, <2>3, OnlyCalls DEF Starts, Shape, TypeOK
<1>4. ASSUME NEW total \in Amounts, Amend(a, total) PROVE Shape'
  <2>1. Starts(a, "amend", None, None, total, Figures, None)
    BY <1>4, AmendStep
  <2>2. Shaped(call'[a])
    BY <2>1, FiguresTyped, NoneAssumption DEF Starts, Shaped, Asking, Shape, TypeOK
  <2>3. UNCHANGED <<invoice, used, note, credited, request, recorded, minted, faults>>
    BY <1>4 DEF Amend
  <2> QED
    BY <2>1, <2>2, <2>3, OnlyCalls DEF Starts, Shape, TypeOK
<1>5. ASSUME Send(a) PROVE Shape'
  <2>1. Starts(a, "send", None, None, 0, None, None)
    BY <1>5, SendStep
  <2>2. Shaped(call'[a])
    BY <2>1, NoneAssumption DEF Starts, Shaped, Asking
  <2>3. UNCHANGED <<invoice, used, note, credited, request, recorded, minted, faults>>
    BY <1>5 DEF Send
  <2> QED
    BY <2>1, <2>2, <2>3, OnlyCalls DEF Starts, Shape, TypeOK
<1>6. ASSUME Apply(a) PROVE Shape'
  <2>1. Starts(a, "target", None, None, 0, None, note)
    BY <1>6, ApplyStep
  <2>2. Shaped(call'[a])
    BY <2>1, NoneAssumption DEF Starts, Shaped, Asking, Shape, TypeOK
  <2>3. UNCHANGED <<invoice, used, note, credited, request, recorded, minted, faults>>
    BY <1>6 DEF Apply
  <2> QED
    BY <2>1, <2>2, <2>3, OnlyCalls DEF Starts, Shape, TypeOK
<1>7. ASSUME NEW r \in Requests, Approve(a, r) PROVE Shape'
  <2>1. /\ Starts(a, "weigh", r, None, request[r].amount, None, None)
        /\ request[r].amount \in Amounts
    BY <1>7, ApproveStep
  <2>2. Shaped(call'[a])
    BY <1>7, <2>1 DEF Approve, Starts, Shaped, Asking
  <2>3. UNCHANGED <<invoice, used, note, credited, request, recorded, minted, faults>>
    BY <1>7 DEF Approve
  <2> QED
    BY <2>1, <2>2, <2>3, OnlyCalls DEF Starts, Shape, TypeOK
<1> QED
  BY <1>1, <1>2, <1>3, <1>4, <1>5, <1>6, <1>7 DEF Start

\* Going on without a document, a call keeps its shape.
LEMMA GoesShaped ==
    ASSUME Shape, NEW a \in Actors, NEW at \in Asking, Goes(a, at),
           call[a].at \in Asking \/ (call[a].at = "save" /\ call[a].req \in Requests)
    PROVE  Shaped(call'[a])
BY DEF Goes, Shape, CallShape, Shaped, Asking

LEMMA ShapeMoney ==
    ASSUME Shape, NEW a \in Actors,
           SaveRecorded(a) \/ SaveEdit(a) \/ SaveRemove(a) \/ SaveAmend(a) \/ SaveSend(a)
    PROVE  Shape'
<1>1. ASSUME SaveRecorded(a) PROVE Shape'
  <2>1. PICK id \in Ids : RecordedAs(a, id)
    BY <1>1, SaveRecordedStep
  <2> DEFINE new == PaymentOf(call[a], id)
  <2>2. /\ id \in Ids \ used /\ new.id = id /\ invoice' \in Invoice
        /\ invoice'.payments = invoice.payments \cup {new} /\ used' = used \cup {id}
    BY <2>1 DEF RecordedAs, Saved, PaymentOf
  <2> HIDE DEF new
  <2>3. IdsOnce'
    BY <2>2, FS_AddElement DEF Shape, IdsOnce
  <2>4. call'[a] # Idle => Shaped(call'[a])
    BY <2>1 DEF RecordedAs, Shaped, Asking, Call, Shape, CallShape
  <2>5. recorded' \subseteq Requests /\ used' \subseteq Ids
    BY <2>1, <2>2 DEF RecordedAs, Call, Shape, TypeOK
  <2>6. UNCHANGED <<note, credited, request, minted, faults, raced, crossed>>
    BY <1>1 DEF SaveRecorded
  <2> QED
    BY <2>1, <2>2, <2>3, <2>4, <2>5, <2>6, CallsAndInvoice DEF RecordedAs, Shape, TypeOK
<1>2. ASSUME SaveEdit(a) PROVE Shape'
  <2> DEFINE c == call[a]
  <2>1. /\ Ends(a) /\ c.at = "edit" /\ c \in Call /\ c.amount \in Amounts
        /\ \/ invoice' = invoice
           \/ invoice' \in Invoice /\ invoice'.payments = Edited(c)
    BY <1>2, SaveEditStep DEF Saved
  <2>2. UNCHANGED <<used, note, credited, request, recorded, minted, faults, raced, crossed>>
    BY <1>2 DEF SaveEdit
  <2>3. invoice' \in Invoice
    BY <2>1 DEF Shape, TypeOK
  <2>4. IdsOnce'
    <3>1. CASE invoice' = invoice
      BY <2>2, <3>1, SameIds
    <3>2. CASE invoice'.payments = Edited(c)
      <4>1. \A q \in Edited(c) : \E p \in invoice.payments :
               /\ q.id = p.id
               /\ q = IF p.id = c.id THEN [p EXCEPT !.amount = c.amount] ELSE p
        BY <2>1, EditedIs
      <4> QED
        BY <2>2, <3>2, <4>1 DEF Shape, IdsOnce
    <3> QED
      BY <2>1, <3>1, <3>2
  <2> QED
    BY <2>1, <2>2, <2>3, <2>4, CallsAndInvoice DEF Ends, Shape, TypeOK
<1>3. ASSUME SaveRemove(a) PROVE Shape'
  <2>1. /\ call'[a] = Idle /\ Typed /\ OthersKept(a) /\ invoice' \in Invoice
        /\ invoice'.payments = Left(invoice.payments, call[a])
    BY <1>3, SaveRemoveStep DEF Saved
  <2>2. UNCHANGED <<used, note, credited, request, recorded, minted, faults, raced, crossed>>
    BY <1>3 DEF SaveRemove
  <2>3. IdsOnce'
    BY <2>1, <2>2 DEF Left, Shape, IdsOnce
  <2> QED
    BY <2>1, <2>2, <2>3, CallsAndInvoice DEF Shape, TypeOK
<1>4. ASSUME SaveAmend(a) PROVE Shape'
  <2>1. /\ call'[a] = Idle /\ Typed /\ OthersKept(a) /\ invoice' \in Invoice
        /\ invoice'.payments = invoice.payments
    BY <1>4, SaveAmendStep DEF Saved, Shape, TypeOK
  <2>2. UNCHANGED <<used, note, credited, request, recorded, minted, faults, raced, crossed>>
    BY <1>4 DEF SaveAmend
  <2> QED
    BY <2>1, <2>2, SameIds, CallsAndInvoice DEF Shape, TypeOK
<1>5. ASSUME SaveSend(a) PROVE Shape'
  <2>1. /\ call'[a] = Idle /\ Typed /\ OthersKept(a) /\ invoice' \in Invoice
        /\ invoice'.payments = invoice.payments
    BY <1>5, SaveSendStep DEF SaveSendIs, Ends
  <2>2. UNCHANGED <<used, note, credited, request, recorded, minted, faults, raced, crossed>>
    BY <1>5 DEF SaveSend
  <2> QED
    BY <2>1, <2>2, SameIds, CallsAndInvoice DEF Shape, TypeOK
<1> QED
  BY <1>1, <1>2, <1>3, <1>4, <1>5

LEMMA ShapeCredit ==
    ASSUME Shape, NEW a \in Actors, Target(a) \/ ApplySave(a) \/ Count(a) PROVE Shape'
<1>1. ASSUME Target(a) PROVE Shape'
  <2>1. TargetIs(a)
    BY <1>1, TargetStep
  <2>2. /\ Typed /\ OthersKept(a)
        /\ call'[a] # Idle => Shaped(call'[a])
    BY <2>1, FiguresTyped, CallIsTyped
    DEF TargetIs, Ends, Shaped, Asking, Shape, CallShape, TypeOK
  <2>3. UNCHANGED <<invoice, used, note, credited, request, recorded, minted, faults, raced, crossed>>
    BY <1>1 DEF Target
  <2> QED
    BY <2>2, <2>3, OnlyCalls DEF Shape, TypeOK
<1>2. ASSUME ApplySave(a) PROVE Shape'
  <2>1. ApplySaveIs(a)
    BY <1>2, ApplySaveStep
  <2>2. /\ Typed /\ OthersKept(a) /\ Shaped(call'[a]) /\ invoice' \in Invoice
        /\ invoice'.payments = invoice.payments
    BY <2>1 DEF ApplySaveIs, Saved, Goes, Shaped, Asking, Shape, CallShape
  <2>3. UNCHANGED <<used, note, request, recorded, minted, faults, raced, crossed>>
    BY <1>2 DEF ApplySave
  <2>4. credited' \in Int
    BY <2>1 DEF ApplySaveIs, Call, Shape, TypeOK
  <2> QED
    BY <2>2, <2>3, <2>4, SameIds, CallsAndInvoice DEF Shape, TypeOK
<1>3. ASSUME Count(a) PROVE Shape'
  <2>1. Ends(a) /\ note' \in Note
    BY <1>3, CountStep
  <2>2. UNCHANGED <<invoice, used, credited, request, recorded, minted, faults, raced, crossed>>
    BY <1>3 DEF Count
  <2>3. CallShape'
    BY <2>1, <2>2, CallShapeStep DEF Ends, Standing
  <2>4. TypeOK' /\ RequestShape' /\ IdsOnce'
    BY <2>1, <2>2 DEF Ends, Typed, Shape, TypeOK, RequestShape, IdsOnce
  <2> QED
    BY <2>3, <2>4 DEF Shape
<1> QED
  BY <1>1, <1>2, <1>3
LEMMA RequestClaimed ==
    ASSUME Shape, NEW r \in Requests, NEW claimed \in BOOLEAN,
           request' = [request EXCEPT ![r].claimed = claimed]
    PROVE  /\ request' \in [Requests -> Request] /\ RequestShape' /\ Standing
           /\ \A s \in Requests : /\ request'[s].status = request[s].status
                                 /\ request'[s].receipt = request[s].receipt
<1>1. request[r] \in Request
  BY DEF Shape, TypeOK
<1> DEFINE old == request[r]
           new == [old EXCEPT !.claimed = claimed]
<1>2. /\ new \in Request /\ new.status = old.status /\ new.amount = old.amount
      /\ new.receipt = old.receipt
  <2> HIDE DEF old
  <2>1. old \in Request
    BY <1>1 DEF old
  <2> QED
    BY <2>1 DEF Request
<1>3. request' = [request EXCEPT ![r] = new]
  OBVIOUS
<1> HIDE DEF new
<1> QED
  BY <1>1, <1>2, <1>3 DEF Shape, TypeOK, RequestShape, Standing

LEMMA EndsShaped ==
    ASSUME Shape, NEW a \in Actors, Ends(a),
           UNCHANGED <<invoice, used, note, credited, request, recorded, raced, crossed>>,
           faults' \in 0..MaxFaults, minted' \in Nat
    PROVE  Shape'
BY OnlyCalls DEF Ends, Shape, TypeOK

LEMMA GoesOn ==
    ASSUME Shape, NEW a \in Actors, NEW at \in Asking, Goes(a, at),
           call[a].at \in Asking \/ (call[a].at = "save" /\ call[a].req \in Requests),
           UNCHANGED <<invoice, used, note, credited, request, recorded, raced, crossed>>,
           faults' \in 0..MaxFaults, minted' \in Nat
    PROVE  Shape'
<1>1. Shaped(call'[a])
  BY GoesShaped
<1> QED
  BY <1>1, OnlyCalls DEF Goes, Shape, TypeOK

LEMMA ShapeApproval ==
    ASSUME Shape, NEW a \in Actors,
           Weigh(a) \/ Claim(a) \/ ReadToRecord(a) \/ Back(a) \/ Unset(a)
    PROVE  Shape'
<1> USE DEF Asking
<1>1. ASSUME Weigh(a) PROVE Shape'
  <2>1. UNCHANGED <<invoice, used, note, credited, request, recorded, minted, faults, raced, crossed>>
    BY <1>1 DEF Weigh
  <2> QED
    BY <1>1, <2>1, WeighStep, GoesOn, EndsShaped DEF Shape, TypeOK
<1>2. ASSUME Claim(a) PROVE Shape'
  <2>1. ClaimIs(a)
    BY <1>2, ClaimStep
  <2>2. UNCHANGED <<invoice, used, note, credited, recorded, minted, faults, raced, crossed>>
    BY <1>2 DEF Claim
  <2>3. Typed /\ OthersKept(a) /\ (call'[a] # Idle => Shaped(call'[a]))
    BY <2>1, GoesShaped DEF ClaimIs, Goes, Ends
  <2>4. request' \in [Requests -> Request] /\ RequestShape' /\ Standing
    BY <2>1, RequestClaimed DEF ClaimIs, Shape, TypeOK, RequestShape, Standing
  <2> QED
    BY <2>2, <2>3, <2>4, CallsAndRequests
<1>3. ASSUME ReadToRecord(a) PROVE Shape'
  <2>1. ReadToRecordIs(a)
    BY <1>3, ReadToRecordStep
  <2>2. UNCHANGED <<invoice, used, note, credited, request, recorded, minted, faults, raced, crossed>>
    BY <1>3 DEF ReadToRecord
  <2>3. CASE Goes(a, "receipt") \/ Goes(a, "unset")
    BY <2>1, <2>2, <2>3, GoesOn DEF ReadToRecordIs, Shape, TypeOK
  <2>4. CASE Goes(a, "save") /\ call'[a].doc = Figures
    <3>1. Shaped(call'[a])
      BY <2>1, <2>4, FiguresTyped DEF ReadToRecordIs, Goes, Shape, TypeOK, CallShape, Shaped
    <3> QED
      BY <2>2, <2>4, <3>1, OnlyCalls DEF Goes, Shape, TypeOK
  <2> QED
    BY <2>1, <2>3, <2>4 DEF ReadToRecordIs
<1>4. ASSUME Back(a) PROVE Shape'
  <2>1. UNCHANGED <<invoice, used, note, credited, request, recorded, minted, faults, raced, crossed>>
    BY <1>4 DEF Back
  <2> QED
    BY <1>4, <2>1, BackStep, GoesOn DEF Shape, TypeOK
<1>5. ASSUME Unset(a) PROVE Shape'
  <2>1. UnsetIs(a)
    BY <1>5, UnsetStep
  <2>2. UNCHANGED <<invoice, used, note, credited, recorded, minted, faults, raced, crossed>>
    BY <1>5 DEF Unset
  <2>3. request' \in [Requests -> Request] /\ RequestShape' /\ Standing
    BY <2>1, RequestClaimed DEF UnsetIs, Shape, TypeOK, RequestShape, Standing
  <2> QED
    BY <2>1, <2>2, <2>3, CallsAndRequests DEF UnsetIs, Ends
<1> QED
  BY <1>1, <1>2, <1>3, <1>4, <1>5

LEMMA ShapeReceipt ==
    ASSUME Shape, NEW a \in Actors, Receipt(a) \/ StampReceipt(a) \/ Mark(a) PROVE Shape'
<1> USE DEF Asking
<1>1. ASSUME Receipt(a) PROVE Shape'
  <2>1. ReceiptIs(a)
    BY <1>1, ReceiptStep
  <2>2. UNCHANGED <<invoice, used, note, credited, request, recorded, faults, raced, crossed>>
    BY <1>1 DEF Receipt
  <2>3. minted' \in Nat /\ faults' \in 0..MaxFaults
    BY <2>1, <2>2 DEF ReceiptIs, Shape, TypeOK
  <2>4. Ends(a) \/ Goes(a, "mark") \/ Goes(a, "stamp")
    BY <2>1 DEF ReceiptIs
  <2>5. call[a].at \in Asking
    BY <2>1 DEF ReceiptIs
  <2>6. CASE Ends(a)
    BY <2>2, <2>3, <2>6, EndsShaped
  <2>7. CASE Goes(a, "mark")
    <3>1. Shaped(call'[a])
      BY <2>1, <2>7 DEF ReceiptIs, Goes, Shape, CallShape, Shaped
    <3> QED
      BY <2>2, <2>3, <2>7, <3>1, OnlyCalls DEF Goes, Shape, TypeOK
  <2>8. CASE Goes(a, "stamp")
    <3>1. Shaped(call'[a])
      BY <2>1, <2>8 DEF ReceiptIs, Goes, Shape, CallShape, Shaped
    <3> QED
      BY <2>2, <2>3, <2>8, <3>1, OnlyCalls DEF Goes, Shape, TypeOK
  <2> QED
    BY <2>4, <2>6, <2>7, <2>8
<1>2. ASSUME StampReceipt(a) PROVE Shape'
  <2>1. StampReceiptIs(a)
    BY <1>2, StampReceiptStep
  <2>2. UNCHANGED <<used, note, credited, request, recorded, minted, faults, raced, crossed>>
    BY <1>2 DEF StampReceipt
  <2>3. Shaped(call'[a])
    BY <2>1, GoesShaped DEF StampReceiptIs
  <2>4. IdsOnce'
    <3>1. \A q \in WithReceipt(call[a]) : \E p \in invoice.payments :
             /\ q.id = p.id
             /\ q = IF p.ref = call[a].req /\ p.receipt = NoNumber
                    THEN [p EXCEPT !.receipt = call[a].number] ELSE p
      BY <2>1, WithReceiptIs DEF StampReceiptIs
    <3>2. invoice'.payments = WithReceipt(call[a])
      BY <2>1 DEF StampReceiptIs
    <3> HIDE DEF Asking
    <3>3. \A p \in invoice'.payments : p.id \in used
      BY <3>1, <3>2 DEF Shape, IdsOnce
    <3>4. ASSUME NEW q1 \in invoice'.payments, NEW q2 \in invoice'.payments, q1.id = q2.id
          PROVE  q1 = q2
      BY <3>1, <3>2, <3>4 DEF Shape, IdsOnce
    <3>5. used' = used /\ IsFiniteSet(used)
      BY <2>2 DEF Shape, IdsOnce
    <3>6. IsFiniteSet(used')
      BY <3>5
    <3> QED
      BY <3>3, <3>4, <3>5, <3>6 DEF IdsOnce
  <2> QED
    BY <2>1, <2>2, <2>3, <2>4, CallsAndInvoice DEF StampReceiptIs, Goes, Shape, TypeOK
<1>3. ASSUME Mark(a) PROVE Shape'
  <2>1. MarkIs(a)
    BY <1>3, MarkStep
  <2>2. UNCHANGED <<invoice, used, note, credited, recorded, minted, faults, raced, crossed>>
    BY <1>3 DEF Mark
  <2>3. RequestShape' /\ Standing
    <3>1. request[call[a].req].status # "absent"
      BY <2>1 DEF MarkIs, Ends, Shape, CallShape, Shaped
    <3> QED
      BY <2>1, <3>1 DEF MarkIs, Shape, RequestShape, Standing
  <2> QED
    BY <2>1, <2>2, <2>3, CallsAndRequests DEF MarkIs, Ends
<1> QED
  BY <1>1, <1>2, <1>3

LEMMA ShapeFault == ASSUME Shape, NEW a \in Actors, Die(a) \/ Throw(a) PROVE Shape'
<1>1. ASSUME Die(a) PROVE Shape'
  <2>1. UNCHANGED <<invoice, used, note, credited, request, recorded, minted, raced, crossed>>
    BY <1>1 DEF Die
  <2>2. faults' \in 0..MaxFaults
    BY <1>1, BoundsAssumption DEF Die, Shape, TypeOK
  <2> QED
    BY <1>1, <2>1, <2>2, DieStep, EndsShaped DEF Shape, TypeOK
<1>2. ASSUME Throw(a) PROVE Shape'
  <2>1. UNCHANGED <<invoice, used, note, credited, request, recorded, minted, raced, crossed>>
    BY <1>2 DEF Throw
  <2>2. faults' \in 0..MaxFaults
    BY <1>2, BoundsAssumption DEF Throw, Shape, TypeOK
  <2> QED
    BY <1>2, <2>1, <2>2, ThrowStep, GoesOn DEF Shape, TypeOK, Asking
<1> QED
  BY <1>1, <1>2

\* The steps that begin and end at once.
LEMMA ShapeAtOnce ==
    ASSUME Shape, \/ Void \/ Restore \/ Issue \/ VoidNote
                  \/ \E r \in Requests : Reject(r) \/ \E amount \in Amounts : Intake(r, amount)
    PROVE  Shape'
<1>1. ASSUME Void PROVE Shape'
  BY <1>1 DEF Void, Shape, TypeOK, Invoice, CallShape, Shaped, RequestShape, IdsOnce, Together
<1>2. ASSUME Restore PROVE Shape'
  <2>1. invoice \in Invoice /\ invoice.total - invoice.paid \in Int
    BY InvoiceInts DEF Shape, TypeOK
  <2>2. invoice' \in Invoice /\ invoice'.payments = invoice.payments
    BY <1>2, <2>1 DEF Restore, Invoice
  <2>3. raced' \in BOOLEAN
    BY <1>2 DEF Restore, Together, Shape, TypeOK
  <2>4. UNCHANGED <<used, note, credited, request, recorded, minted, call, faults, crossed>>
    BY <1>2 DEF Restore
  <2> QED
    BY <2>2, <2>3, <2>4 DEF Shape, TypeOK, CallShape, Shaped, RequestShape, IdsOnce
<1>3. ASSUME Issue PROVE Shape'
  BY <1>3 DEF Issue, Shape, TypeOK, Note, CallShape, Shaped, RequestShape, IdsOnce
<1>4. ASSUME VoidNote PROVE Shape'
  BY <1>4 DEF VoidNote, Shape, TypeOK, Note, CallShape, Shaped, RequestShape, IdsOnce, Together
<1>5. ASSUME NEW r \in Requests, Reject(r) PROVE Shape'
  BY <1>5 DEF Reject, Shape, TypeOK, Request, CallShape, Shaped, RequestShape, IdsOnce, Together
<1>6. ASSUME NEW r \in Requests, NEW amount \in Amounts, Intake(r, amount) PROVE Shape'
  <2>1. amount \in 0..Total
    BY AmountsAssumption DEF Amounts
  <2> QED
    BY <1>6, <2>1
    DEF Intake, Shape, TypeOK, Request, CallShape, Shaped, RequestShape, IdsOnce
<1> QED
  BY <1>1, <1>2, <1>3, <1>4, <1>5, <1>6

LEMMA ShapeInit == Init => Shape
<1> SUFFICES ASSUME Init PROVE Shape
  OBVIOUS
<1>1. invoice \in Invoice
  BY AmountsAssumption DEF Init, Invoice, Amounts
<1>2. request \in [Requests -> Request]
  BY AmountsAssumption DEF Init, Request, NoNumber
<1>3. TypeOK
  <2>1. call \in [Actors -> Call \cup {Idle}]
    BY DEF Init
  <2>2. note \in Note /\ minted \in Nat /\ credited \in Int /\ faults \in 0..MaxFaults
    BY BoundsAssumption DEF Init, Note, NoNumber
  <2> QED
    BY <1>1, <1>2, <2>1, <2>2 DEF Init, TypeOK
<1>4. CallShape /\ RequestShape
  BY DEF Init, CallShape, RequestShape
<1>5. IdsOnce
  BY FS_EmptySet DEF Init, IdsOnce
<1> QED
  BY <1>3, <1>4, <1>5 DEF Shape

LEMMA ShapeNext == Shape /\ [Next]_vars => Shape'
<1> SUFFICES ASSUME Shape, [Next]_vars PROVE Shape'
  OBVIOUS
<1>1. ASSUME NEW a \in Actors, Start(a) PROVE Shape'
  BY <1>1, ShapeStart
<1>2. ASSUME NEW a \in Actors, Continue(a) PROVE Shape'
  BY <1>2, ShapeMoney, ShapeCredit, ShapeApproval, ShapeReceipt DEF Continue
<1>3. ASSUME NEW a \in Actors, Die(a) \/ Throw(a) PROVE Shape'
  BY <1>3, ShapeFault
<1>4. CASE UNCHANGED vars
  BY <1>4 DEF vars, Shape, TypeOK, CallShape, Shaped, RequestShape, IdsOnce
<1> QED
  BY <1>1, <1>2, <1>3, <1>4, ShapeAtOnce DEF Next

LEMMA AlwaysShape == Spec => []Shape
<1>1. Init => Shape
  BY ShapeInit
<1>2. Shape /\ [Next]_vars => Shape'
  BY ShapeNext
<1> QED
  BY <1>1, <1>2, PTL DEF Spec

\* Whatever the total, the requests and the calls, every state is one of the
\* types; a bound is never passed.
THEOREM TypeCorrect == Spec => []TypeOK
<1>1. Shape => TypeOK
  BY DEF Shape
<1> QED
  BY <1>1, AlwaysShape, PTL
----------------------------------------------------------------------------
(* Second round: a request is on the invoice once.  Only its holder records *)
(* it: claiming it is a single conditional write, and the claim is given    *)
(* up by its holder only.                                                   *)

Holding == {"read", "save", "back", "unset"}
Past == {"back", "receipt", "stamp", "mark"}

\* What a call knows of the request it is for.
Knows(c) ==
    c.req \in Requests =>
        /\ c.at \in Holding => request[c.req].claimed
        /\ c.at = "save" => ~OnInvoice(c.req)
        /\ c.at \in Past => c.req \in recorded

CallsKnow == \A a \in Actors : call[a] # Idle => Knows(call[a])

OneHolder == \A a, b \in Actors :
    (/\ call[a].at \in Holding /\ call[b].at \in Holding
     /\ call[a].req = call[b].req /\ call[a].req \in Requests)
    => a = b

OnceOnInvoice == \A p, q \in invoice.payments : p.ref = q.ref /\ p.ref # None => p = q

OnlyRecorded == \A p \in invoice.payments : p.ref # None => p.ref \in recorded

Promises == CallsKnow /\ OneHolder /\ OnceOnInvoice /\ OnlyRecorded

NoNewRefs == \A q \in invoice'.payments : \E p \in invoice.payments : p.id = q.id /\ p.ref = q.ref

StillClaimed == \A r \in Requests : request[r].claimed => request'[r].claimed

HeldAlready(a) ==
    call'[a].at \in Holding /\ call'[a].req \in Requests =>
        call[a].at \in Holding /\ call[a].req = call'[a].req

SamePayments == invoice'.payments = invoice.payments

LEMMA SamePaymentsSameRefs == ASSUME SamePayments PROVE NoNewRefs
BY DEF SamePayments, NoNewRefs

LEMMA PaymentsStayOnce ==
    ASSUME Shape', Promises, NoNewRefs, recorded \subseteq recorded'
    PROVE  /\ OnceOnInvoice' /\ OnlyRecorded'
           /\ \A r \in Requests : OnInvoice(r)' => OnInvoice(r)
<1>1. ASSUME NEW q1 \in invoice'.payments, NEW q2 \in invoice'.payments,
             q1.ref = q2.ref, q1.ref # None
      PROVE  q1 = q2
  <2>1. PICK p1 \in invoice.payments : p1.id = q1.id /\ p1.ref = q1.ref
    BY DEF NoNewRefs
  <2>2. PICK p2 \in invoice.payments : p2.id = q2.id /\ p2.ref = q2.ref
    BY DEF NoNewRefs
  <2>3. p1 = p2
    BY <1>1, <2>1, <2>2 DEF Promises, OnceOnInvoice
  <2> QED
    BY <2>1, <2>2, <2>3 DEF Shape, IdsOnce
<1>2. OnlyRecorded'
  BY DEF NoNewRefs, Promises, OnlyRecorded
<1>3. \A r \in Requests : OnInvoice(r)' => OnInvoice(r)
  BY DEF NoNewRefs, OnInvoice
<1> QED
  BY <1>1, <1>2, <1>3 DEF OnceOnInvoice

\* What most steps come to: a call goes on, and no request is put on the invoice.
LEMMA PromisesStep ==
    ASSUME Shape', Promises, NEW a \in Actors, OthersKept(a), NoNewRefs, StillClaimed,
           recorded' = recorded, call'[a] # Idle => Knows(call'[a]), HeldAlready(a)
    PROVE  Promises'
<1>1. /\ OnceOnInvoice' /\ OnlyRecorded'
      /\ \A r \in Requests : OnInvoice(r)' => OnInvoice(r)
  BY PaymentsStayOnce
<1>2. CallsKnow'
  <2>1. ASSUME NEW b \in Actors, call'[b] # Idle PROVE Knows(call'[b])
    <3>1. CASE b = a
      BY <2>1, <3>1
    <3>2. CASE b # a
      BY <2>1, <3>2 DEF OthersKept, Kept, Promises, CallsKnow, Knows
    <3> QED
      BY <3>1, <3>2
  <2>2. ASSUME NEW b \in Actors, call'[b] # Idle PROVE Knows(call[b])'
    <3>1. Knows(call'[b])
      BY <2>1, <2>2
    <3> QED
      BY <1>1, <3>1 DEF Knows, StillClaimed
  <2> QED
    BY <2>2 DEF CallsKnow
<1>3. OneHolder'
  <2>1. \A b \in Actors : call'[b].at \in Holding /\ call'[b].req \in Requests =>
           call[b].at \in Holding /\ call[b].req = call'[b].req
    BY DEF OthersKept, Kept, HeldAlready, Idle, Holding
  <2> QED
    BY <2>1 DEF OneHolder, Promises
<1> QED
  BY <1>1, <1>2, <1>3 DEF Promises

LEMMA PromisesAtOnce ==
    ASSUME Promises, call' = call, SamePayments, StillClaimed, recorded' = recorded
    PROVE  Promises'
<1>1. OneHolder' /\ OnceOnInvoice' /\ OnlyRecorded'
  BY DEF Promises, OneHolder, OnceOnInvoice, OnlyRecorded, SamePayments
<1>2. CallsKnow'
  BY DEF Promises, CallsKnow, Knows, SamePayments, StillClaimed, OnInvoice
<1> QED
  BY <1>1, <1>2 DEF Promises

LEMMA PromisesStarts ==
    ASSUME Shape', Promises, NEW a \in Actors, NEW at, NEW req, NEW id, NEW amount, NEW doc, NEW with,
           Starts(a, at, req, id, amount, doc, with), req = None \/ at = "weigh",
           UNCHANGED <<invoice, request, recorded>>
    PROVE  Promises'
<1>1. NoNewRefs /\ StillClaimed /\ OthersKept(a)
  BY SamePaymentsSameRefs DEF SamePayments, StillClaimed, Starts
<1>2. Knows(call'[a]) /\ HeldAlready(a)
  BY NoneAssumption DEF Starts, Knows, HeldAlready, Holding, Past
<1> QED
  BY <1>1, <1>2, PromisesStep

LEMMA PromisesStart == ASSUME Shape, Shape', Promises, NEW a \in Actors, Start(a) PROVE Promises'
<1>1. ASSUME NEW amount \in Amounts, Record(a, amount) PROVE Promises'
  BY <1>1, RecordStep, PromisesStarts DEF Record
<1>2. ASSUME NEW p \in invoice.payments, NEW amount \in Amounts, Edit(a, p, amount)
      PROVE  Promises'
  BY <1>2, EditStep, PromisesStarts DEF Edit
<1>3. ASSUME NEW p \in invoice.payments, Remove(a, p) PROVE Promises'
  BY <1>3, RemoveStep, PromisesStarts DEF Remove
<1>4. ASSUME NEW total \in Amounts, Amend(a, total) PROVE Promises'
  BY <1>4, AmendStep, PromisesStarts DEF Amend
<1>5. ASSUME Send(a) PROVE Promises'
  BY <1>5, SendStep, PromisesStarts DEF Send
<1>6. ASSUME Apply(a) PROVE Promises'
  BY <1>6, ApplyStep, PromisesStarts DEF Apply
<1>7. ASSUME NEW r \in Requests, Approve(a, r) PROVE Promises'
  BY <1>7, ApproveStep, PromisesStarts DEF Approve
<1> QED
  BY <1>1, <1>2, <1>3, <1>4, <1>5, <1>6, <1>7 DEF Start

\* Only a holder of the request records it, so nobody else had.
LEMMA PromisesRecorded ==
    ASSUME Shape, Shape', Promises, NEW a \in Actors, SaveRecorded(a) PROVE Promises'
<1>1. PICK id \in Ids : RecordedAs(a, id)
  BY SaveRecordedStep
<1> DEFINE r == call[a].req
           new == PaymentOf(call[a], id)
<1>2. /\ call[a] # Idle /\ call[a].at = "save" /\ r \in Requests \cup {None}
      /\ new.ref = r /\ new.id = id /\ id \notin used
      /\ invoice'.payments = invoice.payments \cup {new}
      /\ recorded' = recorded \cup ({r} \ {None}) /\ OthersKept(a)
      /\ r = None => call'[a] = Idle
      /\ r # None => call'[a] # Idle /\ call'[a].at = "back" /\ call'[a].req = r
  BY <1>1 DEF RecordedAs, Saved, PaymentOf, Call
<1>3. request' = request
  BY DEF SaveRecorded
<1>4. r # None => ~OnInvoice(r) /\ request[r].claimed
  BY <1>2 DEF Promises, CallsKnow, Knows, Holding
<1> HIDE DEF new
<1>5. OnceOnInvoice'
  BY <1>2, <1>4 DEF Promises, OnceOnInvoice, OnInvoice
<1>6. OnlyRecorded'
  BY <1>2 DEF Promises, OnlyRecorded
<1>7. OneHolder'
  <2>1. \A b \in Actors : call'[b].at \in Holding /\ call'[b].req \in Requests =>
           call[b].at \in Holding /\ call[b].req = call'[b].req
    BY <1>2, NoneAssumption DEF OthersKept, Kept, Idle, Holding
  <2> QED
    BY <2>1 DEF OneHolder, Promises
<1>8. CallsKnow'
  <2>1. ASSUME NEW b \in Actors, call'[b] # Idle PROVE Knows(call[b])'
    <3>1. CASE b = a
      BY <1>2, <1>3, <1>4, <2>1, <3>1 DEF Knows, Holding, Past
    <3>2. CASE b # a
      <4>1. /\ Knows(call[b]) /\ call[b] # Idle /\ call'[b].at = call[b].at
            /\ call'[b].req = call[b].req
        BY <1>2, <2>1, <3>2 DEF OthersKept, Kept, Promises, CallsKnow
      <4>2. call[b].at = "save" /\ call[b].req \in Requests => call[b].req # r
        BY <1>2, <3>2 DEF Promises, OneHolder, Holding
      <4>3. call[b].at = "save" /\ call[b].req \in Requests => ~OnInvoice(call[b].req)'
        BY <1>2, <4>1, <4>2 DEF Knows, OnInvoice
      <4> QED
        BY <1>2, <1>3, <4>1, <4>3 DEF Knows
    <3> QED
      BY <3>1, <3>2
  <2> QED
    BY <2>1 DEF CallsKnow
<1> QED
  BY <1>5, <1>6, <1>7, <1>8 DEF Promises

LEMMA PromisesMoney ==
    ASSUME Shape, Shape', Promises, NEW a \in Actors,
           SaveEdit(a) \/ SaveRemove(a) \/ SaveAmend(a) \/ SaveSend(a)
    PROVE  Promises'
<1>1. call'[a] = Idle /\ OthersKept(a)
  BY SaveEditStep, SaveRemoveStep, SaveAmendStep, SaveSendStep DEF Ends, SaveSendIs
<1>2. HeldAlready(a)
  BY <1>1 DEF HeldAlready, Idle, Holding
<1>3. StillClaimed /\ recorded' = recorded
  BY DEF SaveEdit, SaveRemove, SaveAmend, SaveSend, StillClaimed
<1>4. NoNewRefs
  <2>1. ASSUME SaveEdit(a) PROVE NoNewRefs
    <3>1. SamePayments \/ invoice'.payments = Edited(call[a])
      BY <2>1, SaveEditStep DEF Saved, SamePayments
    <3>2. call[a] \in Call /\ call[a].amount \in Amounts
      BY <2>1, SaveEditStep
    <3>3. \A q \in Edited(call[a]) : \E p \in invoice.payments : p.id = q.id /\ p.ref = q.ref
      BY <3>2, EditedIs
    <3> QED
      BY <3>1, <3>3, SamePaymentsSameRefs DEF NoNewRefs
  <2>2. ASSUME SaveRemove(a) PROVE NoNewRefs
    <3>1. invoice'.payments = Left(invoice.payments, call[a])
      BY <2>2, SaveRemoveStep DEF Saved
    <3> QED
      BY <3>1 DEF Left, NoNewRefs
  <2>3. ASSUME SaveAmend(a) \/ SaveSend(a) PROVE NoNewRefs
    <3>1. SamePayments
      BY <2>3, SaveAmendStep, SaveSendStep DEF Saved, SaveSendIs, SamePayments
    <3> QED
      BY <3>1, SamePaymentsSameRefs
  <2> QED
    BY <2>1, <2>2, <2>3
<1> QED
  BY <1>1, <1>2, <1>3, <1>4, PromisesStep

LEMMA PromisesCredit ==
    ASSUME Shape, Shape', Promises, NEW a \in Actors, Target(a) \/ ApplySave(a) \/ Count(a)
    PROVE  Promises'
<1>1. /\ OthersKept(a) /\ call[a] # Idle /\ call[a].at \in {"target", "apply", "count"}
      /\ call'[a] # Idle => call'[a].req = call[a].req
  <2>1. ASSUME Target(a) PROVE <1>1!:
    BY <2>1, TargetStep DEF TargetIs, Ends
  <2>2. ASSUME ApplySave(a) PROVE <1>1!:
    BY <2>2, ApplySaveStep DEF ApplySaveIs, Goes
  <2>3. ASSUME Count(a) PROVE <1>1!:
    BY <2>3, CountStep DEF Ends
  <2> QED
    BY <2>1, <2>2, <2>3
<1>2. call[a].req = None
  BY <1>1 DEF Shape, CallShape, Shaped, Asking
<1>3. (call'[a] # Idle => Knows(call'[a])) /\ HeldAlready(a)
  BY <1>1, <1>2, NoneAssumption DEF Knows, HeldAlready, Idle, Holding
<1>4. SamePayments
  BY ApplySaveStep DEF Target, Count, ApplySaveIs, Saved, SamePayments
<1>5. StillClaimed /\ recorded' = recorded
  BY DEF Target, ApplySave, Count, StillClaimed
<1> QED
  BY <1>1, <1>3, <1>4, <1>5, SamePaymentsSameRefs, PromisesStep
\* The call goes on, knowing no less.
LEMMA PromisesGoes ==
    ASSUME Shape', Promises, NEW a \in Actors, NEW at, Goes(a, at) \/ Ends(a),
           at \in Holding => call[a].at \in Holding,
           at = "save" => ~OnInvoice(call[a].req),
           at \in Past => call[a].req \in recorded,
           NoNewRefs, StillClaimed, recorded' = recorded
    PROVE  Promises'
<1>1. CASE Ends(a)
  BY <1>1, PromisesStep DEF Ends, HeldAlready, Idle, Holding
<1>2. CASE Goes(a, at)
  <2>1. OthersKept(a) /\ HeldAlready(a)
    BY <1>2 DEF Goes, HeldAlready
  <2>2. Knows(call'[a])
    BY <1>2 DEF Goes, Promises, CallsKnow, Knows
  <2> QED
    BY <2>1, <2>2, PromisesStep
<1> QED
  BY <1>1, <1>2

LEMMA PromisesApproval ==
    ASSUME Shape, Shape', Promises, NEW a \in Actors,
           Weigh(a) \/ ReadToRecord(a) \/ Back(a) \/ Receipt(a) \/ Die(a) \/ Throw(a)
    PROVE  Promises'
<1>1. StillClaimed /\ recorded' = recorded /\ NoNewRefs
  <2>1. UNCHANGED <<invoice, request, recorded>>
    BY DEF Weigh, ReadToRecord, Back, Receipt, Die, Throw
  <2> QED
    BY <2>1, SamePaymentsSameRefs DEF StillClaimed, SamePayments
<1>2. \A r \in Requests : OnInvoice(r) => r \in recorded
  BY NoneAssumption DEF OnInvoice, Promises, OnlyRecorded
<1>3. ASSUME Weigh(a) PROVE Promises'
  <2>1. \/ Goes(a, "receipt") /\ call[a].req \in recorded
        \/ Goes(a, "claim")
        \/ Ends(a)
    BY <1>2, <1>3, WeighStep
  <2> QED
    BY <1>1, <2>1, PromisesGoes DEF Holding, Past
<1>4. ASSUME ReadToRecord(a) PROVE Promises'
  <2>1. /\ call[a].at \in Holding
        /\ \/ Goes(a, "receipt") /\ call[a].req \in recorded
           \/ Goes(a, "save") /\ ~OnInvoice(call[a].req)
           \/ Goes(a, "unset")
    BY <1>2, <1>4, ReadToRecordStep DEF ReadToRecordIs, Holding
  <2> QED
    BY <1>1, <2>1, PromisesGoes DEF Holding, Past
<1>5. ASSUME Back(a) PROVE Promises'
  <2>1. Goes(a, "receipt") /\ call[a].at = "back" /\ call[a].req \in Requests
    BY <1>5, BackStep
  <2>2. call[a].req \in recorded
    BY <2>1 DEF Goes, Promises, CallsKnow, Knows, Past
  <2> QED
    BY <1>1, <2>1, <2>2, PromisesGoes DEF Holding, Past
<1>6. ASSUME Receipt(a) PROVE Promises'
  <2>1. /\ call[a].at = "receipt" /\ call[a].req \in Requests
        /\ Goes(a, "mark") \/ Goes(a, "stamp") \/ Ends(a)
    BY <1>6, ReceiptStep DEF ReceiptIs
  <2>2. call[a].req \in recorded
    BY <2>1 DEF Goes, Ends, Promises, CallsKnow, Knows, Past
  <2> QED
    BY <1>1, <2>1, <2>2, PromisesGoes DEF Holding, Past
<1>7. ASSUME Die(a) PROVE Promises'
  <2>1. Ends(a)
    BY <1>7, DieStep
  <2> QED
    BY <1>1, <2>1, PromisesGoes, "idle" \notin Holding \cup Past DEF Holding, Past
<1>8. ASSUME Throw(a) PROVE Promises'
  <2>1. Goes(a, "unset") /\ call[a].at \in Holding
    BY <1>8, ThrowStep DEF Holding
  <2> QED
    BY <1>1, <2>1, PromisesGoes DEF Holding, Past
<1> QED
  BY <1>3, <1>4, <1>5, <1>6, <1>7, <1>8

\* One call claims a request nobody holds, in one conditional write.
LEMMA PromisesClaim ==
    ASSUME Shape, Shape', Promises, NEW a \in Actors, Claim(a) PROVE Promises'
<1> DEFINE r == call[a].req
<1>1. ClaimIs(a)
  BY ClaimStep
<1>2. UNCHANGED <<invoice, recorded>>
  BY DEF Claim
<1>3. NoNewRefs
  BY <1>2, SamePaymentsSameRefs DEF SamePayments
<1>4. CASE request' = request /\ Ends(a)
  BY <1>2, <1>3, <1>4, PromisesGoes, "idle" \notin Holding \cup Past DEF Holding, Past, StillClaimed
<1>5. CASE ~request[r].claimed /\ request' = [request EXCEPT ![r].claimed = TRUE] /\ Goes(a, "read")
  <2>1. r \in Requests /\ call'[a].req = r /\ call'[a].at = "read" /\ OthersKept(a)
    BY <1>1, <1>5 DEF ClaimIs, Goes
  <2>2. \A s \in Requests : request[s].claimed \/ s = r => request'[s].claimed
    BY <1>5, <2>1 DEF Shape, TypeOK, Request
  <2>3. \A b \in Actors : call[b].at \in Holding => call[b].req # r
    BY <1>5, <2>1 DEF Promises, CallsKnow, Knows, Idle, Holding
  <2>4. OneHolder'
    BY <2>1, <2>3 DEF OneHolder, Promises, OthersKept, Kept, Idle, Holding
  <2>5. OnceOnInvoice' /\ OnlyRecorded' /\ (\A s \in Requests : OnInvoice(s)' => OnInvoice(s))
    BY <1>2, <1>3, PaymentsStayOnce
  <2>6. CallsKnow'
    <3>1. ASSUME NEW b \in Actors, call'[b] # Idle PROVE Knows(call[b])'
      <4>1. CASE b = a
        BY <2>1, <2>2, <4>1 DEF Knows, Past
      <4>2. CASE b # a
        <5>1. Knows(call[b]) /\ call'[b].at = call[b].at /\ call'[b].req = call[b].req
          BY <2>1, <3>1, <4>2 DEF OthersKept, Kept, Promises, CallsKnow
        <5> QED
          BY <1>2, <2>2, <2>5, <5>1 DEF Knows
      <4> QED
        BY <4>1, <4>2
    <3> QED
      BY <3>1 DEF CallsKnow
  <2> QED
    BY <2>4, <2>5, <2>6 DEF Promises
<1> QED
  BY <1>1, <1>4, <1>5 DEF ClaimIs

\* The claim is given up by the call that holds it, and no other holds it.
LEMMA PromisesUnset ==
    ASSUME Shape, Shape', Promises, NEW a \in Actors, Unset(a) PROVE Promises'
<1> DEFINE r == call[a].req
<1>1. UnsetIs(a) /\ call[a] # Idle /\ call'[a] = Idle /\ OthersKept(a) /\ r \in Requests
  BY UnsetStep DEF UnsetIs, Ends
<1>2. UNCHANGED <<invoice, recorded>>
  BY DEF Unset
<1>3. NoNewRefs
  BY <1>2, SamePaymentsSameRefs DEF SamePayments
<1>4. OnceOnInvoice' /\ OnlyRecorded' /\ (\A s \in Requests : OnInvoice(s)' => OnInvoice(s))
  BY <1>2, <1>3, PaymentsStayOnce
<1>5. \A s \in Requests : s # r /\ request[s].claimed => request'[s].claimed
  BY <1>1 DEF UnsetIs, Shape, TypeOK, Request
<1>6. OneHolder'
  BY <1>1 DEF OneHolder, Promises, OthersKept, Kept, Idle, Holding
<1>7. CallsKnow'
  <2>1. ASSUME NEW b \in Actors, call'[b] # Idle PROVE Knows(call[b])'
    <3>1. /\ b # a /\ Knows(call[b]) /\ call'[b].at = call[b].at /\ call'[b].req = call[b].req
      BY <1>1, <2>1 DEF OthersKept, Kept, Promises, CallsKnow
    <3>2. call[b].at \in Holding => call[b].req # r
      BY <1>1, <3>1 DEF UnsetIs, Promises, OneHolder, Holding
    <3> QED
      BY <1>2, <1>4, <1>5, <3>1, <3>2 DEF Knows
  <2> QED
    BY <2>1 DEF CallsKnow
<1> QED
  BY <1>4, <1>6, <1>7 DEF Promises

LEMMA PromisesReceipt ==
    ASSUME Shape, Shape', Promises, NEW a \in Actors, StampReceipt(a) \/ Mark(a) PROVE Promises'
<1>1. ASSUME StampReceipt(a) PROVE Promises'
  <2>1. StampReceiptIs(a)
    BY <1>1, StampReceiptStep
  <2>2. request' = request /\ recorded' = recorded
    BY <1>1 DEF StampReceipt
  <2>3. \A q \in WithReceipt(call[a]) : \E p \in invoice.payments : q.id = p.id /\ q.ref = p.ref
    BY <2>1, WithReceiptIs DEF StampReceiptIs
  <2>4. NoNewRefs
    BY <2>1, <2>3 DEF StampReceiptIs, NoNewRefs
  <2>5. Goes(a, "mark") /\ call[a].req \in recorded
    BY <2>1 DEF StampReceiptIs, Goes, Promises, CallsKnow, Knows, Past
  <2> QED
    BY <2>2, <2>4, <2>5, PromisesGoes DEF StillClaimed, Holding, Past
<1>2. ASSUME Mark(a) PROVE Promises'
  <2>1. MarkIs(a)
    BY <1>2, MarkStep
  <2>2. UNCHANGED <<invoice, recorded>>
    BY <1>2 DEF Mark
  <2>3. StillClaimed
    BY <2>1 DEF MarkIs, StillClaimed
  <2>4. NoNewRefs
    BY <2>2, SamePaymentsSameRefs DEF SamePayments
  <2> QED
    BY <2>1, <2>2, <2>3, <2>4, PromisesGoes, "idle" \notin Holding \cup Past
    DEF MarkIs, Holding, Past
<1> QED
  BY <1>1, <1>2

LEMMA PromisesNext == Shape /\ Shape' /\ Promises /\ [Next]_vars => Promises'
<1> SUFFICES ASSUME Shape, Shape', Promises, [Next]_vars PROVE Promises'
  OBVIOUS
<1>1. ASSUME NEW a \in Actors, Start(a) PROVE Promises'
  BY <1>1, PromisesStart
<1>2. ASSUME NEW a \in Actors, Continue(a) PROVE Promises'
  BY <1>2, PromisesRecorded, PromisesMoney, PromisesCredit, PromisesApproval, PromisesClaim,
     PromisesUnset, PromisesReceipt DEF Continue
<1>3. ASSUME NEW a \in Actors, Die(a) \/ Throw(a) PROVE Promises'
  BY <1>3, PromisesApproval
<1>4. ASSUME Void \/ Restore \/ Issue \/ VoidNote \/ UNCHANGED vars PROVE Promises'
  <2>1. request' = request /\ recorded' = recorded /\ call' = call /\ SamePayments
    BY <1>4 DEF Void, Restore, Issue, VoidNote, vars, SamePayments, Shape, TypeOK, Invoice
  <2> QED
    BY <2>1, PromisesAtOnce DEF StillClaimed
<1>5. ASSUME NEW r \in Requests, Reject(r) \/ \E amount \in Amounts : Intake(r, amount)
      PROVE  Promises'
  <2>1. recorded' = recorded /\ call' = call /\ SamePayments
    BY <1>5 DEF Reject, Intake, SamePayments
  <2>2. StillClaimed
    BY <1>5 DEF Reject, Intake, StillClaimed, Shape, TypeOK, Request
  <2> QED
    BY <2>1, <2>2, PromisesAtOnce
<1> QED
  BY <1>1, <1>2, <1>3, <1>4, <1>5 DEF Next

LEMMA PromisesInit == Init => Promises
BY DEF Init, Promises, CallsKnow, OneHolder, OnceOnInvoice, OnlyRecorded, Idle, Holding

LEMMA AlwaysPromises == Spec => [](Shape /\ Promises)
<1>1. Init => Shape /\ Promises
  BY ShapeInit, PromisesInit
<1>2. Shape /\ Promises /\ [Next]_vars => (Shape /\ Promises)'
  BY ShapeNext, PromisesNext
<1> QED
  BY <1>1, <1>2, PTL DEF Spec
(* Each step is one of SettledRequests, or changes nothing it looks at. *)

Answer == [r \in Requests |-> request[r].status]
Counted == [r \in Requests |-> Cardinality({p \in invoice.payments : p.ref = r})]

\* A payment of a request is there once, so counting them is looking for one.
LEMMA CountOfOne ==
    ASSUME NEW payments, NEW r, \A p, q \in payments : p.ref = r /\ q.ref = r => p = q
    PROVE  Cardinality({p \in payments : p.ref = r})
             = IF \E p \in payments : p.ref = r THEN 1 ELSE 0
<1> DEFINE mine == {p \in payments : p.ref = r}
<1>1. CASE mine = {}
  <2>1. Cardinality(mine) = 0
    BY <1>1, FS_EmptySet
  <2> QED
    BY <1>1, <2>1
<1>2. ASSUME NEW p \in mine PROVE Cardinality(mine) = 1 /\ \E q \in payments : q.ref = r
  <2>1. mine = {p}
    OBVIOUS
  <2>2. Cardinality({p}) = 1
    BY FS_Singleton
  <2> QED
    BY <2>1, <2>2
<1> QED
  BY <1>1, <1>2

LEMMA CountedIs == Promises => Counted = [r \in Requests |-> IF OnInvoice(r) THEN 1 ELSE 0]
<1> SUFFICES ASSUME Promises
             PROVE  \A r \in Requests : Cardinality({p \in invoice.payments : p.ref = r})
                                          = IF OnInvoice(r) THEN 1 ELSE 0
  BY DEF Counted
<1> TAKE r \in Requests
<1>1. \A p, q \in invoice.payments : p.ref = r /\ q.ref = r => p = q
  BY NoneAssumption DEF Promises, OnceOnInvoice
<1> QED
  BY <1>1, CountOfOne DEF OnInvoice

LEMMA CountedNext ==
    (Promises => Counted = [r \in Requests |-> IF OnInvoice(r) THEN 1 ELSE 0])'
BY CountedIs, PTL

Settles == \/ UNCHANGED <<Answer, Counted, recorded>>
           \/ \E r \in Requests :
                \/ /\ Answer[r] = "absent" /\ Answer' = [Answer EXCEPT ![r] = "pending"]
                   /\ UNCHANGED <<Counted, recorded>>
                \/ /\ Answer[r] # "absent" /\ Counted[r] = 0 /\ Counted' = [Counted EXCEPT ![r] = 1]
                   /\ recorded' = recorded \cup {r} /\ UNCHANGED Answer
                \/ /\ Counted[r] = 1 /\ Counted' = [Counted EXCEPT ![r] = 0]
                   /\ UNCHANGED <<Answer, recorded>>
                \/ /\ r \in recorded /\ Answer' = [Answer EXCEPT ![r] = "approved"]
                   /\ UNCHANGED <<Counted, recorded>>
                \/ /\ Answer[r] = "pending" /\ Answer' = [Answer EXCEPT ![r] = "rejected"]
                   /\ UNCHANGED <<Counted, recorded>>

LEMMA SettlesIs == Settles => [Settled!Next]_Settled!vars
BY DEF Settles, Answer, Counted, Settled!Next, Settled!vars, Settled!Receive, Settled!Record,
       Settled!TakeOff, Settled!Approve, Settled!Reject

SameAnswers == \A r \in Requests : request'[r].status = request[r].status
SameOnInvoice == \A r \in Requests : OnInvoice(r)' <=> OnInvoice(r)

LEMMA CountedSame ==
    ASSUME Promises, Promises', SameOnInvoice PROVE Counted' = Counted
<1>1. Counted = [r \in Requests |-> IF OnInvoice(r) THEN 1 ELSE 0]
  BY CountedIs
<1> QED
  BY <1>1, CountedNext DEF SameOnInvoice

LEMMA SamePaymentsOnInvoice == ASSUME SamePayments PROVE SameOnInvoice
BY DEF SamePayments, SameOnInvoice, OnInvoice

\* A step that answers no request and puts none on the invoice or off it.
LEMMA SettlesNothing ==
    ASSUME Promises, Promises', SameAnswers, SameOnInvoice, recorded' = recorded PROVE Settles
<1>1. Counted' = Counted
  BY CountedSame
<1>2. Answer' = Answer
  BY DEF Answer, SameAnswers
<1> QED
  BY <1>1, <1>2 DEF Settles

LEMMA SettlesRecord ==
    ASSUME Shape, Promises, Promises', NEW a \in Actors, SaveRecorded(a) PROVE Settles
<1>1. PICK id \in Ids : RecordedAs(a, id)
  BY SaveRecordedStep
<1> DEFINE r == call[a].req
           new == PaymentOf(call[a], id)
<1>2. /\ call[a] # Idle /\ call[a].at = "save" /\ r \in Requests \cup {None} /\ new.ref = r
      /\ invoice'.payments = invoice.payments \cup {new}
      /\ recorded' = recorded \cup ({r} \ {None})
  BY <1>1 DEF RecordedAs, Saved, PaymentOf, Call
<1>3. Answer' = Answer
  BY DEF SaveRecorded, Answer
<1> HIDE DEF new
<1>4. \A s \in Requests : OnInvoice(s)' <=> OnInvoice(s) \/ s = r
  BY <1>2 DEF OnInvoice
<1>5. CASE r = None
  <2>1. SameOnInvoice
    BY <1>4, <1>5, NoneAssumption DEF SameOnInvoice
  <2>2. Counted' = Counted
    BY <2>1, CountedSame
  <2> QED
    BY <1>2, <1>3, <1>5, <2>2 DEF Settles
<1>6. CASE r # None
  <2>1. r \in Requests /\ ~OnInvoice(r) /\ recorded' = recorded \cup {r}
    BY <1>2, <1>6 DEF Promises, CallsKnow, Knows
  <2>2. Answer[r] # "absent"
    BY <1>2, <2>1 DEF Answer, Shape, CallShape, Shaped
  <2>3. Counted = [s \in Requests |-> IF OnInvoice(s) THEN 1 ELSE 0]
    BY CountedIs
  <2>5. Counted' = [s \in Requests |-> IF OnInvoice(s) \/ s = r THEN 1 ELSE 0]
    BY <1>4, CountedNext
  <2>6. Counted[r] = 0 /\ Counted' = [Counted EXCEPT ![r] = 1]
    BY <2>1, <2>3, <2>5
  <2> QED
    BY <1>3, <2>1, <2>2, <2>6 DEF Settles
<1> QED
  BY <1>5, <1>6

LEMMA SettlesRemove ==
    ASSUME Shape, Promises, Promises', NEW a \in Actors, SaveRemove(a) PROVE Settles
<1> DEFINE c == call[a]
<1>1. invoice'.payments = Left(invoice.payments, c)
  BY SaveRemoveStep DEF Saved
<1>2. request' = request /\ recorded' = recorded
  BY DEF SaveRemove
<1>3. Answer' = Answer
  BY <1>2 DEF Answer
<1>4. CASE \A p \in invoice.payments : p.id = c.id => p.ref = None
  <2>1. SameOnInvoice
    BY <1>1, <1>4, NoneAssumption DEF Left, SameOnInvoice, OnInvoice
  <2> QED
    BY <1>2, <2>1, SettlesNothing DEF SameAnswers
<1>5. ASSUME NEW p \in invoice.payments, p.id = c.id, p.ref # None PROVE Settles
  <2> DEFINE r == p.ref
  <2>1. r \in Requests
    BY <1>5 DEF Shape, TypeOK, Invoice, Payment
  <2>2. \A q \in invoice.payments : q.id = c.id <=> q = p
    BY <1>5 DEF Shape, IdsOnce
  <2>3. \A q \in invoice.payments : q.ref = r <=> q = p
    BY <1>5 DEF Promises, OnceOnInvoice
  <2>4. OnInvoice(r) /\ \A s \in Requests : OnInvoice(s)' <=> OnInvoice(s) /\ s # r
    BY <1>1, <1>5, <2>2, <2>3 DEF OnInvoice, Left
  <2>5. Counted = [s \in Requests |-> IF OnInvoice(s) THEN 1 ELSE 0]
    BY CountedIs
  <2>7. Counted' = [s \in Requests |-> IF OnInvoice(s) /\ s # r THEN 1 ELSE 0]
    BY <2>4, CountedNext
  <2>8. Counted[r] = 1 /\ Counted' = [Counted EXCEPT ![r] = 0]
    BY <2>1, <2>4, <2>5, <2>7
  <2> QED
    BY <1>2, <1>3, <2>1, <2>8 DEF Settles
<1> QED
  BY <1>4, <1>5

LEMMA SettlesRequest ==
    ASSUME Shape, Promises, Promises', NEW r \in Requests,
           \/ \E a \in Actors : Mark(a) /\ r = call[a].req
           \/ Reject(r) \/ \E amount \in Amounts : Intake(r, amount)
    PROVE  Settles
<1>1. SamePayments /\ recorded' = recorded
  BY DEF Mark, Reject, Intake, SamePayments
<1>2. Counted' = Counted
  BY <1>1, SamePaymentsOnInvoice, CountedSame
<1>3. ASSUME NEW a \in Actors, Mark(a), r = call[a].req PROVE Settles
  <2>1. MarkIs(a)
    BY <1>3, MarkStep
  <2>2. Answer' = [Answer EXCEPT ![r] = "approved"]
    BY <1>3, <2>1 DEF MarkIs, Answer
  <2>3. r \in recorded
    BY <1>3, <2>1 DEF MarkIs, Ends, Promises, CallsKnow, Knows, Past
  <2> QED
    BY <1>1, <1>2, <2>2, <2>3 DEF Settles
<1>4. ASSUME Reject(r) PROVE Settles
  <2>1. Answer[r] = "pending" /\ Answer' = [Answer EXCEPT ![r] = "rejected"]
    BY <1>4 DEF Reject, Answer, Shape, TypeOK, Request
  <2> QED
    BY <1>1, <1>2, <2>1 DEF Settles
<1>5. ASSUME NEW amount \in Amounts, Intake(r, amount) PROVE Settles
  <2>1. Answer[r] = "absent" /\ Answer' = [Answer EXCEPT ![r] = "pending"]
    BY <1>5 DEF Intake, Answer, Shape, TypeOK, Request
  <2> QED
    BY <1>1, <1>2, <2>1 DEF Settles
<1> QED
  BY <1>3, <1>4, <1>5

\* The payments edited and the receipts stamped stay of their requests.
LEMMA SettlesEdit ==
    ASSUME Shape, Promises, Promises', NEW a \in Actors, SaveEdit(a) \/ StampReceipt(a)
    PROVE  Settles
<1>1. SameAnswers /\ recorded' = recorded
  BY DEF SaveEdit, StampReceipt, SameAnswers
<1>2. SameOnInvoice
  <2>1. ASSUME SaveEdit(a) PROVE SameOnInvoice
    <3>1. SamePayments \/ invoice'.payments = Edited(call[a])
      BY <2>1, SaveEditStep DEF Saved, SamePayments
    <3>2. call[a] \in Call /\ call[a].amount \in Amounts
      BY <2>1, SaveEditStep
    <3>3. /\ \A q \in Edited(call[a]) : \E p \in invoice.payments : q.ref = p.ref
          /\ \A p \in invoice.payments : \E q \in Edited(call[a]) : q.ref = p.ref
      BY <3>2, EditedIs
    <3> QED
      BY <3>1, <3>3, SamePaymentsOnInvoice DEF SameOnInvoice, OnInvoice
  <2>2. ASSUME StampReceipt(a) PROVE SameOnInvoice
    <3>1. invoice'.payments = WithReceipt(call[a]) /\ call[a] \in Call
      BY <2>2, StampReceiptStep DEF StampReceiptIs
    <3>2. /\ \A q \in WithReceipt(call[a]) : \E p \in invoice.payments : q.ref = p.ref
          /\ \A p \in invoice.payments : \E q \in WithReceipt(call[a]) : q.ref = p.ref
      BY <3>1, WithReceiptIs
    <3> QED
      BY <3>1, <3>2 DEF SameOnInvoice, OnInvoice
  <2> QED
    BY <2>1, <2>2
<1> QED
  BY <1>1, <1>2, SettlesNothing

LEMMA SettlesNext == Shape /\ Promises /\ Promises' /\ [Next]_vars => Settles
<1> SUFFICES ASSUME Shape, Promises, Promises', [Next]_vars PROVE Settles
  OBVIOUS
<1>1. ASSUME SameAnswers, SamePayments, recorded' = recorded PROVE Settles
  BY <1>1, SamePaymentsOnInvoice, SettlesNothing
<1>2. ASSUME NEW a \in Actors, Start(a) \/ Die(a) \/ Throw(a) PROVE Settles
  <2>1. UNCHANGED <<invoice, request, recorded>>
    BY <1>2 DEF Start, Record, Remove, Edit, Amend, Send, Apply, Approve, Die, Throw
  <2> QED
    BY <1>1, <2>1 DEF SameAnswers, SamePayments
<1>3. ASSUME NEW a \in Actors, Continue(a) PROVE Settles
  <2>1. CASE SaveRecorded(a) \/ SaveRemove(a) \/ SaveEdit(a) \/ StampReceipt(a)
    BY <2>1, SettlesRecord, SettlesRemove, SettlesEdit
  <2>2. CASE SaveAmend(a) \/ SaveSend(a) \/ ApplySave(a)
    <3>1. SamePayments
      BY <2>2, SaveAmendStep, SaveSendStep, ApplySaveStep
      DEF Saved, SaveSendIs, ApplySaveIs, SamePayments
    <3>2. request' = request /\ recorded' = recorded
      BY <2>2 DEF SaveAmend, SaveSend, ApplySave
    <3> QED
      BY <1>1, <3>1, <3>2 DEF SameAnswers
  <2>3. CASE Target(a) \/ Count(a) \/ Weigh(a) \/ ReadToRecord(a) \/ Back(a) \/ Receipt(a)
    <3>1. UNCHANGED <<invoice, request, recorded>>
      BY <2>3 DEF Target, Count, Weigh, ReadToRecord, Back, Receipt
    <3> QED
      BY <1>1, <3>1 DEF SameAnswers, SamePayments
  <2>4. CASE Claim(a) \/ Unset(a)
    <3>1. UNCHANGED <<invoice, recorded>>
      BY <2>4 DEF Claim, Unset
    <3>2. request' = request \/ \E claimed \in BOOLEAN :
             request' = [request EXCEPT ![call[a].req].claimed = claimed]
      BY <2>4, ClaimStep, UnsetStep DEF ClaimIs, UnsetIs
    <3>3. SameAnswers
      BY <2>4, <3>2, RequestClaimed, ClaimStep, UnsetStep DEF SameAnswers, ClaimIs, UnsetIs
    <3> QED
      BY <1>1, <3>1, <3>3 DEF SamePayments
  <2>5. CASE Mark(a)
    <3>1. call[a].req \in Requests
      BY <2>5, MarkStep DEF MarkIs
    <3> QED
      BY <2>5, <3>1, SettlesRequest
  <2> QED
    BY <1>3, <2>1, <2>2, <2>3, <2>4, <2>5 DEF Continue
<1>4. ASSUME Void \/ Restore \/ Issue \/ VoidNote \/ UNCHANGED vars PROVE Settles
  <2>1. request' = request /\ recorded' = recorded /\ SamePayments
    BY <1>4 DEF Void, Restore, Issue, VoidNote, vars, SamePayments, Shape, TypeOK, Invoice
  <2> QED
    BY <1>1, <2>1 DEF SameAnswers
<1>5. ASSUME NEW r \in Requests, Reject(r) \/ \E amount \in Amounts : Intake(r, amount)
      PROVE  Settles
  BY <1>5, SettlesRequest
<1> QED
  BY <1>2, <1>3, <1>4, <1>5 DEF Next

LEMMA SettledInit == Init => Settled!Init
<1> SUFFICES ASSUME Init PROVE Settled!Init
  OBVIOUS
<1>1. invoice.payments = {}
  BY DEF Init
<1>2. \A r \in Requests : Cardinality({p \in invoice.payments : p.ref = r}) = 0
  BY <1>1, FS_EmptySet
<1> QED
  BY <1>2 DEF Init, Settled!Init

\* However many accountants decide and clerks edit at once, and whatever dies or throws
\* between two steps: a request's payment is on its invoice at most once, and none is
\* answered "approved" that never was on it (decideBalancePayment, recordPayment).  An
\* answer need not stay: an approval under way overwrites a rejection.
THEOREM PromisesKept == Spec => KeepsPromises
<1>1. Init => Settled!Init
  BY SettledInit
<1>2. Shape /\ Promises /\ Promises' /\ [Next]_vars => [Settled!Next]_Settled!vars
  BY SettlesNext, SettlesIs
<1> QED
  BY <1>1, <1>2, AlwaysPromises, PTL DEF Spec, KeepsPromises, Settled!Spec
----------------------------------------------------------------------------
(* Third round: what is left to pay.  A save writes the two fields from one *)
(* read, so they add up as long as the total is the one read: as long as no *)
(* edit of the total overlapped another call.                               *)

Reading == {"save", "edit", "remove", "amend", "apply"}

Balances(c) ==
    /\ c.at \in Reading =>
          c.doc.paid + c.doc.balance = c.doc.total /\ c.doc.total = invoice.total
    /\ c.at = "amend" => c.doc.paid = invoice.paid

CallsBalance == \A a \in Actors : call[a] # Idle => Balances(call[a])

AmendAlone == \A a, b \in Actors : call[a].at = "amend" /\ call[b] # Idle => a = b

AddsUp == invoice.paid + invoice.balance = invoice.total

Balanced == AddsUp /\ CallsBalance /\ AmendAlone

\* The total and what is paid of it stay.
SamePaid == invoice'.total = invoice.total /\ invoice'.paid = invoice.paid

\* A call goes on, and the invoice is as it was or has its balance figured anew.
LEMMA BalancedCalls ==
    ASSUME Balanced, NEW a \in Actors, OthersKept(a), SamePaid, AddsUp',
           call'[a] # Idle => Balances(call'[a]),
           call'[a].at = "amend" =>
               call[a].at = "amend" \/ \A b \in Actors : b # a => call[b] = Idle,
           call[a] = Idle /\ call'[a] # Idle => \A b \in Actors : b # a => call[b].at # "amend"
    PROVE  Balanced'
<1>1. CallsBalance'
  <2>1. ASSUME NEW b \in Actors, call'[b] # Idle PROVE Balances(call[b])'
    <3>1. Balances(call'[b])
      BY <2>1 DEF OthersKept, Kept, Balanced, CallsBalance, Balances
    <3> QED
      BY <3>1 DEF Balances, SamePaid
  <2> QED
    BY <2>1 DEF CallsBalance
<1>2. AmendAlone'
  BY DEF OthersKept, Kept, Balanced, AmendAlone, Idle
<1> QED
  BY <1>1, <1>2 DEF Balanced

\* A save that leaves the total: no edit of it is in progress.
LEMMA BalancedSave ==
    ASSUME Balanced, NEW a \in Actors, OthersKept(a), call[a] # Idle, call[a].at # "amend",
           call'[a] # Idle => call'[a].at \notin Reading,
           invoice'.total = invoice.total, AddsUp'
    PROVE  Balanced'
<1>1. \A b \in Actors : call[b].at # "amend"
  BY DEF Balanced, AmendAlone
<1>2. \A b \in Actors : call'[b].at # "amend"
  BY <1>1 DEF OthersKept, Kept, Idle, Reading
<1>3. CallsBalance'
  <2>1. ASSUME NEW b \in Actors, call'[b] # Idle PROVE Balances(call[b])'
    <3>1. CASE b = a
      BY <2>1, <3>1 DEF Balances, Reading
    <3>2. CASE b # a
      BY <1>2, <2>1, <3>2 DEF OthersKept, Kept, Balanced, CallsBalance, Balances
    <3> QED
      BY <3>1, <3>2
  <2> QED
    BY <2>1 DEF CallsBalance
<1>4. AmendAlone'
  BY <1>2 DEF AmendAlone
<1> QED
  BY <1>3, <1>4 DEF Balanced

\* Saved from one read, the two fields are both written or both left.
LEMMA SavedAddsUp ==
    ASSUME Shape, Balanced, NEW doc \in Invoice, NEW paid \in Int, NEW balance \in Int,
           NEW status, NEW total, NEW payments,
           Saved(doc, paid, balance, status, total, payments),
           doc.paid + doc.balance = doc.total, paid + balance = doc.total, doc.total = total,
           total = invoice.total
    PROVE  AddsUp'
BY InvoiceInts DEF Saved, Balanced, AddsUp, Shape, TypeOK

LEMMA BalancedStarts ==
    ASSUME Shape, Balanced, NEW a \in Actors, NEW at, NEW req, NEW id, NEW amount, NEW doc, NEW with,
           Starts(a, at, req, id, amount, doc, with), ~crossed', invoice' = invoice,
           at \in Reading => doc = invoice \/ doc = Figures
    PROVE  Balanced'
<1>1. /\ OthersKept(a) /\ call[a] = Idle /\ call'[a] # Idle /\ call'[a].at = at
      /\ call'[a].doc = doc
      /\ \A b \in Actors : b # a /\ call[b] # Idle => at # "amend" /\ call[b].at # "amend"
  BY DEF Starts
<1>2. Balances(call'[a])
  BY <1>1, FiguresTyped, InvoiceInts DEF Balances, Balanced, AddsUp, Shape, TypeOK, Reading
<1>3. SamePaid /\ AddsUp'
  BY DEF SamePaid, AddsUp, Balanced
<1>4. \A b \in Actors : b # a => call[b].at # "amend"
  BY <1>1 DEF Idle
<1> QED
  BY <1>1, <1>2, <1>3, <1>4, BalancedCalls

LEMMA BalancedStart ==
    ASSUME Shape, Balanced, ~crossed', NEW a \in Actors, Start(a) PROVE Balanced'
<1> USE DEF Reading
<1>1. ASSUME NEW amount \in Amounts, Record(a, amount) PROVE Balanced'
  BY <1>1, RecordStep, BalancedStarts DEF Record
<1>2. ASSUME NEW p \in invoice.payments, NEW amount \in Amounts, Edit(a, p, amount)
      PROVE  Balanced'
  BY <1>2, EditStep, BalancedStarts DEF Edit
<1>3. ASSUME NEW p \in invoice.payments, Remove(a, p) PROVE Balanced'
  BY <1>3, RemoveStep, BalancedStarts DEF Remove
<1>4. ASSUME NEW total \in Amounts, Amend(a, total) PROVE Balanced'
  BY <1>4, AmendStep, BalancedStarts DEF Amend
<1>5. ASSUME Send(a) PROVE Balanced'
  BY <1>5, SendStep, BalancedStarts DEF Send
<1>6. ASSUME Apply(a) PROVE Balanced'
  BY <1>6, ApplyStep, BalancedStarts DEF Apply
<1>7. ASSUME NEW r \in Requests, Approve(a, r) PROVE Balanced'
  BY <1>7, ApproveStep, BalancedStarts DEF Approve
<1> QED
  BY <1>1, <1>2, <1>3, <1>4, <1>5, <1>6, <1>7 DEF Start

LEMMA BalancedMoney ==
    ASSUME Shape, Balanced, NEW a \in Actors,
           SaveRecorded(a) \/ SaveEdit(a) \/ SaveRemove(a) \/ ApplySave(a)
    PROVE  Balanced'
<1> DEFINE c == call[a]
<1>1. ASSUME c # Idle, c.at \in Reading
      PROVE  c.doc.paid + c.doc.balance = c.doc.total /\ c.doc.total = invoice.total
  BY <1>1 DEF Balanced, CallsBalance, Balances
<1>2. ASSUME SaveRecorded(a) PROVE Balanced'
  <2>1. PICK id \in Ids : RecordedAs(a, id)
    BY <1>2, SaveRecordedStep
  <2>2. /\ c # Idle /\ c.at = "save" /\ c.doc \in Invoice /\ c.amount \in Int /\ OthersKept(a)
        /\ call'[a] # Idle => call'[a].at = "back"
        /\ invoice'.total = invoice.total
        /\ Saved(c.doc, c.doc.paid + c.amount, c.doc.total - (c.doc.paid + c.amount),
                 StatusFor(c.doc.total - (c.doc.paid + c.amount)), invoice.total,
                 invoice.payments \cup {PaymentOf(c, id)})
    BY <2>1, AmountIsNat DEF RecordedAs, Saved
  <2>3. AddsUp'
    BY <1>1, <2>2, InvoiceInts, SavedAddsUp DEF Reading
  <2> QED
    BY <2>2, <2>3, BalancedSave DEF Reading
<1>3. ASSUME SaveEdit(a) PROVE Balanced'
  <2>1. /\ Ends(a) /\ c.at = "edit" /\ c.doc \in Invoice /\ PaidWith(c) \in Int
        /\ \/ invoice' = invoice
           \/ Saved(c.doc, PaidWith(c), c.doc.total - PaidWith(c),
                    StatusFor(c.doc.total - PaidWith(c)), invoice.total, Edited(c))
    BY <1>3, SaveEditStep
  <2>2. AddsUp' /\ invoice'.total = invoice.total
    <3>1. CASE invoice' = invoice
      BY <3>1 DEF Balanced, AddsUp
    <3>2. CASE Saved(c.doc, PaidWith(c), c.doc.total - PaidWith(c),
                     StatusFor(c.doc.total - PaidWith(c)), invoice.total, Edited(c))
      <4>1. AddsUp'
        BY <1>1, <2>1, <3>2, InvoiceInts, SavedAddsUp DEF Reading, Ends
      <4> QED
        BY <3>2, <4>1 DEF Saved
    <3> QED
      BY <2>1, <3>1, <3>2
  <2> QED
    BY <2>1, <2>2, BalancedSave DEF Ends
<1>4. ASSUME SaveRemove(a) PROVE Balanced'
  <2> DEFINE paid == SumOf(Left(c.doc.payments, c))
  <2>1. /\ c # Idle /\ c.at = "remove" /\ c.doc \in Invoice /\ paid \in Int
        /\ call'[a] = Idle /\ OthersKept(a)
        /\ Saved(c.doc, paid, c.doc.total - paid, Outstanding(paid, c.doc.total - paid),
                 invoice.total, Left(invoice.payments, c))
    BY <1>4, SaveRemoveStep
  <2> HIDE DEF paid
  <2>2. /\ c.doc.total - paid \in Int /\ paid + (c.doc.total - paid) = c.doc.total
        /\ c.doc.paid + c.doc.balance = c.doc.total /\ c.doc.total = invoice.total
    BY <1>1, <2>1, InvoiceInts DEF Reading
  <2>3. AddsUp'
    BY <2>1, <2>2, SavedAddsUp
  <2> QED
    BY <2>1, <2>3, BalancedSave DEF Saved
<1>5. ASSUME ApplySave(a) PROVE Balanced'
  <2>1. /\ Goes(a, "count") /\ c.at = "apply" /\ c.doc \in Invoice /\ c.amount \in Int
        /\ Saved(c.doc, c.doc.paid + c.amount, c.doc.balance - c.amount, StatusApplied(c),
                 invoice.total, invoice.payments)
    BY <1>5, ApplySaveStep DEF ApplySaveIs, Call
  <2>2. /\ c.doc.paid + c.amount \in Int /\ c.doc.balance - c.amount \in Int
        /\ (c.doc.paid + c.amount) + (c.doc.balance - c.amount) = c.doc.total
        /\ c.doc.paid + c.doc.balance = c.doc.total /\ c.doc.total = invoice.total
    BY <1>1, <2>1, InvoiceInts DEF Reading, Goes
  <2>3. AddsUp'
    BY <2>1, <2>2, SavedAddsUp
  <2> QED
    BY <2>1, <2>3, BalancedSave DEF Saved, Goes, Reading
<1> QED
  BY <1>2, <1>3, <1>4, <1>5

\* An edit of the total is alone, and figures the rest of the new one.
LEMMA BalancedAmend ==
    ASSUME Shape, Balanced, NEW a \in Actors, SaveAmend(a) PROVE Balanced'
<1> DEFINE c == call[a]
<1>1. /\ c # Idle /\ c.at = "amend" /\ c.doc \in Invoice /\ c.amount \in Int
      /\ call'[a] = Idle /\ OthersKept(a)
      /\ \/ invoice' = invoice
         \/ Saved(c.doc, c.doc.paid, c.amount - c.doc.paid, StatusAmended(c), c.amount,
                  invoice.payments)
  BY SaveAmendStep, AmountIsNat
<1>2. /\ c.doc.paid + c.doc.balance = c.doc.total /\ c.doc.total = invoice.total
      /\ c.doc.paid = invoice.paid
  BY <1>1 DEF Balanced, CallsBalance, Balances, Reading
<1>3. \A b \in Actors : call'[b] = Idle
  BY <1>1 DEF OthersKept, Kept, Balanced, AmendAlone
<1>4. AddsUp'
  BY <1>1, <1>2, InvoiceInts DEF Saved, Balanced, AddsUp, Shape, TypeOK
<1> QED
  BY <1>3, <1>4 DEF Balanced, CallsBalance, AmendAlone, Idle

\* The steps that leave the figures.
LEMMA BalancedQuiet ==
    ASSUME Shape, Balanced, NEW a \in Actors,
           \/ Weigh(a) \/ Claim(a) \/ ReadToRecord(a) \/ Back(a) \/ Unset(a) \/ Receipt(a)
           \/ StampReceipt(a) \/ Mark(a) \/ Target(a) \/ Count(a) \/ SaveSend(a) \/ Die(a) \/ Throw(a)
    PROVE  Balanced'
<1>1. SamePaid /\ AddsUp'
  BY StampReceiptStep, SaveSendStep
  DEF StampReceiptIs, SaveSendIs, SamePaid, AddsUp, Balanced, Weigh, Claim, ReadToRecord, Back, Unset,
      Receipt, Mark, Target, Count, Die, Throw
<1>2. /\ OthersKept(a) /\ call[a] # Idle
      /\ call'[a] # Idle /\ call'[a].at \in Reading =>
            call'[a].doc = Figures /\ call'[a].at # "amend"
  <2> USE DEF Reading
  <2>1. CASE Weigh(a) \/ Claim(a) \/ ReadToRecord(a) \/ Back(a) \/ Unset(a)
    BY <2>1, WeighStep, ClaimStep, ReadToRecordStep, BackStep, UnsetStep
    DEF ClaimIs, ReadToRecordIs, UnsetIs, Goes, Ends
  <2>2. CASE Receipt(a) \/ StampReceipt(a) \/ Mark(a)
    BY <2>2, ReceiptStep, StampReceiptStep, MarkStep DEF ReceiptIs, StampReceiptIs, MarkIs, Goes, Ends
  <2>3. CASE Target(a) \/ Count(a) \/ SaveSend(a)
    BY <2>3, TargetStep, CountStep, SaveSendStep DEF TargetIs, SaveSendIs, Ends
  <2>4. CASE Die(a) \/ Throw(a)
    BY <2>4, DieStep, ThrowStep DEF Goes, Ends
  <2> QED
    BY <2>1, <2>2, <2>3, <2>4
<1>3. call'[a] # Idle => Balances(call'[a])
  BY <1>2, FiguresTyped DEF Balances, Balanced, AddsUp, Shape, TypeOK, Reading
<1>4. call'[a].at # "amend"
  BY <1>2 DEF Reading, Idle
<1> QED
  BY <1>1, <1>2, <1>3, <1>4, BalancedCalls

BalancedTillCrossed == ~crossed => Balanced

LEMMA BalancedNext == Shape /\ BalancedTillCrossed /\ [Next]_vars => BalancedTillCrossed'
<1> SUFFICES ASSUME Shape, Balanced, ~crossed', [Next]_vars PROVE Balanced'
  <2>1. ASSUME [Next]_vars, crossed PROVE crossed'
    <3>1. ASSUME NEW a \in Actors, Start(a) PROVE crossed'
      BY <2>1, <3>1 DEF Start, Record, Remove, Edit, Amend, Send, Apply, Approve, Begin
    <3>2. ASSUME NEW a \in Actors, Continue(a) \/ Die(a) \/ Throw(a) PROVE crossed' = crossed
      BY <3>2 DEF Continue, SaveRecorded, SaveEdit, SaveRemove, SaveAmend, SaveSend, Target, ApplySave,
         Count, Weigh, Claim, ReadToRecord, Back, Unset, Receipt, StampReceipt, Mark, Die, Throw
    <3>3. ASSUME \/ Void \/ Restore \/ Issue \/ VoidNote \/ UNCHANGED vars
                 \/ \E r \in Requests : Reject(r) \/ \E amount \in Amounts : Intake(r, amount)
          PROVE  crossed' = crossed
      BY <3>3 DEF Void, Restore, Issue, VoidNote, Reject, Intake, vars
    <3> QED
      BY <2>1, <3>1, <3>2, <3>3 DEF Next
  <2> QED
    BY <2>1 DEF BalancedTillCrossed
<1>1. ASSUME NEW a \in Actors, Start(a) PROVE Balanced'
  BY <1>1, BalancedStart
<1>2. ASSUME NEW a \in Actors, Continue(a) PROVE Balanced'
  BY <1>2, BalancedMoney, BalancedAmend, BalancedQuiet DEF Continue
<1>3. ASSUME NEW a \in Actors, Die(a) \/ Throw(a) PROVE Balanced'
  BY <1>3, BalancedQuiet
<1>4. ASSUME \/ Void \/ Restore \/ Issue \/ VoidNote \/ UNCHANGED vars
             \/ \E r \in Requests : Reject(r) \/ \E amount \in Amounts : Intake(r, amount)
      PROVE  Balanced'
  <2>1. call' = call /\ SamePaid
    BY <1>4 DEF Void, Restore, Issue, VoidNote, vars, Reject, Intake, SamePaid, Shape, TypeOK, Invoice
  <2>2. invoice'.balance = invoice.balance \/ invoice'.balance = invoice.total - invoice.paid
    BY <1>4 DEF Void, Restore, Issue, VoidNote, vars, Reject, Intake, Shape, TypeOK, Invoice
  <2>3. AddsUp'
    BY <2>1, <2>2, InvoiceInts DEF SamePaid, Balanced, AddsUp, Shape, TypeOK
  <2> QED
    BY <2>1, <2>3 DEF Balanced, CallsBalance, Balances, AmendAlone, SamePaid
<1> QED
  BY <1>1, <1>2, <1>3, <1>4 DEF Next

LEMMA BalancedInit == Init => BalancedTillCrossed
BY AmountsAssumption DEF Init, BalancedTillCrossed, Balanced, AddsUp, CallsBalance, AmendAlone, Idle

LEMMA AlwaysBalanced == Spec => []BalancedTillCrossed
<1> QED
  BY BalancedInit, BalancedNext, AlwaysShape, PTL DEF Spec

\* Whatever overlaps, overwrites or dies, what is left to pay is the total less what counts
\* as paid, until an edit of the total overlaps another call (the saves of recordPayment,
\* updatePayment, deletePayment, updateInvoice, restoreInvoice and of a credit note).
THEOREM BalanceStays == Spec => []BalanceIsRest
<1>1. BalancedTillCrossed => BalanceIsRest
  BY DEF BalancedTillCrossed, Balanced, AddsUp, BalanceIsRest
<1> QED
  BY <1>1, AlwaysBalanced, PTL
----------------------------------------------------------------------------
(* Fourth round: of one call at a time.  Its figures are the invoice's when *)
(* it saves, so that what it writes is what it figured; and a request it is *)
(* for still waits, so that nothing but its own Mark answers it.            *)

LEMMA AmountOfPayment == ASSUME Shape, NEW p \in invoice.payments PROVE p \in Payment /\ p.amount \in Amounts
BY DEF Shape, TypeOK, Invoice, Payment

LEMMA HeldNat == ASSUME Shape PROVE SumOf(invoice.payments) \in Nat
BY PaymentsFinite, UnitsFinite

LEMMA SumOfLeft ==
    ASSUME Shape, NEW c, NEW p \in invoice.payments, p.id = c.id
    PROVE  /\ Left(invoice.payments, c) = invoice.payments \ {p}
           /\ IsFiniteSet(Left(invoice.payments, c)) /\ SumOf(Left(invoice.payments, c)) \in Nat
           /\ SumOf(invoice.payments) = SumOf(Left(invoice.payments, c)) + p.amount
<1>1. Left(invoice.payments, c) = invoice.payments \ {p}
  BY DEF Left, Shape, IdsOnce
<1>2. IsFiniteSet(invoice.payments \ {p})
  BY PaymentsFinite, FS_RemoveElement
<1>3. SumOf(invoice.payments) = SumOf(invoice.payments \ {p}) + p.amount
  BY PaymentsFinite, AmountOfPayment, SumOfTaken
<1> QED
  BY <1>1, <1>2, <1>3, UnitsFinite

LEMMA SumOfEdited ==
    ASSUME Shape, NEW c \in Call, c.amount \in Amounts, NEW p \in invoice.payments, p.id = c.id
    PROVE  SumOf(Edited(c)) = SumOf(Left(invoice.payments, c)) + c.amount
<1> DEFINE new == [p EXCEPT !.amount = c.amount]
<1>1. new.amount = c.amount /\ new.id = p.id
  BY AmountOfPayment DEF Payment
<1>2. \A q \in invoice.payments : q.id = c.id <=> q = p
  BY DEF Shape, IdsOnce
<1>3. Edited(c) = Left(invoice.payments, c) \cup {new}
  BY <1>2 DEF Edited, Left
<1>4. new \notin Left(invoice.payments, c)
  BY <1>1 DEF Left
<1> HIDE DEF new
<1> QED
  BY <1>1, <1>3, <1>4, SumOfLeft, SumOfAdded

LEMMA SumOfWithReceipt ==
    ASSUME Shape, Promises, NEW c \in Call, c.req \in Requests
    PROVE  SumOf(WithReceipt(c)) = SumOf(invoice.payments)
<1>1. CASE \A p \in invoice.payments : ~(p.ref = c.req /\ p.receipt = NoNumber)
  <2>1. WithReceipt(c) = invoice.payments
    BY <1>1 DEF WithReceipt
  <2> QED
    BY <2>1
<1>2. ASSUME NEW p \in invoice.payments, p.ref = c.req, p.receipt = NoNumber
      PROVE  SumOf(WithReceipt(c)) = SumOf(invoice.payments)
  <2> DEFINE new == [p EXCEPT !.receipt = c.number]
             others == invoice.payments \ {p}
  <2>1. new.amount = p.amount /\ new.id = p.id
    BY AmountOfPayment DEF Payment
  <2>2. \A q \in invoice.payments : q.ref = c.req <=> q = p
    BY <1>2, NoneAssumption DEF Promises, OnceOnInvoice
  <2>3. WithReceipt(c) = others \cup {new}
    BY <1>2, <2>2 DEF WithReceipt
  <2>4. new \notin others
    BY <2>1 DEF Shape, IdsOnce
  <2>5. IsFiniteSet(others) /\ p.amount \in Amounts
    BY PaymentsFinite, FS_RemoveElement, AmountOfPayment
  <2> HIDE DEF new
  <2>6. SumOf(others \cup {new}) = SumOf(others) + p.amount
    BY <2>1, <2>4, <2>5, SumOfAdded
  <2>7. SumOf(invoice.payments) = SumOf(others) + p.amount
    BY <2>5, PaymentsFinite, SumOfTaken
  <2> QED
    BY <2>3, <2>6, <2>7
<1> QED
  BY <1>1, <1>2

OneAtATime == \A a, b \in Actors : call[a] # Idle /\ call[b] # Idle => a = b

\* The invoice is as the call read it.
Current(c) == /\ c.doc.paid = invoice.paid /\ c.doc.balance = invoice.balance
              /\ c.doc.status = invoice.status /\ invoice.status # "void"
              /\ c.doc.total = invoice.total

\* What a call was let in for still holds when it saves.
MayStill(c) ==
    /\ c.at = "save" => invoice.status # "paid" /\ c.amount <= invoice.balance
    /\ c.at \in {"edit", "remove"} =>
          c.doc.payments = invoice.payments /\ \E p \in invoice.payments : p.id = c.id
    /\ c.at = "edit" => SumOf(Left(invoice.payments, c)) + c.amount <= invoice.total
    /\ c.at = "amend" => invoice.paid <= c.amount
    /\ c.at = "send" => invoice.status = "draft"
    /\ c.at = "target" => c.note.applied < Credit
    /\ c.at = "apply" => 0 <= c.amount /\ c.amount <= invoice.balance

\* Its request waits, and the number it has is the one its payment has or gets.
Waits(c) ==
    /\ c.req \in Requests => request[c.req].status = "pending"
    /\ c.at = "stamp" => \A p \in invoice.payments : p.ref = c.req => p.receipt = NoNumber
    /\ c.at = "mark" => \A p \in invoice.payments : p.ref = c.req => p.receipt = c.number

CallsCareful == \A a \in Actors : call[a] # Idle =>
    (call[a].at \in Reading => Current(call[a])) /\ MayStill(call[a]) /\ Waits(call[a])

Held == /\ SumOf(invoice.payments) <= invoice.paid
        /\ invoice.paid <= SumOf(invoice.payments) + credited
        /\ invoice.paid <= invoice.total
        /\ 0 <= credited

StatusSays ==
    invoice.status # "void" =>
        /\ invoice.status = "paid" <=> invoice.balance <= 0
        /\ invoice.status \in {"draft", "sent"} <=> invoice.paid = 0

ReceiptsSay ==
    \A r \in Requests : \A p \in invoice.payments :
        p.ref = r /\ request[r].status = "approved" => p.receipt = request[r].receipt

Careful == OneAtATime /\ CallsCareful /\ Held /\ StatusSays /\ ReceiptsSay

\* One call alone goes on.
LEMMA CarefulCalls ==
    ASSUME NEW a \in Actors, OthersKept(a), \A b \in Actors : b # a => call[b] = Idle,
           call'[a] # Idle => /\ call'[a].at \in Reading => Current(call[a])'
                              /\ MayStill(call[a])' /\ Waits(call[a])'
    PROVE  OneAtATime' /\ CallsCareful'
<1>1. \A b \in Actors : b # a => call'[b] = Idle
  BY DEF OthersKept, Kept
<1> QED
  BY <1>1 DEF OneAtATime, CallsCareful

\* The money as it was, the receipts too.
SameMoney == /\ invoice'.paid = invoice.paid /\ invoice'.balance = invoice.balance
             /\ invoice'.total = invoice.total /\ invoice'.status = invoice.status
             /\ invoice'.payments = invoice.payments /\ credited' = credited

SameAnswered == \A r \in Requests :
    /\ request'[r].status = "approved" => request[r].status = "approved"
    /\ request'[r].receipt = request[r].receipt

LEMMA CarefulMoney ==
    ASSUME Careful, SameMoney, SameAnswered PROVE Held' /\ StatusSays' /\ ReceiptsSay'
BY DEF Careful, SameMoney, SameAnswered, Held, StatusSays, ReceiptsSay

LEMMA CarefulStarts ==
    ASSUME Shape, Balanced, Careful, NEW a \in Actors, NEW at, NEW req, NEW id, NEW amount, NEW doc,
           NEW with, Starts(a, at, req, id, amount, doc, with), ~raced',
           at \in Reading => (doc = invoice \/ doc = Figures) /\ invoice.status # "void",
           req \in Requests => request[req].status = "pending", at \notin {"stamp", "mark"},
           MayStill(call'[a]), UNCHANGED <<invoice, credited, request>>
    PROVE  Careful'
<1>1. /\ OthersKept(a) /\ call'[a].at = at /\ call'[a].doc = doc /\ call'[a].req = req
      /\ \A b \in Actors : b # a => call[b] = Idle
  BY DEF Starts
<1>2. at \in Reading => Current(call[a])'
  BY <1>1, FiguresTyped DEF Current, Shape, TypeOK
<1>3. Waits(call[a])'
  BY <1>1 DEF Waits
<1>4. MayStill(call[a])'
  BY DEF MayStill, Left
<1>5. SameMoney /\ SameAnswered
  BY DEF SameMoney, SameAnswered
<1> QED
  BY <1>1, <1>2, <1>3, <1>4, <1>5, CarefulCalls, CarefulMoney DEF Careful
LEMMA CarefulStart ==
    ASSUME Shape, Balanced, Careful, ~raced', NEW a \in Actors, Start(a) PROVE Careful'
<1> USE DEF Reading
<1>1. ASSUME NEW amount \in Amounts, Record(a, amount) PROVE Careful'
  <2>1. Starts(a, "save", None, None, amount, Figures, None)
    BY <1>1, RecordStep
  <2>2. MayStill(call'[a]) /\ invoice.status # "void"
    BY <1>1, <2>1 DEF Starts, MayStill, Record, Takes
  <2>3. UNCHANGED <<invoice, credited, request>>
    BY <1>1 DEF Record
  <2> QED
    BY <2>1, <2>2, <2>3, NoneAssumption, CarefulStarts
<1>2. ASSUME NEW p \in invoice.payments, NEW amount \in Amounts, Edit(a, p, amount) PROVE Careful'
  <2>1. Starts(a, "edit", None, p.id, amount, invoice, None)
    BY <1>2, EditStep
  <2>2. Left(invoice.payments, call'[a]) = invoice.payments \ {p}
    BY <2>1 DEF Starts, Left, Shape, IdsOnce
  <2>3. MayStill(call'[a]) /\ invoice.status # "void"
    BY <1>2, <2>1, <2>2 DEF Starts, MayStill, Edit
  <2>4. UNCHANGED <<invoice, credited, request>>
    BY <1>2 DEF Edit
  <2> QED
    BY <2>1, <2>3, <2>4, NoneAssumption, CarefulStarts
<1>3. ASSUME NEW p \in invoice.payments, Remove(a, p) PROVE Careful'
  <2>1. Starts(a, "remove", None, p.id, 0, invoice, None)
    BY <1>3, RemoveStep
  <2>2. MayStill(call'[a]) /\ invoice.status # "void"
    BY <1>3, <2>1 DEF Starts, MayStill, Remove
  <2>3. UNCHANGED <<invoice, credited, request>>
    BY <1>3 DEF Remove
  <2> QED
    BY <2>1, <2>2, <2>3, NoneAssumption, CarefulStarts
<1>4. ASSUME NEW total \in Amounts, Amend(a, total) PROVE Careful'
  <2>1. Starts(a, "amend", None, None, total, Figures, None)
    BY <1>4, AmendStep
  <2>2. MayStill(call'[a]) /\ invoice.status # "void"
    BY <1>4, <2>1 DEF Starts, MayStill, Amend
  <2>3. UNCHANGED <<invoice, credited, request>>
    BY <1>4 DEF Amend
  <2> QED
    BY <2>1, <2>2, <2>3, NoneAssumption, CarefulStarts
<1>5. ASSUME Send(a) PROVE Careful'
  <2>1. Starts(a, "send", None, None, 0, None, None)
    BY <1>5, SendStep
  <2>2. MayStill(call'[a])
    BY <1>5, <2>1 DEF Starts, MayStill, Send
  <2>3. UNCHANGED <<invoice, credited, request>>
    BY <1>5 DEF Send
  <2> QED
    BY <2>1, <2>2, <2>3, NoneAssumption, CarefulStarts
<1>6. ASSUME Apply(a) PROVE Careful'
  <2>1. Starts(a, "target", None, None, 0, None, note)
    BY <1>6, ApplyStep
  <2>2. MayStill(call'[a])
    BY <1>6, <2>1 DEF Starts, MayStill, Apply
  <2>3. UNCHANGED <<invoice, credited, request>>
    BY <1>6 DEF Apply
  <2> QED
    BY <2>1, <2>2, <2>3, NoneAssumption, CarefulStarts
<1>7. ASSUME NEW r \in Requests, Approve(a, r) PROVE Careful'
  <2>1. Starts(a, "weigh", r, None, request[r].amount, None, None)
    BY <1>7, ApproveStep
  <2>2. MayStill(call'[a]) /\ request[r].status = "pending"
    BY <1>7, <2>1 DEF Starts, MayStill, Approve
  <2>3. UNCHANGED <<invoice, credited, request>>
    BY <1>7 DEF Approve
  <2> QED
    BY <2>1, <2>2, <2>3, CarefulStarts
<1> QED
  BY <1>1, <1>2, <1>3, <1>4, <1>5, <1>6, <1>7 DEF Start

\* The call in progress, what it looks at and what it was let in for.
LEMMA CarefulIs ==
    ASSUME Careful, NEW a \in Actors, call[a] # Idle
    PROVE  /\ \A b \in Actors : b # a => call[b] = Idle
           /\ call[a].at \in Reading => Current(call[a])
           /\ MayStill(call[a]) /\ Waits(call[a])
BY DEF Careful, OneAtATime, CallsCareful

\* A save writes what it figured, where the invoice is as it was read.
LEMMA SavedCurrent ==
    ASSUME NEW doc, NEW paid, NEW balance, NEW status, NEW total, NEW payments,
           Saved(doc, paid, balance, status, total, payments),
           doc.paid = invoice.paid, doc.balance = invoice.balance, doc.status = invoice.status
    PROVE  /\ invoice'.paid = paid /\ invoice'.balance = balance /\ invoice'.status = status
           /\ invoice'.total = total /\ invoice'.payments = payments
BY DEF Saved

LEMMA SameReceipts ==
    ASSUME ReceiptsSay, request' = request,
           \A q \in invoice'.payments : \E p \in invoice.payments :
               q.ref = p.ref /\ q.receipt = p.receipt
    PROVE  ReceiptsSay'
BY DEF ReceiptsSay

LEMMA CarefulRecorded ==
    ASSUME Shape, Balanced, Careful, NEW a \in Actors, SaveRecorded(a) PROVE Careful'
<1> DEFINE c == call[a]
           sum == SumOf(invoice.payments)
<1>1. PICK id \in Ids : RecordedAs(a, id)
  BY SaveRecordedStep
<1> DEFINE new == PaymentOf(c, id)
           balance == c.doc.total - (c.doc.paid + c.amount)
<1>2. /\ c # Idle /\ c.at = "save" /\ c.amount \in Amounts /\ OthersKept(a) /\ id \notin used
      /\ new.id = id /\ new.amount = c.amount /\ new.ref = c.req
      /\ Saved(c.doc, c.doc.paid + c.amount, balance, StatusFor(balance), invoice.total,
               invoice.payments \cup {new})
      /\ call'[a] # Idle => call'[a].at = "back" /\ call'[a].req = c.req
  BY <1>1 DEF RecordedAs, PaymentOf
<1>3. /\ \A b \in Actors : b # a => call[b] = Idle
      /\ Current(c) /\ invoice.status # "paid" /\ c.amount <= invoice.balance
      /\ c.req \in Requests => request[c.req].status = "pending"
  BY <1>2, CarefulIs DEF Reading, MayStill, Waits
<1>4. request' = request /\ credited' = credited
  BY DEF SaveRecorded
<1>5. /\ invoice'.paid = invoice.paid + c.amount /\ invoice'.total = invoice.total
      /\ invoice'.balance = invoice.total - (invoice.paid + c.amount)
      /\ invoice'.status = StatusFor(invoice'.balance)
      /\ invoice'.payments = invoice.payments \cup {new}
  BY <1>2, <1>3, SavedCurrent DEF Current
<1> HIDE DEF new
<1>6. SumOf(invoice'.payments) = sum + c.amount
  BY <1>2, <1>5, PaymentsFinite, SumOfAdded DEF Shape, IdsOnce
<1>7. /\ c.amount \in Nat \ {0} /\ sum \in Nat /\ invoice.paid \in Int /\ invoice.balance \in Int
      /\ invoice.total \in Int /\ invoice.paid + invoice.balance = invoice.total /\ credited \in Int
  BY <1>2, AmountIsNat, HeldNat, InvoiceInts DEF Shape, TypeOK, Balanced, AddsUp
<1> HIDE DEF sum, c
<1>8. Held'
  BY <1>3, <1>4, <1>5, <1>6, <1>7 DEF Careful, Held, sum
<1>9. StatusSays'
  BY <1>3, <1>5, <1>7 DEF Careful, Held, StatusSays, StatusFor, sum
<1>10. ReceiptsSay'
  BY <1>2, <1>3, <1>4, <1>5 DEF Careful, ReceiptsSay
<1>11. call'[a] # Idle => /\ call'[a].at \in Reading => Current(call[a])'
                          /\ MayStill(call[a])' /\ Waits(call[a])'
  BY <1>2, <1>3, <1>4 DEF Reading, MayStill, Waits
<1> QED
  BY <1>2, <1>3, <1>8, <1>9, <1>10, <1>11, CarefulCalls DEF Careful

LEMMA CarefulEdit ==
    ASSUME Shape, Balanced, Careful, NEW a \in Actors, SaveEdit(a) PROVE Careful'
<1> DEFINE c == call[a]
           balance == c.doc.total - PaidWith(c)
<1>1. /\ Ends(a) /\ c.at = "edit" /\ c \in Call /\ c.amount \in Amounts
      /\ IF c.moved THEN invoice' = invoice
         ELSE Saved(c.doc, PaidWith(c), balance, StatusFor(balance), invoice.total, Edited(c))
  BY SaveEditStep
<1>2. /\ \A b \in Actors : b # a => call[b] = Idle
      /\ Current(c) /\ c.doc.payments = invoice.payments
      /\ SumOf(Left(invoice.payments, c)) + c.amount <= invoice.total
  BY <1>1, CarefulIs DEF Ends, Reading, MayStill
<1>3. request' = request /\ credited' = credited
  BY DEF SaveEdit
<1>4. OneAtATime' /\ CallsCareful'
  BY <1>1, <1>2, CarefulCalls DEF Ends
<1>5. CASE c.moved
  BY <1>1, <1>3, <1>4, <1>5, CarefulMoney DEF SameMoney, SameAnswered, Careful
<1>6. CASE ~c.moved
  <2> DEFINE paid == SumOf(Left(invoice.payments, c)) + c.amount
  <2>1. /\ invoice'.paid = paid /\ invoice'.balance = invoice.total - paid
        /\ invoice'.status = StatusFor(invoice.total - paid) /\ invoice'.total = invoice.total
        /\ invoice'.payments = Edited(c)
    BY <1>1, <1>2, <1>6, SavedCurrent DEF Current, PaidWith
  <2>2. PICK p \in invoice.payments : p.id = c.id
    BY <1>1, CarefulIs DEF Ends, MayStill
  <2>3. SumOf(invoice'.payments) = paid /\ SumOf(Left(invoice.payments, c)) \in Nat
    BY <1>1, <2>1, <2>2, SumOfEdited, SumOfLeft
  <2>4. paid \in Nat \ {0} /\ invoice.total \in Int /\ credited \in Int
    BY <1>1, <2>3, AmountIsNat, InvoiceInts DEF Shape, TypeOK
  <2> HIDE DEF paid
  <2>5. Held'
    BY <1>2, <1>3, <2>1, <2>3, <2>4 DEF Careful, Held, paid
  <2>6. StatusSays'
    BY <2>1, <2>4 DEF StatusSays, StatusFor
  <2>7. ReceiptsSay'
    <3>1. \A q \in Edited(c) : \E p2 \in invoice.payments :
             q.ref = p2.ref /\ q.receipt = p2.receipt
      BY <1>1, EditedIs
    <3> QED
      BY <1>3, <2>1, <3>1, SameReceipts DEF Careful
  <2> QED
    BY <1>4, <2>5, <2>6, <2>7 DEF Careful
<1> QED
  BY <1>5, <1>6

LEMMA CarefulRemove ==
    ASSUME Shape, Balanced, Careful, NEW a \in Actors, SaveRemove(a) PROVE Careful'
<1> DEFINE c == call[a]
           paid == SumOf(Left(invoice.payments, c))
<1>1. /\ c # Idle /\ c.at = "remove" /\ call'[a] = Idle /\ OthersKept(a)
      /\ Saved(c.doc, SumOf(Left(c.doc.payments, c)), c.doc.total - SumOf(Left(c.doc.payments, c)),
               Outstanding(SumOf(Left(c.doc.payments, c)),
                           c.doc.total - SumOf(Left(c.doc.payments, c))),
               invoice.total, Left(invoice.payments, c))
  BY SaveRemoveStep
<1>2. /\ \A b \in Actors : b # a => call[b] = Idle
      /\ Current(c) /\ c.doc.payments = invoice.payments
  BY <1>1, CarefulIs DEF Reading, MayStill
<1>3. request' = request /\ credited' = credited
  BY DEF SaveRemove
<1>4. /\ invoice'.paid = paid /\ invoice'.balance = invoice.total - paid
      /\ invoice'.status = Outstanding(paid, invoice.total - paid)
      /\ invoice'.total = invoice.total /\ invoice'.payments = Left(invoice.payments, c)
  BY <1>1, <1>2, SavedCurrent DEF Current
<1>5. PICK p \in invoice.payments : p.id = c.id
  BY <1>1, CarefulIs DEF MayStill
<1>6. paid \in Nat /\ SumOf(invoice.payments) = paid + p.amount
  BY <1>5, SumOfLeft
<1>7. /\ p.amount \in Nat /\ invoice.total \in Int /\ invoice.total > 0 /\ invoice.paid \in Int
      /\ credited \in Int
  BY AmountOfPayment, AmountIsNat, InvoiceInts DEF Shape, TypeOK
<1>8. SumOf(invoice'.payments) = paid
  BY <1>4
<1> HIDE DEF paid, c
<1>9. Held'
  BY <1>3, <1>4, <1>6, <1>7, <1>8 DEF Careful, Held
<1>10. StatusSays'
  BY <1>4, <1>6, <1>7 DEF StatusSays, Outstanding
<1>11. ReceiptsSay'
  BY <1>3, <1>4, SameReceipts DEF Left, Careful
<1>12. OneAtATime' /\ CallsCareful'
  BY <1>1, <1>2, CarefulCalls
<1> QED
  BY <1>9, <1>10, <1>11, <1>12 DEF Careful

LEMMA CarefulAmend ==
    ASSUME Shape, Balanced, Careful, NEW a \in Actors, SaveAmend(a) PROVE Careful'
<1> DEFINE c == call[a]
<1>1. /\ c # Idle /\ c.at = "amend" /\ c.amount \in Amounts /\ call'[a] = Idle /\ OthersKept(a)
      /\ \/ invoice' = invoice
         \/ Saved(c.doc, c.doc.paid, c.amount - c.doc.paid, StatusAmended(c), c.amount,
                  invoice.payments)
  BY SaveAmendStep
<1>2. /\ \A b \in Actors : b # a => call[b] = Idle
      /\ Current(c) /\ invoice.paid <= c.amount
  BY <1>1, CarefulIs DEF Reading, MayStill
<1>3. request' = request /\ credited' = credited
  BY DEF SaveAmend
<1>4. OneAtATime' /\ CallsCareful'
  BY <1>1, <1>2, CarefulCalls
<1>5. CASE invoice' = invoice
  BY <1>3, <1>4, <1>5, CarefulMoney DEF SameMoney, SameAnswered, Careful
<1>6. CASE Saved(c.doc, c.doc.paid, c.amount - c.doc.paid, StatusAmended(c), c.amount,
                 invoice.payments)
  <2>1. /\ invoice'.paid = invoice.paid /\ invoice'.balance = c.amount - invoice.paid
        /\ invoice'.total = c.amount /\ invoice'.payments = invoice.payments
        /\ invoice'.status = IF invoice.status = "draft" THEN "draft"
                             ELSE Outstanding(invoice.paid, c.amount - invoice.paid)
    BY <1>2, <1>6, SavedCurrent DEF Current, StatusAmended
  <2>2. /\ c.amount \in Nat \ {0} /\ invoice.paid \in Int /\ SumOf(invoice.payments) \in Nat
        /\ credited \in Int
    BY <1>1, AmountIsNat, InvoiceInts, HeldNat DEF Shape, TypeOK
  <2>3. Held'
    BY <1>2, <1>3, <2>1, <2>2 DEF Careful, Held
  <2>4. 0 <= invoice.paid
    BY <2>2 DEF Careful, Held
  <2>5. invoice.status = "draft" => invoice.paid = 0
    BY DEF Careful, StatusSays
  <2>6. StatusSays'
    BY <2>1, <2>2, <2>4, <2>5 DEF StatusSays, Outstanding
  <2>7. ReceiptsSay'
    BY <1>3, <2>1 DEF Careful, ReceiptsSay
  <2> QED
    BY <1>4, <2>3, <2>6, <2>7 DEF Careful
<1> QED
  BY <1>1, <1>5, <1>6

LEMMA CarefulSend ==
    ASSUME Shape, Balanced, Careful, NEW a \in Actors, SaveSend(a) PROVE Careful'
<1>1. SaveSendIs(a)
  BY SaveSendStep
<1>2. (\A b \in Actors : b # a => call[b] = Idle) /\ invoice.status = "draft"
  BY <1>1, CarefulIs DEF SaveSendIs, Ends, MayStill
<1>3. request' = request /\ credited' = credited
  BY DEF SaveSend
<1>4. OneAtATime' /\ CallsCareful'
  BY <1>1, <1>2, CarefulCalls DEF SaveSendIs, Ends
<1>5. Held' /\ StatusSays' /\ ReceiptsSay'
  BY <1>1, <1>2, <1>3 DEF SaveSendIs, Careful, Held, StatusSays, ReceiptsSay
<1> QED
  BY <1>4, <1>5 DEF Careful
LEMMA CarefulTarget ==
    ASSUME Shape, Balanced, Careful, NEW a \in Actors, Target(a) PROVE Careful'
<1>1. TargetIs(a) /\ call[a] # Idle
  BY TargetStep DEF TargetIs, Ends
<1>2. (\A b \in Actors : b # a => call[b] = Idle) /\ call[a].note.applied < Credit
  BY <1>1, CarefulIs DEF TargetIs, MayStill
<1>3. UNCHANGED <<invoice, request, credited>>
  BY DEF Target
<1>4. Held' /\ StatusSays' /\ ReceiptsSay'
  BY <1>3, CarefulMoney DEF SameMoney, SameAnswered
<1>5. OneAtATime' /\ CallsCareful'
  <2>1. CASE Ends(a)
    BY <1>2, <2>1, CarefulCalls DEF Ends
  <2>2. CASE ~Ends(a)
    <3>1. /\ invoice.status # "void" /\ OthersKept(a)
          /\ call'[a].at = "apply" /\ call'[a].doc = Figures /\ call'[a].amount = AmountToApply(a)
          /\ call'[a].req = call[a].req
      BY <1>1, <2>2 DEF TargetIs
    <3>2. Current(call[a])'
      BY <1>3, <3>1, FiguresTyped DEF Current, Shape, TypeOK
    <3>3. invoice.balance \in Int /\ 0 <= invoice.balance
      BY InvoiceInts DEF Balanced, AddsUp, Careful, Held, Shape, TypeOK
    <3>4. call[a].note.applied \in Int
      BY <1>1 DEF TargetIs, Note
    <3>5. 0 <= call'[a].amount /\ call'[a].amount <= invoice.balance
      BY <1>2, <3>1, <3>3, <3>4, AmountsAssumption DEF AmountToApply, Room
    <3>6. MayStill(call[a])'
      BY <1>3, <3>1, <3>5 DEF MayStill
    <3>7. Waits(call[a])'
      BY <1>1, <1>3, <3>1, CarefulIs DEF Waits
    <3> QED
      BY <1>2, <3>1, <3>2, <3>6, <3>7, CarefulCalls
  <2> QED
    BY <2>1, <2>2
<1> QED
  BY <1>4, <1>5 DEF Careful

LEMMA CarefulApply ==
    ASSUME Shape, Balanced, Careful, NEW a \in Actors, ApplySave(a) PROVE Careful'
<1> DEFINE c == call[a]
<1>1. /\ Goes(a, "count") /\ c.at = "apply" /\ c \in Call /\ credited' = credited + c.amount
      /\ Saved(c.doc, c.doc.paid + c.amount, c.doc.balance - c.amount, StatusApplied(c),
               invoice.total, invoice.payments)
  BY ApplySaveStep DEF ApplySaveIs
<1>2. /\ \A b \in Actors : b # a => call[b] = Idle
      /\ Current(c) /\ 0 <= c.amount /\ c.amount <= invoice.balance
      /\ c.req \in Requests => request[c.req].status = "pending"
  BY <1>1, CarefulIs DEF Goes, Reading, MayStill, Waits
<1>3. request' = request
  BY DEF ApplySave
<1>4. /\ invoice'.paid = invoice.paid + c.amount /\ invoice'.balance = invoice.balance - c.amount
      /\ invoice'.total = invoice.total /\ invoice'.payments = invoice.payments
      /\ invoice'.status = IF invoice.balance - c.amount <= 0 THEN "paid"
                           ELSE IF invoice.paid + c.amount > 0 THEN "partial" ELSE invoice.status
  BY <1>1, <1>2, SavedCurrent DEF Current, StatusApplied
<1>5. /\ c.amount \in Int /\ invoice.paid \in Int /\ invoice.balance \in Int /\ invoice.total \in Int
      /\ invoice.total > 0 /\ invoice.paid + invoice.balance = invoice.total /\ credited \in Int
      /\ SumOf(invoice.payments) \in Nat /\ invoice.status # "void"
  BY <1>1, <1>2, InvoiceInts, HeldNat DEF Call, Current, Shape, TypeOK, Balanced, AddsUp
<1> HIDE DEF c
<1>6. Held'
  BY <1>1, <1>2, <1>4, <1>5 DEF Careful, Held
<1>7. 0 <= invoice.paid /\ (invoice.status = "paid" => invoice.balance <= 0)
      /\ (invoice.paid = 0 => invoice.status \in {"draft", "sent"})
  BY <1>5 DEF Careful, Held, StatusSays
<1>8. StatusSays'
  BY <1>2, <1>4, <1>5, <1>7 DEF StatusSays
<1>9. ReceiptsSay'
  BY <1>3, <1>4 DEF Careful, ReceiptsSay
<1>10. OneAtATime' /\ CallsCareful'
  <2>1. call'[a].at = "count" /\ call'[a].req = c.req /\ OthersKept(a)
    BY <1>1 DEF Goes, c
  <2>2. MayStill(call[a])' /\ Waits(call[a])' /\ call'[a].at \notin Reading
    BY <1>2, <1>3, <2>1 DEF MayStill, Waits, Reading
  <2> QED
    BY <1>2, <2>1, <2>2, CarefulCalls
<1> QED
  BY <1>6, <1>7, <1>8, <1>9, <1>10 DEF Careful

\* The call goes on or ends, and the money is left.
LEMMA CarefulGoes ==
    ASSUME Careful, NEW a \in Actors, NEW at, Goes(a, at) \/ Ends(a), SameMoney, SameAnswered,
           at \notin {"edit", "remove", "amend", "send", "target", "apply", "stamp", "mark"},
           at = "save" => /\ call'[a].doc = Figures /\ Takes(invoice, call[a].amount)
                          /\ invoice \in Invoice,
           Goes(a, at) /\ call[a].req \in Requests =>
               request'[call[a].req].status = request[call[a].req].status
    PROVE  Careful'
<1>1. OthersKept(a) /\ \A b \in Actors : b # a => call[b] = Idle
  BY CarefulIs DEF Goes, Ends
<1>2. CASE Ends(a)
  BY <1>1, <1>2, CarefulCalls, CarefulMoney DEF Ends, Careful
<1>3. CASE Goes(a, at)
  <2>1. /\ call[a] # Idle /\ call'[a].at = at /\ call'[a].req = call[a].req
        /\ call'[a].amount = call[a].amount
    BY <1>3 DEF Goes
  <2>2. at \in Reading => Current(call[a])'
    BY <2>1, FiguresTyped DEF Current, Reading, SameMoney, Takes
  <2>3. MayStill(call[a])'
    BY <2>1 DEF MayStill, SameMoney, Takes
  <2>4. Waits(call[a])'
    BY <1>3, <2>1, CarefulIs DEF Waits
  <2> QED
    BY <1>1, <2>1, <2>2, <2>3, <2>4, CarefulCalls, CarefulMoney DEF Careful
<1> QED
  BY <1>2, <1>3

LEMMA CarefulApproval ==
    ASSUME Shape, Careful, NEW a \in Actors,
           Weigh(a) \/ ReadToRecord(a) \/ Back(a) \/ Count(a) \/ Die(a) \/ Throw(a)
    PROVE  Careful'
<1>1. SameMoney /\ SameAnswered /\ request' = request
  BY DEF Weigh, ReadToRecord, Back, Count, Die, Throw, SameMoney, SameAnswered
<1>2. ASSUME Weigh(a) PROVE Careful'
  <2>1. Goes(a, "receipt") \/ Goes(a, "claim") \/ Ends(a)
    BY <1>2, WeighStep
  <2> QED
    BY <1>1, <2>1, CarefulGoes
<1>3. ASSUME ReadToRecord(a) PROVE Careful'
  <2>1. \/ Goes(a, "receipt")
        \/ Goes(a, "save") /\ Takes(invoice, call[a].amount) /\ call'[a].doc = Figures
        \/ Goes(a, "unset")
    BY <1>3, ReadToRecordStep DEF ReadToRecordIs
  <2>2. invoice \in Invoice
    BY DEF Shape, TypeOK
  <2> QED
    BY <1>1, <2>1, <2>2, CarefulGoes
<1>4. ASSUME Back(a) PROVE Careful'
  BY <1>1, <1>4, BackStep, CarefulGoes
<1>5. ASSUME Count(a) \/ Die(a) PROVE Careful'
  <2>1. Ends(a)
    BY <1>5, CountStep, DieStep
  <2>2. /\ "idle" \notin {"edit", "remove", "amend", "send", "target", "apply", "stamp", "mark"}
        /\ "idle" # "save"
    OBVIOUS
  <2> QED
    BY <1>1, <2>1, <2>2, CarefulGoes
<1>6. ASSUME Throw(a) PROVE Careful'
  BY <1>1, <1>6, ThrowStep, CarefulGoes
<1> QED
  BY <1>2, <1>3, <1>4, <1>5, <1>6

LEMMA CarefulClaim ==
    ASSUME Shape, Careful, NEW a \in Actors, Claim(a) \/ Unset(a) PROVE Careful'
<1> DEFINE r == call[a].req
<1>1. /\ Goes(a, "read") \/ Ends(a)
      /\ request' = request \/ \E claimed \in BOOLEAN : request' = [request EXCEPT ![r].claimed = claimed]
      /\ r \in Requests
  BY ClaimStep, UnsetStep DEF ClaimIs, UnsetIs
<1>2. SameMoney
  BY DEF Claim, Unset, SameMoney
<1>3. \A s \in Requests : /\ request'[s].status = request[s].status
                          /\ request'[s].receipt = request[s].receipt
  BY <1>1, RequestClaimed
<1>4. SameAnswered
  BY <1>3 DEF SameAnswered
<1> QED
  BY <1>1, <1>2, <1>3, <1>4, CarefulGoes

LEMMA CarefulReceipt ==
    ASSUME Shape, Promises, Careful, NEW a \in Actors, Receipt(a) PROVE Careful'
<1> DEFINE r == call[a].req
<1>1. ReceiptIs(a) /\ r \in Requests
  BY ReceiptStep DEF ReceiptIs
<1>2. SameMoney /\ SameAnswered /\ request' = request
  BY DEF Receipt, SameMoney, SameAnswered
<1>3. CASE Ends(a)
  <2>1. /\ "idle" \notin {"edit", "remove", "amend", "send", "target", "apply", "stamp", "mark"}
        /\ "idle" # "save"
    OBVIOUS
  <2> QED
    BY <1>2, <1>3, <2>1, CarefulGoes
<1>4. CASE ~Ends(a)
  <2>1. PICK p \in invoice.payments :
           /\ p.ref = r
           /\ \/ Goes(a, "mark") /\ call'[a].number = p.receipt
              \/ p.receipt = NoNumber /\ Goes(a, "stamp")
    BY <1>1, <1>4 DEF ReceiptIs
  <2>2. \A q \in invoice.payments : q.ref = r => q = p
    BY <1>1, <2>1, NoneAssumption DEF Promises, OnceOnInvoice
  <2>3. /\ call[a] # Idle /\ OthersKept(a) /\ call'[a].req = r
        /\ \/ call'[a].at = "mark" /\ call'[a].number = p.receipt
           \/ call'[a].at = "stamp" /\ p.receipt = NoNumber
    BY <2>1 DEF Goes
  <2>4. (\A b \in Actors : b # a => call[b] = Idle) /\ request[r].status = "pending"
    BY <1>1, <2>3, CarefulIs DEF Waits
  <2>5. MayStill(call[a])' /\ call'[a].at \notin Reading
    BY <2>3 DEF MayStill, Reading
  <2>6. Waits(call[a])'
    BY <1>2, <2>2, <2>3, <2>4 DEF Waits, SameMoney
  <2> QED
    BY <1>2, <2>3, <2>4, <2>5, <2>6, CarefulCalls, CarefulMoney DEF Careful
<1> QED
  BY <1>3, <1>4

\* The payment has the number, and the request is not answered yet.
LEMMA CarefulStamp ==
    ASSUME Shape, Promises, Careful, NEW a \in Actors, StampReceipt(a) PROVE Careful'
<1> DEFINE c == call[a]
<1>1. /\ StampReceiptIs(a) /\ c.at = "stamp" /\ c \in Call /\ c.req \in Requests /\ c # Idle
      /\ OthersKept(a) /\ call'[a].at = "mark" /\ call'[a].req = c.req /\ call'[a].number = c.number
      /\ invoice'.payments = WithReceipt(c)
  BY StampReceiptStep DEF StampReceiptIs, Goes
<1>2. /\ \A b \in Actors : b # a => call[b] = Idle
      /\ request[c.req].status = "pending"
      /\ \A p \in invoice.payments : p.ref = c.req => p.receipt = NoNumber
  BY <1>1, CarefulIs DEF Waits
<1>3. request' = request /\ credited' = credited
  BY DEF StampReceipt
<1>4. \A q \in invoice'.payments : \E p \in invoice.payments :
         /\ q.ref = p.ref
         /\ q = IF p.ref = c.req /\ p.receipt = NoNumber THEN [p EXCEPT !.receipt = c.number] ELSE p
  BY <1>1, WithReceiptIs
<1> HIDE DEF c
<1>5. \A q \in invoice'.payments : q.ref = c.req => q.receipt = c.number
  BY <1>2, <1>4, AmountOfPayment DEF Payment
<1>6. \A q \in invoice'.payments : q.ref # c.req => q \in invoice.payments
  BY <1>4
<1>7. SumOf(invoice'.payments) = SumOf(invoice.payments)
  BY <1>1, SumOfWithReceipt
<1>8. Held' /\ StatusSays'
  BY <1>1, <1>3, <1>7 DEF StampReceiptIs, Careful, Held, StatusSays
<1>9. ReceiptsSay'
  BY <1>2, <1>3, <1>6 DEF Careful, ReceiptsSay
<1>10. Waits(call[a])' /\ MayStill(call[a])' /\ call'[a].at \notin Reading
  BY <1>1, <1>2, <1>3, <1>5 DEF Waits, MayStill, Reading
<1> QED
  BY <1>1, <1>2, <1>8, <1>9, <1>10, CarefulCalls DEF Careful, c

LEMMA CarefulMark ==
    ASSUME Shape, Careful, NEW a \in Actors, Mark(a) PROVE Careful'
<1> DEFINE r == call[a].req
<1>1. MarkIs(a) /\ call[a] # Idle /\ call[a].at = "mark" /\ call'[a] = Idle /\ OthersKept(a)
  BY MarkStep DEF MarkIs, Ends
<1>2. /\ \A b \in Actors : b # a => call[b] = Idle
      /\ \A p \in invoice.payments : p.ref = r => p.receipt = call[a].number
  BY <1>1, CarefulIs DEF Waits
<1>3. UNCHANGED <<invoice, credited>>
  BY DEF Mark
<1>4. Held' /\ StatusSays'
  BY <1>3 DEF Careful, Held, StatusSays
<1>5. ReceiptsSay'
  BY <1>1, <1>2, <1>3 DEF MarkIs, Careful, ReceiptsSay
<1> QED
  BY <1>1, <1>2, <1>4, <1>5, CarefulCalls DEF Careful

\* The steps that begin and end at once: noticed where a call is in progress.
LEMMA CarefulAtOnce ==
    ASSUME Shape, Balanced, Careful, ~raced',
           \/ Void \/ Restore \/ Issue \/ VoidNote \/ UNCHANGED vars
           \/ \E r \in Requests : Reject(r) \/ \E amount \in Amounts : Intake(r, amount)
    PROVE  Careful'
<1>1. ASSUME Void \/ Restore \/ VoidNote \/ \E r \in Requests : Reject(r)
      PROVE  OneAtATime' /\ CallsCareful' /\ \A a \in Actors : call[a] = Idle
  BY <1>1 DEF Void, Restore, VoidNote, Reject, Together, OneAtATime, CallsCareful
<1>2. ASSUME Void PROVE Careful'
  <2>1. /\ invoice'.status = "void" /\ invoice'.paid = invoice.paid
        /\ invoice'.total = invoice.total /\ invoice'.payments = invoice.payments
        /\ credited' = credited /\ request' = request
    BY <1>2 DEF Void, Shape, TypeOK, Invoice
  <2> QED
    BY <1>1, <1>2, <2>1 DEF Careful, Held, StatusSays, ReceiptsSay
<1>3. ASSUME Restore PROVE Careful'
  <2>1. /\ invoice'.paid = invoice.paid /\ invoice'.total = invoice.total
        /\ invoice'.payments = invoice.payments /\ credited' = credited /\ request' = request
        /\ invoice'.balance = invoice.total - invoice.paid
        /\ invoice'.status = IF invoice.paid <= 0 THEN "draft"
                             ELSE IF invoice.paid >= invoice.total THEN "paid" ELSE "partial"
    BY <1>3 DEF Restore, Shape, TypeOK, Invoice
  <2>2. /\ invoice.paid \in Int /\ invoice.total \in Int /\ invoice.total > 0 /\ 0 <= invoice.paid
    BY InvoiceInts, HeldNat DEF Careful, Held, Shape, TypeOK
  <2>3. StatusSays'
    BY <2>1, <2>2 DEF StatusSays
  <2>4. Held' /\ ReceiptsSay'
    BY <2>1 DEF Careful, Held, ReceiptsSay
  <2> QED
    BY <1>1, <1>3, <2>3, <2>4 DEF Careful
<1>4. ASSUME VoidNote PROVE Careful'
  BY <1>1, <1>4, CarefulMoney DEF VoidNote, SameMoney, SameAnswered, Careful
<1>5. ASSUME NEW r \in Requests, Reject(r) PROVE Careful'
  <2>1. SameMoney
    BY <1>5 DEF Reject, SameMoney
  <2>2. SameAnswered
    BY <1>5 DEF Reject, SameAnswered, Shape, TypeOK, Request
  <2> QED
    BY <1>1, <1>5, <2>1, <2>2, CarefulMoney DEF Careful
<1>6. ASSUME Issue \/ UNCHANGED vars PROVE Careful'
  <2>1. UNCHANGED <<invoice, call, request, credited>>
    BY <1>6 DEF Issue, vars
  <2> QED
    BY <2>1 DEF Careful, OneAtATime, CallsCareful, Current, MayStill, Waits, Left, Held, StatusSays,
       ReceiptsSay
<1>7. ASSUME NEW r \in Requests, NEW amount \in Amounts, Intake(r, amount) PROVE Careful'
  <2>1. SameMoney /\ call' = call /\ invoice' = invoice
    BY <1>7 DEF Intake, SameMoney
  <2>2. SameAnswered /\ \A s \in Requests : request[s].status = "pending" => request'[s].status = "pending"
    BY <1>7 DEF Intake, SameAnswered, Shape, TypeOK, Request
  <2>3. OneAtATime' /\ CallsCareful'
    BY <2>1, <2>2 DEF Careful, OneAtATime, CallsCareful, Current, MayStill, Waits, Left
  <2> QED
    BY <2>1, <2>2, <2>3, CarefulMoney DEF Careful
<1> QED
  BY <1>2, <1>3, <1>4, <1>5, <1>6, <1>7

\* What crosses has overlapped.
CrossedHasRaced == crossed => raced

LEMMA RacedStays == [Next]_vars /\ CrossedHasRaced => CrossedHasRaced' /\ (raced => raced')
<1> SUFFICES ASSUME [Next]_vars, CrossedHasRaced PROVE CrossedHasRaced' /\ (raced => raced')
  OBVIOUS
<1>1. ASSUME NEW a \in Actors, Start(a) PROVE CrossedHasRaced' /\ (raced => raced')
  <2>1. \E new : Begin(a, new)
    BY <1>1 DEF Start, Record, Remove, Edit, Amend, Send, Apply, Approve
  <2> QED
    BY <2>1 DEF Begin, Together, CrossedHasRaced
<1>2. ASSUME NEW a \in Actors, Continue(a) \/ Die(a) \/ Throw(a)
      PROVE  UNCHANGED <<raced, crossed>>
  BY <1>2 DEF Continue, SaveRecorded, SaveEdit, SaveRemove, SaveAmend, SaveSend, Target, ApplySave,
     Count, Weigh, Claim, ReadToRecord, Back, Unset, Receipt, StampReceipt, Mark, Die, Throw
<1>3. ASSUME \/ Void \/ Restore \/ Issue \/ VoidNote \/ UNCHANGED vars
             \/ \E r \in Requests : Reject(r) \/ \E amount \in Amounts : Intake(r, amount)
      PROVE  crossed' = crossed /\ (raced => raced')
  <2>1. crossed' = crossed
    BY <1>3 DEF Void, Restore, Issue, VoidNote, Reject, Intake, vars
  <2>2. ASSUME raced PROVE raced'
    BY <1>3, <2>2 DEF Void, Restore, Issue, VoidNote, Reject, Intake, vars
  <2> QED
    BY <2>1, <2>2
<1> QED
  BY <1>1, <1>2, <1>3 DEF Next, CrossedHasRaced

CarefulTillRaced == CrossedHasRaced /\ (~raced => Careful)

LEMMA CarefulNext ==
    Shape /\ Promises /\ BalancedTillCrossed /\ CarefulTillRaced /\ [Next]_vars => CarefulTillRaced'
<1> SUFFICES ASSUME Shape, Promises, Balanced, Careful, ~raced', [Next]_vars PROVE Careful'
  BY RacedStays DEF CarefulTillRaced, CrossedHasRaced, BalancedTillCrossed
<1>1. ASSUME NEW a \in Actors, Start(a) PROVE Careful'
  BY <1>1, CarefulStart
<1>2. ASSUME NEW a \in Actors, Continue(a) PROVE Careful'
  BY <1>2, CarefulRecorded, CarefulEdit, CarefulRemove, CarefulAmend, CarefulSend, CarefulTarget,
     CarefulApply, CarefulApproval, CarefulClaim, CarefulReceipt, CarefulStamp, CarefulMark
  DEF Continue
<1>3. ASSUME NEW a \in Actors, Die(a) \/ Throw(a) PROVE Careful'
  BY <1>3, CarefulApproval
<1> QED
  BY <1>1, <1>2, <1>3, CarefulAtOnce DEF Next

LEMMA CarefulInit == Init => CarefulTillRaced
<1> SUFFICES ASSUME Init PROVE CarefulTillRaced
  OBVIOUS
<1>1. Held
  BY SumOfNone, AmountsAssumption DEF Init, Held
<1>2. StatusSays /\ ReceiptsSay
  BY AmountsAssumption DEF Init, StatusSays, ReceiptsSay
<1>3. OneAtATime /\ CallsCareful /\ CrossedHasRaced
  BY DEF Init, OneAtATime, CallsCareful, CrossedHasRaced
<1> QED
  BY <1>1, <1>2, <1>3 DEF CarefulTillRaced, Careful

LEMMA AlwaysCareful == Spec => []CarefulTillRaced
<1> QED
  BY CarefulInit, CarefulNext, AlwaysPromises, AlwaysBalanced, PTL DEF Spec

\* One call at a time, whatever is recorded, edited, deleted, credited, voided and restored,
\* dies or throws: what counts as paid is no less than the payments the invoice holds, no
\* more than they and the credit put on it, which may be lost again, and never over the total.
THEOREM HoldsWhatIsPaid == Spec => []PaidIsHeld
<1>1. CarefulTillRaced => PaidIsHeld
  BY DEF CarefulTillRaced, Careful, Held, PaidIsHeld
<1> QED
  BY <1>1, AlwaysCareful, PTL

\* One call at a time: the invoice reads as paid exactly when nothing is left to pay, and as
\* unpaid only when nothing counts as paid, however the status came about (the three ways
\* the code figures it: StatusFor, Outstanding and that of a credit note).
THEOREM StatusIsRight == Spec => []StatusAgrees
<1>1. CarefulTillRaced => StatusAgrees
  BY DEF CarefulTillRaced, Careful, StatusSays, StatusAgrees
<1> QED
  BY <1>1, AlwaysCareful, PTL

\* One call at a time, deaths and failures included: the receipt the CRM reads of a payment is
\* the one on it (issueReceipt and what decideBalancePayment does next).
THEOREM ReceiptIsRight == Spec => []ReceiptAgrees
<1>1. CarefulTillRaced => ReceiptAgrees
  BY DEF CarefulTillRaced, Careful, ReceiptsSay, ReceiptAgrees
<1> QED
  BY <1>1, AlwaysCareful, PTL
=============================================================================
