---------------------------- MODULE OfficeProofs ----------------------------
(***************************************************************************)
(* Theorems about what is done from the dashboard: the cards kept by       *)
(* CreditCards, the pages kept by Pages, the editions kept by Editions,    *)
(* the articles edited by Editor and the short links kept by Ponglinks.    *)
(* But for the cards they are invariants of MCOffice; each rests on an     *)
(* invariant of its component, which the steps of the others leave alone.  *)
(***************************************************************************)
EXTENDS MCOffice, Sequences, SequenceTheorems, FiniteSetTheorems, TLAPS

-----------------------------------------------------------------------------
(* Credit cards: any number of requests at a time, and cards which change currency *)

LEMMA AbsentType ==
  ASSUME Currencies # {}
  PROVE  Absent \in CardRec
<1>1. (CHOOSE c \in Currencies : TRUE) \in Currencies
  OBVIOUS
<1>2. QED
  BY <1>1 DEF Absent, CardRec

LEMMA FormInhabited ==
  ASSUME Cards # {}, Currencies # {}
  PROVE  NoForm \in Form
<1>1. PICK c \in Cards, cur \in Currencies : TRUE
  OBVIOUS
<1>2. [card |-> c, currency |-> cur, default |-> FALSE, reset |-> cur] \in Form
  BY DEF Form
<1>3. QED
  BY <1>2 DEF NoForm

LEMMA InitType ==
  ASSUME Cards # {}, Currencies # {}
  PROVE  Init => TypeOK
BY AbsentType, FormInhabited DEF Init, TypeOK, PCs

LEMMA ResetType ==
  ASSUME TypeOK, NEW cur \in Currencies, Reset(cur)
  PROVE  /\ cards' \in [Cards -> CardRec]
         /\ past' \in [crossed : SUBSET Managers, spoilt : SUBSET Currencies]
<1>1. ASSUME NEW c \in Cards
      PROVE  (IF cards[c].currency = cur THEN [cards[c] EXCEPT !.default = FALSE] ELSE cards[c])
                \in CardRec
  BY DEF TypeOK, CardRec
<1>2. QED
  BY <1>1 DEF Reset, TypeOK

LEMMA StoredType ==
  ASSUME Cards # {}, Currencies # {}, TypeOK, NEW m \in Managers, Stored(m)
  PROVE  /\ pc' \in [Managers -> PCs] /\ form' \in [Managers -> Form]
         /\ past' \in [crossed : SUBSET Managers, spoilt : SUBSET Currencies]
         /\ pc'[m] = "idle"
         /\ \A n \in Managers : n # m => pc'[n] = pc[n] /\ form'[n] = form[n]
<1>1. form[m].currency \in Currencies /\ Storing(form[m].currency) \subseteq Managers
  BY DEF TypeOK, Form, Storing
<1>2. past' \in [crossed : SUBSET Managers, spoilt : SUBSET Currencies]
  BY <1>1 DEF TypeOK, Stored
<1>3. QED
  BY <1>2, FormInhabited DEF TypeOK, Stored, PCs

LEMMA StepType ==
  ASSUME Cards # {}, Currencies # {}, TypeOK, [Next]_vars
  PROVE  TypeOK'
<1>1. ASSUME NEW m \in Managers, StartCreate(m)
      PROVE  TypeOK'
  <2>1. PICK c \in Cards, cur \in Currencies, def \in BOOLEAN :
          /\ form' = [form EXCEPT ![m] = [card |-> c, currency |-> cur, default |-> def,
                                          reset |-> cur]]
          /\ pc' = [pc EXCEPT ![m] = IF def THEN "create.reset" ELSE "create.insert"]
    BY <1>1 DEF StartCreate
  <2>2. form' \in [Managers -> Form]
    BY <2>1 DEF TypeOK, Form
  <2>3. pc' \in [Managers -> PCs]
    BY <2>1 DEF TypeOK, PCs
  <2>4. QED
    BY <1>1, <2>2, <2>3 DEF TypeOK, StartCreate
<1>2. ASSUME NEW m \in Managers, CreateReset(m)
      PROVE  TypeOK'
  <2>1. form[m].reset \in Currencies
    BY DEF TypeOK, Form
  <2>2. cards' \in [Cards -> CardRec] /\ past' \in [crossed : SUBSET Managers, spoilt : SUBSET Currencies]
    BY <1>2, <2>1, ResetType DEF CreateReset
  <2>3. QED
    BY <1>2, <2>2 DEF TypeOK, CreateReset, PCs
<1>3. ASSUME NEW m \in Managers, CreateInsert(m)
      PROVE  TypeOK'
  <2>1. [stored |-> TRUE, currency |-> form[m].currency, default |-> form[m].default] \in CardRec
    BY DEF TypeOK, Form, CardRec
  <2>2. cards' \in [Cards -> CardRec]
    BY <1>3, <2>1 DEF TypeOK, CreateInsert
  <2>3. QED
    BY <1>3, <2>2, StoredType DEF TypeOK, CreateInsert
<1>4. ASSUME NEW m \in Managers, StartUpdate(m)
      PROVE  TypeOK'
  <2>1. PICK c \in Cards, cur \in Currencies, def \in BOOLEAN :
          form' = [form EXCEPT ![m] = [card |-> c, currency |-> cur,
                                       default |-> def, reset |-> cur]]
    BY <1>4 DEF StartUpdate
  <2>2. form' \in [Managers -> Form]
    BY <2>1 DEF TypeOK, Form
  <2>3. QED
    BY <1>4, <2>2 DEF TypeOK, StartUpdate, PCs
<1>5. ASSUME NEW m \in Managers, UpdateFind(m)
      PROVE  TypeOK'
  <2>1. cards[form[m].card].currency \in Currencies
    BY DEF TypeOK, Form, CardRec
  <2>2. [form EXCEPT ![m].reset = cards[form[m].card].currency] \in [Managers -> Form]
    BY <2>1 DEF TypeOK, Form
  <2>3. [form EXCEPT ![m] = NoForm] \in [Managers -> Form]
    BY FormInhabited DEF TypeOK
  <2>4. form' \in [Managers -> Form]
    BY <1>5, <2>2, <2>3 DEF UpdateFind
  <2>5. pc' \in [Managers -> PCs]
    BY <1>5 DEF TypeOK, UpdateFind, PCs
  <2>6. QED
    BY <1>5, <2>4, <2>5 DEF TypeOK, UpdateFind
<1>6. ASSUME NEW m \in Managers, UpdateReset(m)
      PROVE  TypeOK'
  <2>1. form[m].reset \in Currencies
    BY DEF TypeOK, Form
  <2>2. cards' \in [Cards -> CardRec] /\ past' \in [crossed : SUBSET Managers, spoilt : SUBSET Currencies]
    BY <1>6, <2>1, ResetType DEF UpdateReset
  <2>3. QED
    BY <1>6, <2>2 DEF TypeOK, UpdateReset, PCs
<1>7. ASSUME NEW m \in Managers, UpdateWrite(m)
      PROVE  TypeOK'
  <2>1. /\ form[m].card \in Cards
        /\ form[m].currency \in Currencies
        /\ form[m].default \in BOOLEAN
    BY DEF TypeOK, Form
  <2>2. cards' \in [Cards -> CardRec]
    BY <1>7, <2>1 DEF TypeOK, UpdateWrite, CardRec
  <2>3. QED
    BY <1>7, <2>2, StoredType DEF TypeOK, UpdateWrite
<1>8. ASSUME NEW c \in Cards, Delete(c)
      PROVE  TypeOK'
  BY <1>8, AbsentType DEF TypeOK, Delete
<1>9. CASE UNCHANGED vars
  BY <1>9 DEF TypeOK, vars
<1>10. QED
  BY <1>1, <1>2, <1>3, <1>4, <1>5, <1>6, <1>7, <1>8, <1>9 DEF Next

\* A card is a card, and a request is at one of its round trips, whatever the number of
\* requests served at a time (lib/creditcards.js:115-199).
THEOREM CardsTyped ==
  ASSUME Cards # {}, Currencies # {}
  PROVE  Spec => []TypeOK
<1>1. Init => TypeOK
  BY InitType
<1>2. TypeOK /\ [Next]_vars => TypeOK'
  BY StepType
<1>3. QED
  BY <1>1, <1>2, PTL DEF Spec

-----------------------------------------------------------------------------
(* One default a currency *)

\* What a request which is about to store a default knows: the currency it reset, if that is the one it
\* stores the default in, has none, or another default was stored in it since.
Underway(m) ==
    /\ pc[m] = "create.reset" => form[m].reset = form[m].currency
    /\ pc[m] \in {"create.insert", "update.write"} /\ form[m].default /\ m \notin past.crossed
       /\ form[m].reset = form[m].currency => Default(form[m].currency) = {}

IInv ==
    /\ TypeOK
    /\ OneDefault
    /\ \A m \in Managers : Underway(m)

LEMMA DefaultsAbsent ==
  ASSUME Init, NEW cur
  PROVE  Default(cur) = {}
BY DEF Init, Default, Absent

LEMMA InitInv ==
  ASSUME Cards # {}, Currencies # {}
  PROVE  Init => IInv
<1>1. SUFFICES ASSUME Init PROVE IInv
  OBVIOUS
<1>2. TypeOK
  BY <1>1, InitType
<1>3. OneDefault
  BY <1>1, DefaultsAbsent DEF OneDefault
<1>4. ASSUME NEW m \in Managers PROVE Underway(m)
  BY <1>1, <1>4 DEF Init, Underway
<1>5. QED
  BY <1>2, <1>3, <1>4 DEF IInv

\* A step which only moves one request, which is not about to store, or had none of its currency to fear.
LEMMA MovesOnly ==
  ASSUME IInv, NEW m \in Managers, cards' = cards, past' = past,
         \A n \in Managers : n # m => pc'[n] = pc[n] /\ form'[n] = form[n],
         pc'[m] = "create.reset" => form'[m].reset = form'[m].currency,
         pc'[m] \in {"create.insert", "update.write"} => ~form'[m].default
  PROVE  OneDefault' /\ \A n \in Managers : Underway(n)'
<1>1. \A cur : Default(cur)' = Default(cur)
  BY DEF Default
<1>2. OneDefault'
  BY <1>1 DEF IInv, OneDefault
<1>3. ASSUME NEW n \in Managers PROVE Underway(n)'
  <2>1. CASE n = m
    BY <2>1 DEF Underway
  <2>2. CASE n # m
    BY <2>2, <1>1 DEF IInv, Underway
  <2>3. QED
    BY <2>1, <2>2
<1>4. QED
  BY <1>2, <1>3

\* A request resets a currency: it has no default, and no other gains one.
LEMMA ResetKeeps ==
  ASSUME IInv, NEW m \in Managers, Reset(form[m].reset), form' = form, pc[m] \in {"create.reset", "update.reset"},
         pc'[m] \in {"create.insert", "update.write"}, \A n \in Managers : n # m => pc'[n] = pc[n]
  PROVE  OneDefault' /\ \A n \in Managers : Underway(n)'
<1>t. TypeOK
  BY DEF IInv
<1>r. form[m].reset \in Currencies
  BY <1>t DEF TypeOK, Form
<1>c. \A c \in Cards : /\ cards'[c].stored = cards[c].stored
                       /\ cards'[c].currency = cards[c].currency
                       /\ (cards'[c].default => cards[c].currency # form[m].reset /\ cards[c].default)
  BY <1>t DEF Reset, TypeOK, CardRec
<1>1. \A cur : Default(cur)' \subseteq Default(cur)
  BY <1>c DEF Default
<1>2. Default(form[m].reset)' = {}
  BY <1>c DEF Default
<1>p. past'.crossed = past.crossed \ Storing(form[m].reset) /\ past'.spoilt = past.spoilt \ {form[m].reset}
  BY DEF Reset
<1>3. OneDefault'
  BY <1>1, <1>2, <1>p DEF IInv, OneDefault
<1>4. ASSUME NEW n \in Managers PROVE Underway(n)'
  <2>1. CASE n = m
    BY <2>1, <1>2 DEF Underway
  <2>2. CASE n # m
    <3>1. Underway(n) /\ pc'[n] = pc[n] /\ form'[n] = form[n]
      BY <2>2 DEF IInv
    <3>2. CASE n \in Storing(form[m].reset)
      <4>1. form[n].currency = form[m].reset /\ pc[n] # "create.reset"
        BY <3>2 DEF Storing
      <4>2. QED
        BY <4>1, <3>1, <1>2 DEF Underway
    <3>3. CASE n \notin Storing(form[m].reset)
      <4>1. n \notin past'.crossed => n \notin past.crossed
        BY <3>3, <1>p
      <4>2. QED
        BY <4>1, <3>1, <1>1 DEF Underway
    <3>4. QED
      BY <3>2, <3>3
  <2>3. QED
    BY <2>1, <2>2
<1>5. QED
  BY <1>3, <1>4

\* A request stores its card: no other becomes a default, and whoever reset that currency before is crossed.
LEMMA StoredKeeps ==
  ASSUME Cards # {}, Currencies # {}, IInv, NEW m \in Managers, Stored(m),
         pc[m] \in {"create.insert", "update.write"}, NEW k \in Cards,
         \A cur : \A c \in Default(cur)' :
            c \in Default(cur) \/ (c = k /\ cur = form[m].currency /\ form[m].default)
  PROVE  OneDefault' /\ \A n \in Managers : Underway(n)'
<1> DEFINE own == form[m].currency
<1>t. TypeOK /\ Underway(m) /\ own \in Currencies
  BY DEF IInv, TypeOK, Form
<1>s. /\ pc'[m] = "idle"
      /\ \A n \in Managers : n # m => pc'[n] = pc[n] /\ form'[n] = form[n]
  BY <1>t, StoredType
<1>1. CASE ~form[m].default
  <2>1. past'.crossed = past.crossed \ {m} /\ past'.spoilt = past.spoilt
    BY <1>1, <1>t DEF Stored, TypeOK
  <2>2. \A cur : Default(cur)' \subseteq Default(cur)
    BY <1>1
  <2>3. OneDefault'
    BY <2>1, <2>2 DEF IInv, OneDefault
  <2>4. ASSUME NEW n \in Managers PROVE Underway(n)'
    <3>1. CASE n = m
      BY <3>1, <1>s DEF Underway
    <3>2. CASE n # m
      <4>1. Underway(n) /\ (n \notin past'.crossed => n \notin past.crossed)
        BY <3>2, <2>1 DEF IInv
      <4>2. QED
        BY <4>1, <3>2, <1>s, <2>2 DEF Underway
    <3>3. QED
      BY <3>1, <3>2
  <2>5. QED
    BY <2>3, <2>4
<1>2. CASE form[m].default
  <2>1. /\ past'.crossed = (past.crossed \union Storing(own)) \ {m}
        /\ past'.spoilt = IF m \in past.crossed \/ form[m].reset # own THEN past.spoilt \union {own} ELSE past.spoilt
    BY <1>2 DEF Stored
  <2>2. ASSUME NEW cur \in Currencies, cur \notin past'.spoilt, NEW c \in Default(cur)', NEW d \in Default(cur)'
        PROVE  c = d
    <3>1. cur \notin past.spoilt
      BY <2>1, <2>2
    <3>2. CASE cur # own
      <4>1. c \in Default(cur) /\ d \in Default(cur)
        BY <3>2, <2>2
      <4>2. QED
        BY <4>1, <3>1 DEF IInv, OneDefault
    <3>3. CASE cur = own
      <4>1. m \notin past.crossed /\ form[m].reset = own
        BY <2>1, <2>2, <3>3
      <4>2. Default(own) = {}
        BY <4>1, <1>2, <1>t DEF Underway
      <4>3. c = k /\ d = k
        BY <4>2, <3>3, <2>2
      <4>4. QED
        BY <4>3
    <3>4. QED
      BY <3>2, <3>3
  <2>3. OneDefault'
    BY <2>2 DEF OneDefault
  <2>4. ASSUME NEW n \in Managers PROVE Underway(n)'
    <3>1. CASE n = m
      BY <3>1, <1>s DEF Underway
    <3>2. CASE n # m
      <4>1. Underway(n) /\ pc'[n] = pc[n] /\ form'[n] = form[n]
        BY <3>2, <1>s DEF IInv
      <4>2. SUFFICES ASSUME pc[n] \in {"create.insert", "update.write"}, form[n].default, n \notin past'.crossed,
                            form[n].reset = form[n].currency
                     PROVE  Default(form[n].currency)' = {}
        BY <4>1 DEF Underway
      <4>3. n \notin past.crossed /\ n \notin Storing(own)
        BY <4>2, <3>2, <2>1
      <4>4. form[n].currency # own
        BY <4>2, <4>3 DEF Storing
      <4>5. Default(form[n].currency) = {}
        BY <4>1, <4>2, <4>3 DEF Underway
      <4>6. \A cur : cur # own /\ Default(cur) = {} => Default(cur)' = {}
        OBVIOUS
      <4>7. QED
        BY <4>1, <4>4, <4>5, <4>6
    <3>3. QED
      BY <3>1, <3>2
  <2>5. QED
    BY <2>3, <2>4
<1>3. QED
  BY <1>1, <1>2

LEMMA StepInv ==
  ASSUME Cards # {}, Currencies # {}, IInv, [Next]_vars
  PROVE  IInv'
<1>t. TypeOK'
  BY StepType DEF IInv
<1>a. TypeOK /\ OneDefault /\ \A m \in Managers : Underway(m)
  BY DEF IInv
<1> DEFINE Good == OneDefault' /\ \A n \in Managers : Underway(n)'
<1>1. ASSUME NEW m \in Managers, StartCreate(m) PROVE Good
  <2>1. PICK c \in Cards, cur \in Currencies, def \in BOOLEAN :
          /\ form' = [form EXCEPT ![m] = [card |-> c, currency |-> cur, default |-> def,
                                          reset |-> cur]]
          /\ pc' = [pc EXCEPT ![m] = IF def THEN "create.reset" ELSE "create.insert"]
    BY <1>1 DEF StartCreate
  <2>2. /\ form'[m] = [card |-> c, currency |-> cur, default |-> def, reset |-> cur]
        /\ pc'[m] = IF def THEN "create.reset" ELSE "create.insert"
        /\ \A n \in Managers : n # m => pc'[n] = pc[n] /\ form'[n] = form[n]
        /\ cards' = cards /\ past' = past
    BY <1>1, <1>a, <2>1 DEF TypeOK, StartCreate
  <2>3. QED
    BY <2>2, MovesOnly
<1>2. ASSUME NEW m \in Managers, CreateReset(m) PROVE Good
  <2>1. /\ pc[m] = "create.reset" /\ pc'[m] = "create.insert" /\ form' = form /\ Reset(form[m].reset)
        /\ \A n \in Managers : n # m => pc'[n] = pc[n]
    BY <1>2, <1>a DEF CreateReset, TypeOK
  <2>2. QED
    BY <2>1, ResetKeeps
<1>3. ASSUME NEW m \in Managers, CreateInsert(m) PROVE Good
  <2> DEFINE k == form[m].card
  <2>1. /\ k \in Cards /\ pc[m] = "create.insert" /\ Stored(m)
        /\ \A c \in Cards : cards'[c] = IF c = k
              THEN [stored |-> TRUE, currency |-> form[m].currency, default |-> form[m].default] ELSE cards[c]
    BY <1>3, <1>a DEF CreateInsert, TypeOK, Form
  <2>2. \A cur : \A c \in Default(cur)' :
            c \in Default(cur) \/ (c = k /\ cur = form[m].currency /\ form[m].default)
    BY <2>1 DEF Default
  <2> HIDE DEF k
  <2>3. QED
    BY <2>1, <2>2, StoredKeeps
<1>4. ASSUME NEW m \in Managers, StartUpdate(m) PROVE Good
  <2>1. /\ pc'[m] = "update.find" /\ cards' = cards /\ past' = past
        /\ \A n \in Managers : n # m => pc'[n] = pc[n] /\ form'[n] = form[n]
    BY <1>4, <1>a DEF StartUpdate, TypeOK
  <2>2. QED
    BY <2>1, MovesOnly
<1>5. ASSUME NEW m \in Managers, UpdateFind(m) PROVE Good
  <2>1. /\ cards' = cards /\ past' = past
        /\ \A n \in Managers : n # m => pc'[n] = pc[n] /\ form'[n] = form[n]
    BY <1>5, <1>a DEF UpdateFind, TypeOK
  <2>2. CASE ~cards[form[m].card].stored
    <3>1. pc'[m] = "idle"
      BY <1>5, <1>a, <2>2 DEF UpdateFind, TypeOK
    <3>2. QED
      BY <2>1, <3>1, MovesOnly
  <2>3. CASE cards[form[m].card].stored
    <3>1. form' = [form EXCEPT ![m].reset = cards[form[m].card].currency]
      BY <1>5, <2>3 DEF UpdateFind
    <3>2. form'[m].default = form[m].default
      BY <3>1, <1>a DEF TypeOK, Form
    <3>3. pc'[m] = IF form[m].default THEN "update.reset" ELSE "update.write"
      BY <1>5, <1>a, <2>3 DEF UpdateFind, TypeOK
    <3>4. QED
      BY <2>1, <3>2, <3>3, MovesOnly
  <2>4. QED
    BY <2>2, <2>3
<1>6. ASSUME NEW m \in Managers, UpdateReset(m) PROVE Good
  <2>1. /\ pc[m] = "update.reset" /\ pc'[m] = "update.write" /\ form' = form /\ Reset(form[m].reset)
        /\ \A n \in Managers : n # m => pc'[n] = pc[n]
    BY <1>6, <1>a DEF UpdateReset, TypeOK
  <2>2. QED
    BY <2>1, ResetKeeps
<1>7. ASSUME NEW m \in Managers, UpdateWrite(m) PROVE Good
  <2> DEFINE k == form[m].card
  <2>1. k \in Cards /\ pc[m] = "update.write" /\ Stored(m)
    BY <1>7, <1>a DEF UpdateWrite, TypeOK, Form
  <2>2. ASSUME NEW cur, NEW c \in Default(cur)'
        PROVE  c \in Default(cur) \/ (c = k /\ cur = form[m].currency /\ form[m].default)
    <3>1. CASE ~cards[k].stored
      BY <1>7, <2>2, <3>1 DEF UpdateWrite, Default
    <3>2. CASE cards[k].stored
      <4>1. ASSUME NEW d \in Cards
            PROVE  /\ d # k => cards'[d] = cards[d]
                   /\ d = k => cards'[d].currency = form[m].currency /\ cards'[d].default = form[m].default
        BY <1>7, <1>a, <3>2, <2>1 DEF UpdateWrite, TypeOK, CardRec
      <4>2. QED
        BY <4>1, <2>1, <2>2 DEF Default
    <3>3. QED
      BY <3>1, <3>2
  <2> HIDE DEF k
  <2>3. QED
    BY <2>1, <2>2, StoredKeeps
<1>8. ASSUME NEW c \in Cards, Delete(c) PROVE Good
  <2>1. \A d \in Cards : cards'[d] = IF d = c THEN Absent ELSE cards[d]
    BY <1>8, <1>a DEF Delete, TypeOK
  <2>2. ~Absent.stored
    BY DEF Absent
  <2>3. \A cur : Default(cur)' \subseteq Default(cur)
    BY <2>1, <2>2 DEF Default
  <2>4. form' = form /\ pc' = pc /\ past' = past
    BY <1>8 DEF Delete
  <2>5. OneDefault'
    BY <2>3, <2>4, <1>a DEF OneDefault
  <2>6. \A n \in Managers : Underway(n)'
    BY <2>3, <2>4, <1>a DEF Underway
  <2>7. QED
    BY <2>5, <2>6
<1>9. CASE UNCHANGED vars
  BY <1>9, <1>a, <1>t DEF vars, IInv, OneDefault, Default, Underway
<1>10. QED
  BY <1>1, <1>2, <1>3, <1>4, <1>5, <1>6, <1>7, <1>8, <1>9, <1>t DEF Next, IInv

\* A currency keeps one default card at most, however many requests are served at a time and cards change
\* currency, unless a request stored a default in it which had been crossed or had reset another currency;
\* and it has one again when it is reset the next time (lib/creditcards.js:60-104).
THEOREM OneDefaultACurrency ==
  ASSUME Cards # {}, Currencies # {}
  PROVE  Spec => []OneDefault
<1>1. Init => IInv
  BY InitInv
<1>2. IInv /\ [Next]_vars => IInv'
  BY StepInv
<1>3. IInv => OneDefault
  BY DEF IInv
<1>4. QED
  BY <1>1, <1>2, <1>3, PTL DEF Spec

-----------------------------------------------------------------------------
(* Styled pages *)

PageRow == [slug : Slugs, status : Page!Statuses, ver : Nat \ {0}]
PagePCs == {"idle", "look", "find", "update", "read", "open", "fill", "pipe"}

PageTypes ==
    /\ row \in PageRow
    /\ files \in [Page!Path -> [ver : Nat, whole : BOOLEAN]]
    /\ rowPc \in [Slots -> PagePCs]
    /\ rowReq \in [Slots -> [kind : {"visit", "save"}, path : Page!Path, key : BOOLEAN, page : PageRow]]
    /\ rowLog \in [saves : Nat, visits : Nat, torn : BOOLEAN, overlapped : BOOLEAN, raced : BOOLEAN,
                   crashed : BOOLEAN]

\* who has not read the page yet is known by what it is going to do
PageKinds ==
    \A r \in Slots :
        /\ rowPc[r] \in {"update", "read"} => rowReq[r].kind = "save"
        /\ rowPc[r] \in {"look", "find", "pipe"} => rowReq[r].kind = "visit"

\* a request at a time: half a file is only there while it is written
PageWhole ==
    ~rowLog.overlapped /\ ~rowLog.crashed =>
        /\ ~rowLog.torn
        /\ \A q, r \in Slots : rowPc[q] # "idle" /\ rowPc[r] # "idle" => q = r
        /\ \A p \in Page!Path :
              \/ files[p] = Page!Absent \/ (files[p].whole /\ files[p].ver # 0)
              \/ \E r \in Slots : rowPc[r] = "fill" /\ Page!Landing(rowReq[r].page) = p
        /\ \A r \in Slots : rowPc[r] = "pipe" => files[rowReq[r].path].ver # 0
        /\ \A r \in Slots : rowPc[r] = "fill" => ~files[Page!Landing(rowReq[r].page)].whole

\* a save which has not opened the file of the page yet
PageStale == \E r \in Slots : rowPc[r] \in {"read", "open"} /\ rowReq[r].kind = "save"

\* saves alone: whoever writes writes the page as it is
PageFresh ==
    ~rowLog.raced /\ ~rowLog.crashed =>
        /\ \A q, r \in Slots : rowPc[q] # "idle" /\ rowPc[r] # "idle" /\ rowReq[q].kind = "save" => q = r
        /\ \A r \in Slots : rowPc[r] \in {"open", "fill"} => rowReq[r].page = row
        /\ \A r \in Slots : rowPc[r] = "fill" => files[Page!Landing(row)].ver = row.ver
        /\ \/ PageStale
           \/ files[Page!Landing(row)] = Page!Absent
           \/ /\ files[Page!Landing(row)].ver = row.ver
              /\ files[Page!Landing(row)].whole \/ \E r \in Slots : rowPc[r] = "fill"

PageInv == PageTypes /\ PageKinds /\ PageWhole /\ PageFresh

LEMMA PageInit == ASSUME Slugs # {}, MaxSaves \in Nat, Page!Init PROVE PageInv
<1>1. Page!Request # {}
  <2>1. PICK s \in Slugs : TRUE  OBVIOUS
  <2>2. 1 \in Page!Versions  BY DEF Page!Versions
  <2>3. [kind |-> "visit", path |-> <<s, TRUE>>, key |-> TRUE, page |-> [slug |-> s, status |-> "public", ver |-> 1]]
           \in Page!Request
    BY <2>1, <2>2 DEF Page!Request, Page!Path, Page!Row, Page!Statuses
  <2>4. QED  BY <2>3
<1>2. Page!NoRequest \in Page!Request  BY <1>1 DEF Page!NoRequest
<1>3. Page!NoRequest \in [kind : {"visit", "save"}, path : Page!Path, key : BOOLEAN, page : PageRow]
  <2>1. Page!Row \subseteq PageRow  BY DEF Page!Row, PageRow, Page!Versions
  <2>2. QED  BY <1>2, <2>1 DEF Page!Request
<1>4. PageTypes
  <2>1. row \in PageRow  BY DEF Page!Init, PageRow, Page!Statuses
  <2>2. files \in [Page!Path -> [ver : Nat, whole : BOOLEAN]]  BY DEF Page!Init, Page!Absent
  <2>3. rowPc \in [Slots -> PagePCs]  BY DEF Page!Init, PagePCs
  <2>4. rowReq \in [Slots -> [kind : {"visit", "save"}, path : Page!Path, key : BOOLEAN, page : PageRow]]
    BY <1>3 DEF Page!Init
  <2>5. rowLog \in [saves : Nat, visits : Nat, torn : BOOLEAN, overlapped : BOOLEAN, raced : BOOLEAN,
                    crashed : BOOLEAN]
    BY DEF Page!Init
  <2>6. QED  BY <2>1, <2>2, <2>3, <2>4, <2>5 DEF PageTypes
<1>5. PageKinds  BY DEF Page!Init, PageKinds
<1>6. PageWhole  BY DEF Page!Init, PageWhole, Page!Absent
<1>7. PageFresh
  <2>1. Page!Landing(row) \in Page!Path
    BY <1>4 DEF PageTypes, PageRow, Page!Landing, Page!Path
  <2>2. QED  BY <2>1 DEF Page!Init, PageFresh
<1>8. QED  BY <1>4, <1>5, <1>6, <1>7 DEF PageInv

\* the file of a page has a path, and a request which goes on is the only one which does
LEMMA PageLanding == ASSUME NEW p \in PageRow PROVE Page!Landing(p) \in Page!Path
BY DEF PageRow, Page!Landing, Page!Path

LEMMA PageTypesKept == ASSUME Slugs # {}, MaxSaves \in Nat, PageTypes, NEW r \in Slots,
    \/ Page!Visit(r) \/ Page!Look(r) \/ Page!Find(r) \/ Page!Pipe(r)
    \/ Page!Save(r) \/ Page!Update(r) \/ Page!Read(r)
    \/ Page!Open(r) \/ Page!Fill(r) \/ Page!Crash(r)
  PROVE PageTypes'
<1> DEFINE Reqs == [kind : {"visit", "save"}, path : Page!Path, key : BOOLEAN, page : PageRow]
<1> DEFINE Logs == [saves : Nat, visits : Nat, torn : BOOLEAN, overlapped : BOOLEAN, raced : BOOLEAN,
                    crashed : BOOLEAN]
<1>0. /\ row \in PageRow /\ files \in [Page!Path -> [ver : Nat, whole : BOOLEAN]]
      /\ rowPc \in [Slots -> PagePCs] /\ rowReq \in [Slots -> Reqs] /\ rowLog \in Logs
  BY DEF PageTypes
<1>n. Page!NoRequest \in Reqs
  <2>1. PICK s \in Slugs : TRUE  OBVIOUS
  <2>2. 1 \in Page!Versions  BY DEF Page!Versions
  <2>3. [kind |-> "visit", path |-> <<s, TRUE>>, key |-> TRUE, page |-> [slug |-> s, status |-> "public", ver |-> 1]]
           \in Page!Request
    BY <2>1, <2>2 DEF Page!Request, Page!Path, Page!Row, Page!Statuses
  <2>4. Page!NoRequest \in Page!Request  BY <2>3 DEF Page!NoRequest
  <2>5. Page!Row \subseteq PageRow  BY DEF Page!Row, PageRow, Page!Versions
  <2>6. QED  BY <2>4, <2>5 DEF Page!Request
<1>l. \A p \in PageRow : Page!Landing(p) \in Page!Path  BY PageLanding
<1>1. row' \in PageRow
  <2>1. CASE Page!Update(r)  BY <2>1, <1>0 DEF Page!Update, PageRow
  <2>2. CASE ~Page!Update(r)
    BY <2>2, <1>0 DEF Page!Visit, Page!Look, Page!Find, Page!Pipe, Page!Save, Page!Read, Page!Open, Page!Fill, Page!Crash
  <2>3. QED  BY <2>1, <2>2
<1>2. files' \in [Page!Path -> [ver : Nat, whole : BOOLEAN]]
  <2>1. rowReq[r].page \in PageRow /\ rowReq[r].page.ver \in Nat  BY <1>0 DEF PageRow
  <2>2. Page!Landing(rowReq[r].page) \in Page!Path  BY <2>1, <1>l
  <2>3. CASE Page!Open(r)
    <3>1. files' = [files EXCEPT ![Page!Landing(rowReq[r].page)] = [ver |-> rowReq[r].page.ver, whole |-> FALSE]]
      BY <2>3 DEF Page!Open
    <3>2. [ver |-> rowReq[r].page.ver, whole |-> FALSE] \in [ver : Nat, whole : BOOLEAN]  BY <2>1
    <3>3. QED  BY <3>1, <3>2, <2>2, <1>0
  <2>4. CASE Page!Fill(r)
    <3>1. PICK w \in BOOLEAN : files' = [files EXCEPT ![Page!Landing(rowReq[r].page)] = [ver |-> rowReq[r].page.ver, whole |-> w]]
      BY <2>4 DEF Page!Fill
    <3>2. [ver |-> rowReq[r].page.ver, whole |-> w] \in [ver : Nat, whole : BOOLEAN]  BY <2>1
    <3>3. QED  BY <3>1, <3>2, <2>2, <1>0
  <2>5. CASE ~Page!Open(r) /\ ~Page!Fill(r)
    BY <2>5, <1>0 DEF Page!Visit, Page!Look, Page!Find, Page!Pipe, Page!Save, Page!Update, Page!Read, Page!Crash
  <2>6. QED  BY <2>3, <2>4, <2>5
<1>3. rowPc' \in [Slots -> PagePCs]
  <2>1. \E v \in PagePCs : rowPc' = [rowPc EXCEPT ![r] = v]
    BY DEF Page!Visit, Page!Look, Page!Find, Page!Pipe, Page!Save, Page!Update, Page!Read, Page!Open, Page!Fill,
         Page!Crash, Page!Written, Page!Done, Page!Goto, PagePCs
  <2>2. QED  BY <2>1, <1>0
<1>4. rowReq' \in [Slots -> Reqs]
  <2>1. \/ rowReq' = rowReq
        \/ \E v \in Reqs : rowReq' = [rowReq EXCEPT ![r] = v]
    <3>1. rowReq[r] \in Reqs  BY <1>0
    <3>2. CASE Page!Visit(r)
      <4>1. PICK p \in Page!Path, k \in BOOLEAN :
               rowReq' = [rowReq EXCEPT ![r] = [@ EXCEPT !.kind = "visit", !.path = p, !.key = k]]
        BY <3>2 DEF Page!Visit
      <4>2. [rowReq[r] EXCEPT !.kind = "visit", !.path = p, !.key = k] \in Reqs  BY <3>1
      <4>3. QED  BY <4>1, <4>2
    <3>3. CASE Page!Find(r)
      <4>1. [rowReq[r] EXCEPT !.page = row] \in Reqs  BY <3>1, <1>0
      <4>2. QED  BY <3>3, <4>1, <1>n DEF Page!Find, Page!Done
    <3>4. CASE Page!Save(r)
      <4>1. [rowReq[r] EXCEPT !.kind = "save", !.page = row] \in Reqs  BY <3>1, <1>0
      <4>2. rowReq' = [rowReq EXCEPT ![r] = [rowReq[r] EXCEPT !.kind = "save", !.page = row]]
        BY <3>4, <1>0 DEF Page!Save
      <4>3. QED  BY <4>1, <4>2
    <3>5. CASE Page!Read(r)
      <4>1. [rowReq[r] EXCEPT !.page = row] \in Reqs  BY <3>1, <1>0
      <4>2. QED  BY <3>5, <4>1 DEF Page!Read
    <3>6. CASE Page!Fill(r)
      <4>1. [rowReq[r] EXCEPT !.path = Page!Landing(rowReq[r].page)] \in Reqs  BY <3>1, <1>l
      <4>2. QED  BY <3>6, <4>1, <1>n DEF Page!Fill, Page!Written, Page!Done
    <3>7. CASE Page!Look(r) \/ Page!Pipe(r) \/ Page!Update(r) \/ Page!Open(r) \/ Page!Crash(r)
      BY <3>7, <1>n DEF Page!Look, Page!Pipe, Page!Update, Page!Open, Page!Crash, Page!Done
    <3>8. QED  BY <3>2, <3>3, <3>4, <3>5, <3>6, <3>7
  <2>2. QED  BY <2>1, <1>0
<1>5. rowLog' \in Logs
  <2>1. CASE Page!Visit(r)
    <3>1. PICK some \in BOOLEAN, save \in BOOLEAN :
             rowLog' = [rowLog EXCEPT !.visits = @ + 1, !.overlapped = @ \/ some, !.raced = @ \/ save]
      BY <2>1 DEF Page!Visit
    <3>2. rowLog.visits + 1 \in Nat /\ (rowLog.overlapped \/ some) \in BOOLEAN /\ (rowLog.raced \/ save) \in BOOLEAN
      BY <1>0
    <3>3. QED  BY <3>1, <3>2, <1>0
  <2>2. CASE Page!Save(r)
    <3>1. PICK some \in BOOLEAN :
             rowLog' = [rowLog EXCEPT !.saves = @ + 1, !.overlapped = @ \/ some, !.raced = @ \/ some]
      BY <2>2 DEF Page!Save
    <3>2. rowLog.saves + 1 \in Nat /\ (rowLog.overlapped \/ some) \in BOOLEAN /\ (rowLog.raced \/ some) \in BOOLEAN
      BY <1>0
    <3>3. QED  BY <3>1, <3>2, <1>0
  <2>3. CASE Page!Pipe(r)
    BY <2>3, <1>0 DEF Page!Pipe
  <2>4. CASE Page!Crash(r)
    BY <2>4, <1>0 DEF Page!Crash
  <2>5. CASE Page!Look(r) \/ Page!Find(r) \/ Page!Update(r) \/ Page!Read(r) \/ Page!Open(r) \/ Page!Fill(r)
    BY <2>5, <1>0 DEF Page!Look, Page!Find, Page!Update, Page!Read, Page!Open, Page!Fill
  <2>6. QED  BY <2>1, <2>2, <2>3, <2>4, <2>5
<1>6. QED  BY <1>1, <1>2, <1>3, <1>4, <1>5 DEF PageTypes

\* what a request does to its own step, and to itself
LEMMA PageStep == ASSUME PageTypes, NEW r \in Slots, NEW q \in Slots
  PROVE /\ Page!Visit(r) => rowPc'[q] = IF q = r THEN "look" ELSE rowPc[q]
        /\ Page!Look(r) => rowPc'[q] = IF q # r THEN rowPc[q]
                              ELSE IF files[rowReq[r].path] = Page!Absent THEN "find" ELSE "pipe"
        /\ Page!Find(r) => \/ rowPc'[q] = IF q = r THEN "open" ELSE rowPc[q]
                           \/ rowPc'[q] = IF q = r THEN "idle" ELSE rowPc[q]
        /\ Page!Pipe(r) \/ Page!Crash(r) => rowPc'[q] = IF q = r THEN "idle" ELSE rowPc[q]
        /\ Page!Save(r) => rowPc'[q] = IF q = r THEN "update" ELSE rowPc[q]
        /\ Page!Update(r) => rowPc'[q] = IF q = r THEN "read" ELSE rowPc[q]
        /\ Page!Read(r) => rowPc'[q] = IF q = r THEN "open" ELSE rowPc[q]
        /\ Page!Open(r) => rowPc'[q] = IF q = r THEN "fill" ELSE rowPc[q]
        /\ Page!Fill(r) => rowPc'[q] = IF q # r THEN rowPc[q]
                              ELSE IF rowReq[r].kind = "save" THEN "idle" ELSE "pipe"
        /\ (\/ Page!Visit(r) \/ Page!Look(r) \/ Page!Find(r) \/ Page!Pipe(r)
            \/ Page!Save(r) \/ Page!Update(r) \/ Page!Read(r)
            \/ Page!Open(r) \/ Page!Fill(r) \/ Page!Crash(r)) => (q # r => rowReq'[q] = rowReq[q])
        /\ Page!Look(r) \/ Page!Update(r) \/ Page!Open(r) => rowReq' = rowReq
        /\ Page!Visit(r) => rowReq'[r].kind = "visit"
        /\ Page!Save(r) => rowReq'[r].kind = "save"
        /\ Page!Read(r) => rowReq'[r].kind = rowReq[r].kind /\ rowReq'[r].page = row
        /\ Page!Find(r) /\ rowPc'[r] = "open" => rowReq'[r].kind = rowReq[r].kind /\ rowReq'[r].page = row
        /\ Page!Fill(r) /\ rowPc'[r] = "pipe" => /\ rowReq'[r].kind = rowReq[r].kind
                                                /\ rowReq'[r].path = Page!Landing(rowReq[r].page)
        /\ Page!Pipe(r) => rowPc[r] = "pipe"
<1>0. rowPc \in [Slots -> PagePCs]
      /\ rowReq \in [Slots -> [kind : {"visit", "save"}, path : Page!Path, key : BOOLEAN, page : PageRow]]
  BY DEF PageTypes
<1>1. Page!Visit(r) => rowPc'[q] = IF q = r THEN "look" ELSE rowPc[q]  BY <1>0 DEF Page!Visit, Page!Goto
<1>2. Page!Look(r) => rowPc'[q] = IF q # r THEN rowPc[q]
                              ELSE IF files[rowReq[r].path] = Page!Absent THEN "find" ELSE "pipe"
  BY <1>0 DEF Page!Look, Page!Goto
<1>3. Page!Find(r) => \/ rowPc'[q] = IF q = r THEN "open" ELSE rowPc[q]
                     \/ rowPc'[q] = IF q = r THEN "idle" ELSE rowPc[q]
  BY <1>0 DEF Page!Find, Page!Goto, Page!Done
<1>4. Page!Pipe(r) \/ Page!Crash(r) => rowPc'[q] = IF q = r THEN "idle" ELSE rowPc[q]
  BY <1>0 DEF Page!Pipe, Page!Crash, Page!Goto, Page!Done
<1>5. Page!Save(r) => rowPc'[q] = IF q = r THEN "update" ELSE rowPc[q]  BY <1>0 DEF Page!Save, Page!Goto
<1>6. Page!Update(r) => rowPc'[q] = IF q = r THEN "read" ELSE rowPc[q]  BY <1>0 DEF Page!Update, Page!Goto
<1>7. Page!Read(r) => rowPc'[q] = IF q = r THEN "open" ELSE rowPc[q]  BY <1>0 DEF Page!Read, Page!Goto
<1>8. Page!Open(r) => rowPc'[q] = IF q = r THEN "fill" ELSE rowPc[q]  BY <1>0 DEF Page!Open, Page!Goto
<1>9. Page!Fill(r) => rowPc'[q] = IF q # r THEN rowPc[q]
                              ELSE IF rowReq[r].kind = "save" THEN "idle" ELSE "pipe"
  BY <1>0 DEF Page!Fill, Page!Written, Page!Done, Page!Goto
<1>10. (\/ Page!Visit(r) \/ Page!Look(r) \/ Page!Find(r) \/ Page!Pipe(r)
        \/ Page!Save(r) \/ Page!Update(r) \/ Page!Read(r)
        \/ Page!Open(r) \/ Page!Fill(r) \/ Page!Crash(r)) => (q # r => rowReq'[q] = rowReq[q])
  BY <1>0 DEF Page!Visit, Page!Look, Page!Find, Page!Pipe, Page!Save, Page!Update, Page!Read, Page!Open, Page!Fill,
       Page!Crash, Page!Written, Page!Done
<1>11. Page!Look(r) \/ Page!Update(r) \/ Page!Open(r) => rowReq' = rowReq  BY DEF Page!Look, Page!Update, Page!Open
<1>12. Page!Visit(r) => rowReq'[r].kind = "visit"  BY <1>0 DEF Page!Visit
<1>13. Page!Save(r) => rowReq'[r].kind = "save"  BY <1>0 DEF Page!Save
<1>14. Page!Read(r) => rowReq'[r].kind = rowReq[r].kind /\ rowReq'[r].page = row  BY <1>0 DEF Page!Read
<1>15. Page!Find(r) /\ rowPc'[r] = "open" => rowReq'[r].kind = rowReq[r].kind /\ rowReq'[r].page = row
  BY <1>0 DEF Page!Find, Page!Done, Page!Goto
<1>16. Page!Fill(r) /\ rowPc'[r] = "pipe" => /\ rowReq'[r].kind = rowReq[r].kind
                                            /\ rowReq'[r].path = Page!Landing(rowReq[r].page)
  BY <1>0 DEF Page!Fill, Page!Written, Page!Done, Page!Goto
<1>17. Page!Pipe(r) => rowPc[r] = "pipe"  BY DEF Page!Pipe
<1>18. QED
  BY <1>1, <1>2, <1>3, <1>4, <1>5, <1>6, <1>7, <1>8, <1>9, <1>10, <1>11, <1>12, <1>13, <1>14, <1>15, <1>16, <1>17

LEMMA PageKindsKept == ASSUME PageTypes, PageKinds, NEW r \in Slots,
    \/ Page!Visit(r) \/ Page!Look(r) \/ Page!Find(r) \/ Page!Pipe(r)
    \/ Page!Save(r) \/ Page!Update(r) \/ Page!Read(r)
    \/ Page!Open(r) \/ Page!Fill(r) \/ Page!Crash(r)
  PROVE PageKinds'
<1> SUFFICES ASSUME NEW q \in Slots
    PROVE /\ rowPc'[q] \in {"update", "read"} => rowReq'[q].kind = "save"
          /\ rowPc'[q] \in {"look", "find", "pipe"} => rowReq'[q].kind = "visit"
  BY DEF PageKinds
<1>0. rowReq[r].kind \in {"visit", "save"}  BY DEF PageTypes
<1>1. CASE q # r
  BY <1>1, PageStep DEF PageKinds
<1>2. CASE q = r
  <2>1. CASE Page!Visit(r) \/ Page!Save(r) \/ Page!Open(r) \/ Page!Read(r)  BY <2>1, <1>2, PageStep
  <2>2. CASE Page!Look(r)  BY <2>2, <1>2, PageStep DEF PageKinds, Page!Look
  <2>3. CASE Page!Find(r) \/ Page!Pipe(r) \/ Page!Crash(r)  BY <2>3, <1>2, PageStep
  <2>4. CASE Page!Update(r)  BY <2>4, <1>2, PageStep DEF PageKinds, Page!Update
  <2>5. CASE Page!Fill(r)  BY <2>5, <1>2, <1>0, PageStep
  <2>6. QED  BY <2>1, <2>2, <2>3, <2>4, <2>5
<1>3. QED  BY <1>1, <1>2

\* what a request does to files and log
LEMMA PageFiles == ASSUME PageTypes, NEW r \in Slots,
    \/ Page!Visit(r) \/ Page!Look(r) \/ Page!Find(r) \/ Page!Pipe(r)
    \/ Page!Save(r) \/ Page!Update(r) \/ Page!Read(r)
    \/ Page!Open(r) \/ Page!Fill(r) \/ Page!Crash(r)
  PROVE /\ ~Page!Open(r) /\ ~Page!Fill(r) => files' = files
        /\ rowReq[r].page \in PageRow /\ Page!Landing(rowReq[r].page) \in Page!Path
        /\ Page!Open(r) => \A p \in Page!Path : files'[p] =
              IF p = Page!Landing(rowReq[r].page) THEN [ver |-> rowReq[r].page.ver, whole |-> FALSE] ELSE files[p]
        /\ Page!Fill(r) => \E w \in BOOLEAN :
              /\ \A p \in Page!Path : files'[p] =
                   IF p = Page!Landing(rowReq[r].page) THEN [ver |-> rowReq[r].page.ver, whole |-> w] ELSE files[p]
              /\ \/ ~files[Page!Landing(rowReq[r].page)].whole
                 \/ files[Page!Landing(rowReq[r].page)].ver = rowReq[r].page.ver => w
        /\ Page!Crash(r) => rowLog'.crashed
        /\ rowLog.crashed => rowLog'.crashed
        /\ rowLog.overlapped => rowLog'.overlapped
        /\ rowLog.raced => rowLog'.raced
        /\ Page!Visit(r) => (rowLog'.overlapped \/ ~Page!SomeBusy)
              /\ (rowLog'.raced \/ ~\E q \in Slots : rowPc[q] # "idle" /\ rowReq[q].kind = "save")
        /\ Page!Save(r) => (rowLog'.overlapped \/ ~Page!SomeBusy) /\ (rowLog'.raced \/ ~Page!SomeBusy)
        /\ Page!Pipe(r) => rowLog'.torn = (rowLog.torn \/ ~files[rowReq[r].path].whole)
        /\ ~Page!Pipe(r) => rowLog'.torn = rowLog.torn
        /\ ~Page!Update(r) => row' = row
<1>0. /\ files \in [Page!Path -> [ver : Nat, whole : BOOLEAN]]
      /\ rowReq \in [Slots -> [kind : {"visit", "save"}, path : Page!Path, key : BOOLEAN, page : PageRow]]
      /\ rowLog \in [saves : Nat, visits : Nat, torn : BOOLEAN, overlapped : BOOLEAN, raced : BOOLEAN,
                     crashed : BOOLEAN]
  BY DEF PageTypes
<1>1. ~Page!Open(r) /\ ~Page!Fill(r) => files' = files
  BY DEF Page!Visit, Page!Look, Page!Find, Page!Pipe, Page!Save, Page!Update, Page!Read, Page!Crash
<1>2. rowReq[r].page \in PageRow /\ Page!Landing(rowReq[r].page) \in Page!Path  BY <1>0, PageLanding
<1>3. Page!Open(r) => \A p \in Page!Path : files'[p] =
              IF p = Page!Landing(rowReq[r].page) THEN [ver |-> rowReq[r].page.ver, whole |-> FALSE] ELSE files[p]
  BY <1>0, <1>2 DEF Page!Open
<1>4. Page!Fill(r) => \E w \in BOOLEAN :
              /\ \A p \in Page!Path : files'[p] =
                   IF p = Page!Landing(rowReq[r].page) THEN [ver |-> rowReq[r].page.ver, whole |-> w] ELSE files[p]
              /\ \/ ~files[Page!Landing(rowReq[r].page)].whole
                 \/ files[Page!Landing(rowReq[r].page)].ver = rowReq[r].page.ver => w
  <2> SUFFICES ASSUME Page!Fill(r)
      PROVE \E w \in BOOLEAN :
              /\ \A p \in Page!Path : files'[p] =
                   IF p = Page!Landing(rowReq[r].page) THEN [ver |-> rowReq[r].page.ver, whole |-> w] ELSE files[p]
              /\ \/ ~files[Page!Landing(rowReq[r].page)].whole
                 \/ files[Page!Landing(rowReq[r].page)].ver = rowReq[r].page.ver => w
    OBVIOUS
  <2> DEFINE there == files[Page!Landing(rowReq[r].page)]
  <2>1. PICK w \in IF there.whole /\ there.ver # rowReq[r].page.ver THEN BOOLEAN ELSE {TRUE} :
           files' = [files EXCEPT ![Page!Landing(rowReq[r].page)] = [ver |-> rowReq[r].page.ver, whole |-> w]]
    BY DEF Page!Fill
  <2>2. \A p \in Page!Path : files'[p] =
                   IF p = Page!Landing(rowReq[r].page) THEN [ver |-> rowReq[r].page.ver, whole |-> w] ELSE files[p]
    BY <2>1, <1>0, <1>2
  <2>3. w \in BOOLEAN /\ (~there.whole \/ (there.ver = rowReq[r].page.ver => w))  BY <2>1
  <2>4. QED  BY <2>2, <2>3
<1>5. (Page!Crash(r) => rowLog'.crashed) /\ (rowLog.crashed => rowLog'.crashed)
  BY <1>0 DEF Page!Visit, Page!Look, Page!Find, Page!Pipe, Page!Save, Page!Update, Page!Read, Page!Open, Page!Fill,
       Page!Crash
<1>6. (rowLog.overlapped => rowLog'.overlapped) /\ (rowLog.raced => rowLog'.raced)
  BY <1>0 DEF Page!Visit, Page!Look, Page!Find, Page!Pipe, Page!Save, Page!Update, Page!Read, Page!Open, Page!Fill,
       Page!Crash
<1>7. Page!Visit(r) => (rowLog'.overlapped \/ ~Page!SomeBusy)
              /\ (rowLog'.raced \/ ~\E q \in Slots : rowPc[q] # "idle" /\ rowReq[q].kind = "save")
  BY <1>0 DEF Page!Visit, Page!Busy
<1>8. Page!Save(r) => (rowLog'.overlapped \/ ~Page!SomeBusy) /\ (rowLog'.raced \/ ~Page!SomeBusy)
  BY <1>0 DEF Page!Save
<1>9. Page!Pipe(r) => rowLog'.torn = (rowLog.torn \/ ~files[rowReq[r].path].whole)  BY <1>0 DEF Page!Pipe
<1>10. ~Page!Pipe(r) => rowLog'.torn = rowLog.torn
  BY <1>0 DEF Page!Visit, Page!Look, Page!Find, Page!Save, Page!Update, Page!Read, Page!Open, Page!Fill, Page!Crash
<1>11. ~Page!Update(r) => row' = row
  BY DEF Page!Visit, Page!Look, Page!Find, Page!Pipe, Page!Save, Page!Read, Page!Open, Page!Fill, Page!Crash
<1>12. QED  BY <1>1, <1>2, <1>3, <1>4, <1>5, <1>6, <1>7, <1>8, <1>9, <1>10, <1>11

\* one which goes on was busy, or is the only one
LEMMA PageBusy == ASSUME PageTypes, NEW r \in Slots,
    \/ Page!Visit(r) \/ Page!Look(r) \/ Page!Find(r) \/ Page!Pipe(r)
    \/ Page!Save(r) \/ Page!Update(r) \/ Page!Read(r)
    \/ Page!Open(r) \/ Page!Fill(r) \/ Page!Crash(r)
  PROVE \/ rowPc[r] # "idle"
        \/ Page!Visit(r) \/ Page!Save(r)
BY DEF Page!Look, Page!Find, Page!Pipe, Page!Update, Page!Read, Page!Open, Page!Fill, Page!Crash, Page!Busy

LEMMA PageWholeKept == ASSUME PageTypes, PageWhole, NEW r \in Slots,
    \/ Page!Visit(r) \/ Page!Look(r) \/ Page!Find(r) \/ Page!Pipe(r)
    \/ Page!Save(r) \/ Page!Update(r) \/ Page!Read(r)
    \/ Page!Open(r) \/ Page!Fill(r) \/ Page!Crash(r)
  PROVE PageWhole'
<1> SUFFICES ASSUME ~rowLog'.overlapped, ~rowLog'.crashed
    PROVE /\ ~rowLog'.torn
          /\ \A q, s \in Slots : rowPc'[q] # "idle" /\ rowPc'[s] # "idle" => q = s
          /\ \A p \in Page!Path :
              \/ files'[p] = Page!Absent \/ (files'[p].whole /\ files'[p].ver # 0)
              \/ \E q \in Slots : rowPc'[q] = "fill" /\ Page!Landing(rowReq'[q].page) = p
          /\ \A q \in Slots : rowPc'[q] = "pipe" => files'[rowReq'[q].path].ver # 0
          /\ \A q \in Slots : rowPc'[q] = "fill" => ~files'[Page!Landing(rowReq'[q].page)].whole
  BY DEF PageWhole, Page!Landing, Page!Absent
<1>0. ~rowLog.overlapped /\ ~rowLog.crashed /\ ~Page!Crash(r)  BY PageFiles
<1>1. /\ ~rowLog.torn
      /\ \A q, s \in Slots : rowPc[q] # "idle" /\ rowPc[s] # "idle" => q = s
      /\ \A p \in Page!Path :
              \/ files[p] = Page!Absent \/ (files[p].whole /\ files[p].ver # 0)
              \/ \E q \in Slots : rowPc[q] = "fill" /\ Page!Landing(rowReq[q].page) = p
      /\ \A q \in Slots : rowPc[q] = "pipe" => files[rowReq[q].path].ver # 0
      /\ \A q \in Slots : rowPc[q] = "fill" => ~files[Page!Landing(rowReq[q].page)].whole
  BY <1>0 DEF PageWhole
<1>2. \A q \in Slots : q # r => rowPc[q] = "idle" /\ rowPc'[q] = "idle"
  <2>1. CASE rowPc[r] # "idle"  BY <2>1, <1>1, <1>0, PageStep
  <2>2. CASE Page!Visit(r) \/ Page!Save(r)
    <3>1. \A q \in Slots : rowPc[q] = "idle"
      <4>1. ~Page!SomeBusy  BY <2>2, PageFiles
      <4>2. QED  BY <4>1 DEF Page!SomeBusy, Page!Busy
    <3>2. \A q \in Slots : q # r => rowPc'[q] = rowPc[q]  BY <2>2, PageStep
    <3>3. QED  BY <3>1, <3>2
  <2>3. QED  BY <2>1, <2>2, PageBusy
<1>3. \A q, s \in Slots : rowPc'[q] # "idle" /\ rowPc'[s] # "idle" => q = s  BY <1>2
<1>t. /\ rowReq \in [Slots -> [kind : {"visit", "save"}, path : Page!Path, key : BOOLEAN, page : PageRow]]
      /\ \A p \in PageRow : p.ver # 0
      /\ \A p \in Page!Path : files[p] \in [ver : Nat, whole : BOOLEAN]
      /\ rowReq[r].path \in Page!Path /\ Page!Landing(rowReq[r].page) \in Page!Path
  BY PageFiles DEF PageTypes, PageRow
<1>4. ~rowLog'.torn
  <2>1. CASE Page!Pipe(r)
    <3>1. rowPc[r] = "pipe"  BY <2>1 DEF Page!Pipe
    <3>2. files[rowReq[r].path].whole  BY <3>1, <1>1, <1>2, <1>t DEF Page!Absent
    <3>3. QED  BY <2>1, <3>2, <1>1, PageFiles
  <2>2. CASE ~Page!Pipe(r)  BY <2>2, <1>1, PageFiles
  <2>3. QED  BY <2>1, <2>2
<1>5. CASE Page!Open(r)
  <2>1. rowReq' = rowReq /\ rowPc'[r] = "fill"  BY <1>5, PageStep
  <2>2. \A p \in Page!Path : p # Page!Landing(rowReq[r].page) => files'[p] = files[p]  BY <1>5, PageFiles
  <2>3. rowPc[r] # "fill"  BY <1>5 DEF Page!Open
  <2>4. files'[Page!Landing(rowReq[r].page)] = [ver |-> rowReq[r].page.ver, whole |-> FALSE]  BY <1>5, PageFiles
  <2>5. QED  BY <1>1, <1>2, <1>3, <1>4, <1>t, <2>1, <2>2, <2>3, <2>4
<1>6. CASE Page!Fill(r)
  <2>1. rowPc[r] = "fill"  BY <1>6 DEF Page!Fill
  <2>2. ~files[Page!Landing(rowReq[r].page)].whole  BY <2>1, <1>1
  <2>3. \A p \in Page!Path : p # Page!Landing(rowReq[r].page) => files'[p] = files[p]  BY <1>6, PageFiles
  <2>4. PICK w \in BOOLEAN : files'[Page!Landing(rowReq[r].page)] = [ver |-> rowReq[r].page.ver, whole |-> w]
                              /\ w
    <3>1. files[Page!Landing(rowReq[r].page)] \in [ver : Nat, whole : BOOLEAN]  BY <1>t
    <3>2. files' = [files EXCEPT ![Page!Landing(rowReq[r].page)] = [ver |-> rowReq[r].page.ver, whole |-> TRUE]]
      BY <1>6, <2>2 DEF Page!Fill
    <3>3. files'[Page!Landing(rowReq[r].page)] = [ver |-> rowReq[r].page.ver, whole |-> TRUE]
      BY <3>2, <1>t DEF PageTypes
    <3>4. QED  BY <3>3
  <2>5. rowPc'[r] # "fill" /\ (rowPc'[r] = "pipe" => rowReq'[r].path = Page!Landing(rowReq[r].page))
    BY <1>6, PageStep
  <2>6. rowReq[r].page.ver # 0  BY <1>t
  <2>7. QED  BY <1>1, <1>2, <1>3, <1>4, <2>3, <2>4, <2>5, <2>6
<1>7. CASE ~Page!Open(r) /\ ~Page!Fill(r)
  <2>1. files' = files  BY <1>7, PageFiles
  <2>2. rowPc[r] # "fill" /\ rowPc'[r] # "fill"
    <3>1. rowPc'[r] # "fill"  BY <1>7, <1>0, PageStep
    <3>2. rowPc[r] # "fill"
      BY <1>7, <1>0 DEF Page!Visit, Page!Look, Page!Find, Page!Pipe, Page!Save, Page!Update, Page!Read, Page!Busy
    <3>3. QED  BY <3>1, <3>2
  <2>3. rowPc'[r] = "pipe" => rowReq' = rowReq /\ files[rowReq[r].path] # Page!Absent
    BY <1>7, <1>0, PageStep
  <2>4. \A p \in Page!Path : files[p] = Page!Absent \/ files[p].ver # 0
    BY <1>1, <1>2, <2>2
  <2>5. QED  BY <1>1, <1>2, <1>3, <1>4, <1>t, <2>1, <2>2, <2>3, <2>4
<1>8. QED  BY <1>5, <1>6, <1>7

\* the steps of a save and of a visit which may change what PageFresh says
LEMMA PageFreshKept == ASSUME PageTypes, PageKinds, PageFresh, NEW r \in Slots,
    \/ Page!Visit(r) \/ Page!Look(r) \/ Page!Find(r) \/ Page!Pipe(r)
    \/ Page!Save(r) \/ Page!Update(r) \/ Page!Read(r)
    \/ Page!Open(r) \/ Page!Fill(r) \/ Page!Crash(r)
  PROVE PageFresh'
<1> DEFINE Here == Page!Landing(row)
<1> DEFINE Is == files[Page!Landing(row)]
<1> SUFFICES ASSUME ~rowLog'.raced, ~rowLog'.crashed
    PROVE /\ \A q, s \in Slots : rowPc'[q] # "idle" /\ rowPc'[s] # "idle" /\ rowReq'[q].kind = "save" => q = s
          /\ \A q \in Slots : rowPc'[q] \in {"open", "fill"} => rowReq'[q].page = row'
          /\ \A q \in Slots : rowPc'[q] = "fill" => Is'.ver = row'.ver
          /\ \/ PageStale'
             \/ Is' = Page!Absent
             \/ /\ Is'.ver = row'.ver
                /\ Is'.whole \/ \E q \in Slots : rowPc'[q] = "fill"
  BY DEF PageFresh, Page!Landing, Page!Absent
<1>0. ~rowLog.raced /\ ~rowLog.crashed /\ ~Page!Crash(r)  BY PageFiles
<1>1. /\ \A q, s \in Slots : rowPc[q] # "idle" /\ rowPc[s] # "idle" /\ rowReq[q].kind = "save" => q = s
      /\ \A q \in Slots : rowPc[q] \in {"open", "fill"} => rowReq[q].page = row
      /\ \A q \in Slots : rowPc[q] = "fill" => Is.ver = row.ver
      /\ \/ PageStale
         \/ Is = Page!Absent
         \/ /\ Is.ver = row.ver
            /\ Is.whole \/ \E q \in Slots : rowPc[q] = "fill"
  BY <1>0 DEF PageFresh
<1>t. /\ rowReq \in [Slots -> [kind : {"visit", "save"}, path : Page!Path, key : BOOLEAN, page : PageRow]]
      /\ \A p \in Page!Path : files[p] \in [ver : Nat, whole : BOOLEAN]
      /\ row \in PageRow /\ row.ver \in Nat /\ Here \in Page!Path
  BY PageLanding DEF PageTypes, PageRow
<1>2. \A q \in Slots : q # r => rowPc'[q] = rowPc[q] /\ rowReq'[q] = rowReq[q]  BY PageStep, <1>0
<1>3. \A q, s \in Slots : rowPc'[q] # "idle" /\ rowPc'[s] # "idle" /\ rowReq'[q].kind = "save" => q = s
  <2>1. CASE Page!Visit(r)
    <3>1. \A q \in Slots : ~(rowPc[q] # "idle" /\ rowReq[q].kind = "save")  BY <2>1, PageFiles
    <3>2. rowReq'[r].kind = "visit"  BY <2>1, PageStep
    <3>3. QED  BY <3>1, <3>2, <1>2
  <2>2. CASE Page!Save(r)
    <3>1. \A q \in Slots : rowPc[q] = "idle"
      <4>1. ~Page!SomeBusy  BY <2>2, PageFiles
      <4>2. QED  BY <4>1 DEF Page!SomeBusy, Page!Busy
    <3>2. QED  BY <3>1, <1>2
  <2>3. CASE ~Page!Visit(r) /\ ~Page!Save(r)
    <3>1. rowPc[r] # "idle"  BY <2>3, PageBusy
    <3>2. rowPc'[r] # "idle" => rowReq'[r].kind = rowReq[r].kind  BY <2>3, <1>0, PageStep
    <3>3. QED  BY <3>1, <3>2, <1>1, <1>2
  <2>4. QED  BY <2>1, <2>2, <2>3
<1>4. CASE Page!Update(r)
  <2>1. rowPc[r] = "update" /\ rowReq[r].kind = "save"  BY <1>4 DEF Page!Update, PageKinds
  <2>2. \A q \in Slots : q # r => rowPc'[q] = "idle"  BY <2>1, <1>1, <1>2
  <2>3. rowPc'[r] = "read" /\ rowReq' = rowReq  BY <1>4, PageStep
  <2>4. PageStale'  BY <2>1, <2>3 DEF PageStale
  <2>5. QED  BY <1>3, <2>2, <2>3, <2>4
<1>5. CASE Page!Read(r)
  <2>1. rowPc[r] = "read" /\ rowReq[r].kind = "save"  BY <1>5 DEF Page!Read, PageKinds
  <2>2. \A q \in Slots : q # r => rowPc'[q] = "idle"  BY <2>1, <1>1, <1>2
  <2>3. rowPc'[r] = "open" /\ rowReq'[r].kind = "save" /\ rowReq'[r].page = row  BY <1>5, <2>1, PageStep
  <2>4. PageStale'  BY <2>3 DEF PageStale
  <2>5. row' = row  BY <1>5 DEF Page!Read
  <2>6. QED  BY <1>3, <2>2, <2>3, <2>4, <2>5
<1>6. CASE Page!Open(r)
  <2>1. rowPc[r] = "open" /\ rowReq[r].page = row  BY <1>6, <1>1 DEF Page!Open
  <2>2. rowPc'[r] = "fill" /\ rowReq' = rowReq /\ row' = row  BY <1>6, PageStep, PageFiles
  <2>3. files'[Here] = [ver |-> row.ver, whole |-> FALSE]  BY <1>6, <2>1, <1>t, PageFiles
  <2>4. Is' = [ver |-> row.ver, whole |-> FALSE]  BY <2>3, <2>2 DEF Page!Landing
  <2>5. QED  BY <1>1, <1>2, <1>3, <2>1, <2>2, <2>4
<1>7. CASE Page!Fill(r)
  <2>1. rowPc[r] = "fill" /\ rowReq[r].page = row  BY <1>7, <1>1 DEF Page!Fill
  <2>2. rowPc'[r] # "fill" /\ rowPc'[r] # "open" /\ row' = row  BY <1>7, PageStep, PageFiles
  <2>3. files[Page!Landing(rowReq[r].page)].ver = rowReq[r].page.ver  BY <2>1, <1>1
  <2>4. files'[Here] = [ver |-> row.ver, whole |-> TRUE]
    <3>1. files' = [files EXCEPT ![Here] = [ver |-> row.ver, whole |-> TRUE]]
      BY <1>7, <2>1, <2>3 DEF Page!Fill
    <3>2. QED  BY <3>1, <1>t DEF PageTypes
  <2>5. Is' = [ver |-> row.ver, whole |-> TRUE]  BY <2>4, <2>2 DEF Page!Landing
  <2>6. QED  BY <1>1, <1>2, <1>3, <2>2, <2>5
<1>8. CASE Page!Visit(r) \/ Page!Look(r) \/ Page!Find(r) \/ Page!Pipe(r) \/ Page!Save(r)
  <2>1. files' = files /\ row' = row  BY <1>8, PageFiles DEF Page!Visit, Page!Look, Page!Find, Page!Pipe, Page!Save
  <2>2. Is' = Is  BY <2>1 DEF Page!Landing
  <2>3. rowPc[r] \notin {"read", "open", "fill"}
    BY <1>8 DEF Page!Visit, Page!Look, Page!Find, Page!Pipe, Page!Save, Page!Busy
  <2>4. rowPc'[r] # "fill" /\ (rowPc'[r] = "open" => rowReq'[r].page = row)  BY <1>8, PageStep
  <2>5. \A q \in Slots : rowPc'[q] \in {"open", "fill"} => rowReq'[q].page = row'  BY <1>1, <1>2, <2>1, <2>4
  <2>6. \A q \in Slots : rowPc'[q] = "fill" => rowPc[q] = "fill"  BY <1>2, <2>4
  <2>7. PageStale => PageStale'  BY <1>2, <2>3 DEF PageStale
  <2>8. (\E q \in Slots : rowPc[q] = "fill") => \E q \in Slots : rowPc'[q] = "fill"  BY <1>2, <2>3
  <2>9. QED  BY <1>1, <1>3, <2>1, <2>2, <2>5, <2>6, <2>7, <2>8
<1>9. QED  BY <1>0, <1>4, <1>5, <1>6, <1>7, <1>8

LEMMA PageStepKept == ASSUME Slugs # {}, MaxSaves \in Nat, PageInv, Page!Next PROVE PageInv'
<1>1. PICK r \in Slots :
        \/ Page!Visit(r) \/ Page!Look(r) \/ Page!Find(r) \/ Page!Pipe(r)
        \/ Page!Save(r) \/ Page!Update(r) \/ Page!Read(r)
        \/ Page!Open(r) \/ Page!Fill(r) \/ Page!Crash(r)
  BY DEF Page!Next
<1>2. PageTypes'  BY <1>1, PageTypesKept DEF PageInv
<1>3. PageKinds'  BY <1>1, PageKindsKept DEF PageInv
<1>4. PageWhole'  BY <1>1, PageWholeKept DEF PageInv
<1>5. PageFresh'  BY <1>1, PageFreshKept DEF PageInv
<1>6. QED  BY <1>2, <1>3, <1>4, <1>5 DEF PageInv

LEMMA PageStays == ASSUME PageInv, UNCHANGED styled PROVE PageInv'
BY DEF PageInv, PageTypes, PageKinds, PageWhole, PageFresh, PageStale, styled, Page!Absent, Page!Landing, Page!Path,
       PageRow, Page!Statuses, PagePCs

LEMMA PageGood == ASSUME PageInv PROVE PagesKept
<1>1. Page!ServedWhole  BY DEF PageInv, PageWhole, PageTypes, Page!ServedWhole
<1>2. Page!FileIsPage
  <2> SUFFICES ASSUME ~rowLog.raced, ~rowLog.crashed, \A r \in Slots : rowPc[r] = "idle"
      PROVE files[Page!Landing(row)] \in {Page!Absent, [ver |-> row.ver, whole |-> TRUE]}
    BY DEF Page!FileIsPage, Page!SomeBusy, Page!Busy
  <2>1. files[Page!Landing(row)] \in [ver : Nat, whole : BOOLEAN]
    BY PageLanding DEF PageInv, PageTypes
  <2>2. \/ files[Page!Landing(row)] = Page!Absent
        \/ files[Page!Landing(row)].ver = row.ver /\ files[Page!Landing(row)].whole
    BY DEF PageInv, PageFresh, PageStale
  <2>3. QED  BY <2>1, <2>2
<1>3. QED  BY <1>1, <1>2 DEF PagesKept

-----------------------------------------------------------------------------
(* Editions *)

EdReads == UNION {[D -> Filing!Filing] : D \in SUBSET Posts}
EdJob == [from : SUBSET Eds, to : Eds \union {Filing!None}, level : Levels, rest : SUBSET Eds,
          read : EdReads, groups : SUBSET Filing!Filing]

EdTypes ==
    /\ eds \in [Eds -> [level : Levels, active : BOOLEAN]]
    /\ posts \in [Posts -> Filing!Filing]
    /\ edPc \in [Slots -> Filing!PCs]
    /\ edReq \in [Slots -> EdJob]
    /\ edLog \in [jobs : Nat, overlapped : BOOLEAN, moved : BOOLEAN]

EdMoves == {"level.groups", "level.asked", "level.mark", "level.posts"}
EdMerges == {"merge.mark", "merge.find", "merge.write", "replace.mark", "replace.posts"}

\* an article is filed under editions of the levels it is filed at
EdLevel(f, es) == \A l \in Levels : f[l] # Filing!None => es[f[l]].level = l

\* and these are active, but for some
EdNearly(f, es, some) ==
    \A l \in Levels : f[l] # Filing!None => es[f[l]].level = l /\ (es[f[l]].active \/ f[l] \in some)

EdProper(f, es) == EdNearly(f, es, {})

\* a move alone: what it has not filed anew is in the groups it knows
EdMoved ==
    /\ \A q, r \in Slots : edPc[q] \in EdMoves /\ edPc[r] # "idle" => q = r
    /\ (\A r \in Slots : edPc[r] # "level.posts") => \A p \in Posts : EdLevel(posts[p], eds)
    /\ \A r \in Slots : edPc[r] = "level.posts" =>
          \A p \in Posts : EdLevel(posts[p], eds) \/ posts[p] \in edReq[r].groups
    /\ \A r \in Slots : edPc[r] \in {"level.asked", "level.mark"} =>
          \A p \in Posts : \A e \in edReq[r].from : posts[p][eds[e].level] = e => posts[p] \in edReq[r].groups

\* merges and replacements: the edition which takes over is of the level, and what was read is filed so
EdMerged ==
    /\ \A r \in Slots : edPc[r] \in EdMerges \union {"merge.check"} => edReq[r].to \in Eds
    /\ \A r \in Slots : edPc[r] \in EdMerges => eds[edReq[r].to].level = edReq[r].level
    /\ \A r \in Slots : edPc[r] = "merge.write" => \A p \in DOMAIN edReq[r].read : EdLevel(edReq[r].read[p], eds)

\* a request at a time: what is under an edition which is gone will be rewritten
EdAlone ==
    /\ \A q, r \in Slots : edPc[q] # "idle" /\ edPc[r] # "idle" => q = r
    /\ (\A r \in Slots : edPc[r] \notin {"merge.find", "merge.write", "replace.posts", "level.posts"}) =>
          \A p \in Posts : EdProper(posts[p], eds)
    /\ \A r \in Slots : edPc[r] \in EdMerges \union {"merge.check"} =>
          eds[edReq[r].to].active /\ edReq[r].to \notin edReq[r].from
    /\ \A r \in Slots : edPc[r] = "merge.check" => edReq[r].rest = {} /\ \E e \in Eds : edReq[r].from = {e}
    /\ \A r \in Slots : edPc[r] \in EdMerges =>
          /\ edReq[r].to \notin edReq[r].rest
          /\ \A e \in edReq[r].rest : eds[e].active /\ e \notin edReq[r].from
          /\ \A e \in edReq[r].from \union edReq[r].rest : eds[e].level = edReq[r].level
    /\ \A r \in Slots : edPc[r] \in {"merge.find", "replace.posts"} =>
          \A p \in Posts : EdNearly(posts[p], eds, edReq[r].from)
    /\ \A r \in Slots : edPc[r] = "merge.write" =>
          \A p \in Posts : IF p \in DOMAIN edReq[r].read
                           THEN edReq[r].read[p] = posts[p] /\ EdNearly(posts[p], eds, edReq[r].from)
                           ELSE EdProper(posts[p], eds)
    /\ \A r \in Slots : edPc[r] = "level.posts" =>
          \A p \in Posts : EdProper(posts[p], eds) \/ posts[p] \in edReq[r].groups

EdInv ==
    /\ EdTypes
    /\ edLog.moved => edLog.overlapped
    /\ ~edLog.moved => EdMoved /\ EdMerged
    /\ ~edLog.overlapped => EdAlone

LEMMA EdNoRequest == ASSUME Levels # {} PROVE Filing!NoRequest \in EdJob
<1>1. Filing!NewLevel \in Levels  BY DEF Filing!NewLevel
<1>2. << >> \in EdReads
  <2>1. << >> \in [{} -> Filing!Filing]  OBVIOUS
  <2>2. {} \in SUBSET Posts  OBVIOUS
  <2>3. QED  BY <2>1, <2>2 DEF EdReads
<1>3. QED  BY <1>1, <1>2 DEF Filing!NoRequest, EdJob

LEMMA EdInit == ASSUME Levels # {}, Filing!Init PROVE EdInv
<1>1. eds \in [Eds -> [level : Levels, active : BOOLEAN]]  BY DEF Filing!Init
<1>2. posts \in [Posts -> Filing!Filing]  BY DEF Filing!Init
<1>3. edPc \in [Slots -> Filing!PCs] /\ \A r \in Slots : edPc[r] = "idle"  BY DEF Filing!Init, Filing!PCs
<1>4. edReq \in [Slots -> EdJob]  BY EdNoRequest DEF Filing!Init
<1>5. edLog \in [jobs : Nat, overlapped : BOOLEAN, moved : BOOLEAN] /\ ~edLog.moved /\ ~edLog.overlapped
  BY DEF Filing!Init
<1>6. \A p \in Posts : EdProper(posts[p], eds)
  BY DEF Filing!Init, Filing!Filed, Filing!Proper, EdProper, EdNearly
<1>7. \A p \in Posts : EdLevel(posts[p], eds)  BY <1>6 DEF EdProper, EdNearly, EdLevel
<1>8. EdMoved /\ EdMerged  BY <1>3, <1>7 DEF EdMoved, EdMerged, EdMoves, EdMerges
<1>9. EdAlone  BY <1>3, <1>6 DEF EdAlone, EdMerges
<1>10. QED  BY <1>1, <1>2, <1>3, <1>4, <1>5, <1>8, <1>9 DEF EdInv, EdTypes

EdActs(r) ==
    \/ Filing!StartMerge(r) \/ Filing!StartAutomerge(r) \/ Filing!StartReplace(r) \/ Filing!StartMove(r)
    \/ Filing!MergeCheck(r) \/ Filing!MergeMark(r) \/ Filing!MergeFind(r) \/ Filing!MergeWrite(r)
    \/ Filing!ReplaceMark(r) \/ Filing!ReplacePosts(r)
    \/ Filing!MoveGroups(r) \/ Filing!MoveCommit(r) \/ Filing!MoveMark(r) \/ Filing!MovePosts(r)

EdStarts(r) == Filing!StartMerge(r) \/ Filing!StartAutomerge(r) \/ Filing!StartReplace(r) \/ Filing!StartMove(r)

\* what a request which begins is about
EdNew(r) ==
    \/ /\ edPc'[r] = "merge.check"
       /\ edReq'[r].rest = {}
       /\ \E from, to \in Filing!Active : from # to /\ edReq'[r].from = {from} /\ edReq'[r].to = to
    \/ /\ edPc'[r] = "merge.mark"
       /\ edReq'[r].from \subseteq Eds /\ edReq'[r].rest \subseteq Filing!Active /\ edReq'[r].to \in Filing!Active
       /\ edReq'[r].to \notin edReq'[r].from /\ edReq'[r].to \notin edReq'[r].rest
       /\ edReq'[r].from \intersect edReq'[r].rest = {}
       /\ \A e \in edReq'[r].from \union edReq'[r].rest \union {edReq'[r].to} : eds[e].level = edReq'[r].level
    \/ /\ edPc'[r] = "replace.mark"
       /\ edReq'[r].from \subseteq Eds /\ edReq'[r].rest = {} /\ edReq'[r].to \in Filing!Active
       /\ edReq'[r].to \notin edReq'[r].from
       /\ \A e \in edReq'[r].from \union {edReq'[r].to} : eds[e].level = edReq'[r].level
    \/ edPc'[r] = "level.groups"

LEMMA EdBegins == ASSUME Levels # {}, EdTypes, NEW r \in Slots, EdStarts(r)
  PROVE \E first \in Filing!PCs, job \in EdJob :
           /\ Filing!Begin(r, first, job)
           /\ edPc' = [edPc EXCEPT ![r] = first]
           /\ edReq' = [edReq EXCEPT ![r] = job]
           /\ EdNew(r)
<1>0. Filing!NoRequest \in EdJob /\ Filing!NoRequest.rest = {}  BY EdNoRequest DEF Filing!NoRequest
<1>t. /\ edPc \in [Slots -> Filing!PCs] /\ edReq \in [Slots -> EdJob]
      /\ eds \in [Eds -> [level : Levels, active : BOOLEAN]]
  BY DEF EdTypes
<1>1. CASE Filing!StartMerge(r)
  <2>1. PICK from \in Filing!Active, to \in Filing!Active :
           from # to /\ Filing!Begin(r, "merge.check", [Filing!NoRequest EXCEPT !.from = {from}, !.to = to])
    BY <1>1 DEF Filing!StartMerge
  <2> DEFINE job == [Filing!NoRequest EXCEPT !.from = {from}, !.to = to]
  <2>2. from \in Eds /\ to \in Eds  BY DEF Filing!Active
  <2>3. job \in EdJob /\ job.rest = {} /\ job.from = {from} /\ job.to = to  BY <1>0, <2>2 DEF EdJob
  <2>4. "merge.check" \in Filing!PCs  BY DEF Filing!PCs
  <2>5. edPc' = [edPc EXCEPT ![r] = "merge.check"] /\ edReq' = [edReq EXCEPT ![r] = job]
    BY <2>1 DEF Filing!Begin, Filing!Goto
  <2>6. edPc'[r] = "merge.check" /\ edReq'[r] = job  BY <2>5, <1>t
  <2>7. EdNew(r)  BY <2>6, <2>3, <2>1 DEF EdNew
  <2>8. QED  BY <2>1, <2>3, <2>4, <2>5, <2>7
<1>2. CASE Filing!StartAutomerge(r)
  <2>0. PICK l \in Levels : \E same \in SUBSET {e \in Filing!Active : eds[e].level = l} :
           \E to \in same : \E from \in same \ {to} :
           Filing!Begin(r, "merge.mark", [Filing!NoRequest EXCEPT !.from = {from}, !.to = to, !.level = l,
                                                 !.rest = same \ {from, to}])
    BY <1>2 DEF Filing!StartAutomerge
  <2>p. PICK same \in SUBSET {e \in Filing!Active : eds[e].level = l} :
           \E to \in same : \E from \in same \ {to} :
           Filing!Begin(r, "merge.mark", [Filing!NoRequest EXCEPT !.from = {from}, !.to = to, !.level = l,
                                                 !.rest = same \ {from, to}])
    BY <2>0
  <2>q. PICK to \in same : \E from \in same \ {to} :
           Filing!Begin(r, "merge.mark", [Filing!NoRequest EXCEPT !.from = {from}, !.to = to, !.level = l,
                                                 !.rest = same \ {from, to}])
    BY <2>p
  <2>1. PICK from \in same \ {to} :
           Filing!Begin(r, "merge.mark", [Filing!NoRequest EXCEPT !.from = {from}, !.to = to, !.level = l,
                                                 !.rest = same \ {from, to}])
    BY <2>q
  <2> DEFINE job == [Filing!NoRequest EXCEPT !.from = {from}, !.to = to, !.level = l, !.rest = same \ {from, to}]
  <2>2. same \subseteq Filing!Active /\ Filing!Active \subseteq Eds /\ from # to /\ \A e \in same : eds[e].level = l
    BY DEF Filing!Active
  <2>3. job \in EdJob /\ job.rest = same \ {from, to} /\ job.from = {from} /\ job.to = to /\ job.level = l
    BY <1>0, <2>2 DEF EdJob
  <2>4. "merge.mark" \in Filing!PCs  BY DEF Filing!PCs
  <2>5. edPc' = [edPc EXCEPT ![r] = "merge.mark"] /\ edReq' = [edReq EXCEPT ![r] = job]
    BY <2>1 DEF Filing!Begin, Filing!Goto
  <2>6. edPc'[r] = "merge.mark" /\ edReq'[r] = job  BY <2>5, <1>t
  <2>7. EdNew(r)  BY <2>6, <2>3, <2>2 DEF EdNew
  <2>8. QED  BY <2>1, <2>3, <2>4, <2>5, <2>7
<1>3. CASE Filing!StartReplace(r)
  <2>p. PICK l \in Levels : \E from \in SUBSET {e \in Filing!Active : eds[e].level = l} \ {{}} :
        \E to \in Filing!Active \ from :
        /\ eds[to].level = l
        /\ Filing!Begin(r, "replace.mark", [Filing!NoRequest EXCEPT !.from = from, !.to = to, !.level = l])
    BY <1>3 DEF Filing!StartReplace
  <2>q. PICK from \in SUBSET {e \in Filing!Active : eds[e].level = l} \ {{}} : \E to \in Filing!Active \ from :
        /\ eds[to].level = l
        /\ Filing!Begin(r, "replace.mark", [Filing!NoRequest EXCEPT !.from = from, !.to = to, !.level = l])
    BY <2>p
  <2>1. PICK to \in Filing!Active \ from :
        /\ eds[to].level = l
        /\ Filing!Begin(r, "replace.mark", [Filing!NoRequest EXCEPT !.from = from, !.to = to, !.level = l])
    BY <2>q
  <2> DEFINE job == [Filing!NoRequest EXCEPT !.from = from, !.to = to, !.level = l]
  <2>2. from \subseteq Eds /\ to \in Eds /\ to \notin from /\ \A e \in from : eds[e].level = l
    BY DEF Filing!Active
  <2>3. job \in EdJob /\ job.rest = {} /\ job.from = from /\ job.to = to /\ job.level = l
    BY <1>0, <2>2 DEF EdJob
  <2>4. "replace.mark" \in Filing!PCs  BY DEF Filing!PCs
  <2>5. edPc' = [edPc EXCEPT ![r] = "replace.mark"] /\ edReq' = [edReq EXCEPT ![r] = job]
    BY <2>1 DEF Filing!Begin, Filing!Goto
  <2>6. edPc'[r] = "replace.mark" /\ edReq'[r] = job  BY <2>5, <1>t
  <2>7. EdNew(r)  BY <2>6, <2>3, <2>2, <2>1 DEF EdNew
  <2>8. QED  BY <2>1, <2>3, <2>4, <2>5, <2>7
<1>4. CASE Filing!StartMove(r)
  <2>1. PICK e \in Filing!Active, l \in Levels :
           Filing!Begin(r, "level.groups", [Filing!NoRequest EXCEPT !.from = {e}, !.level = l])
    BY <1>4 DEF Filing!StartMove
  <2> DEFINE job == [Filing!NoRequest EXCEPT !.from = {e}, !.level = l]
  <2>2. e \in Eds  BY DEF Filing!Active
  <2>3. job \in EdJob  BY <1>0, <2>2 DEF EdJob
  <2>4. "level.groups" \in Filing!PCs  BY DEF Filing!PCs
  <2>5. edPc' = [edPc EXCEPT ![r] = "level.groups"] /\ edReq' = [edReq EXCEPT ![r] = job]
    BY <2>1 DEF Filing!Begin, Filing!Goto
  <2>6. EdNew(r)  BY <2>5, <1>t DEF EdNew
  <2>8. QED  BY <2>1, <2>3, <2>4, <2>5, <2>6
<1>5. QED  BY <1>1, <1>2, <1>3, <1>4 DEF EdStarts

\* an edition keeps its level but in a move, and is deactivated by whom it is taken over
LEMMA EdEds == ASSUME EdTypes, NEW r \in Slots, EdActs(r)
  PROVE /\ eds' \in [Eds -> [level : Levels, active : BOOLEAN]]
        /\ ~Filing!MoveMark(r) => \A e \in Eds : eds'[e].level = eds[e].level
        /\ ~Filing!MergeMark(r) /\ ~Filing!ReplaceMark(r) => \A e \in Eds : eds'[e].active = eds[e].active
        /\ Filing!MergeMark(r) \/ Filing!ReplaceMark(r) =>
              \A e \in Eds : eds'[e].active = (eds[e].active /\ e \notin edReq[r].from)
        /\ Filing!MoveMark(r) => \A e \in Eds : e \notin edReq[r].from => eds'[e].level = eds[e].level
<1>t. eds \in [Eds -> [level : Levels, active : BOOLEAN]] /\ edReq[r].level \in Levels  BY DEF EdTypes, EdJob
<1>1. CASE Filing!MergeMark(r) \/ Filing!ReplaceMark(r)
  <2>1. eds' = [e \in Eds |-> IF e \in edReq[r].from THEN [eds[e] EXCEPT !.active = FALSE] ELSE eds[e]]
    BY <1>1 DEF Filing!MergeMark, Filing!ReplaceMark, Filing!Deactivate
  <2>2. \A e \in Eds : [eds[e] EXCEPT !.active = FALSE] \in [level : Levels, active : BOOLEAN]  BY <1>t
  <2>3. eds' \in [Eds -> [level : Levels, active : BOOLEAN]]  BY <2>1, <2>2, <1>t
  <2>4. \A e \in Eds : eds'[e].level = eds[e].level /\ eds'[e].active = (eds[e].active /\ e \notin edReq[r].from)
    BY <2>1, <1>t
  <2>5. ~Filing!MoveMark(r)  BY <1>1 DEF Filing!MergeMark, Filing!ReplaceMark, Filing!MoveMark
  <2>6. QED  BY <1>1, <2>3, <2>4, <2>5
<1>2. CASE Filing!MoveMark(r)
  <2>1. eds' = [e \in Eds |-> IF e \in edReq[r].from THEN [eds[e] EXCEPT !.level = edReq[r].level] ELSE eds[e]]
    BY <1>2 DEF Filing!MoveMark
  <2>2. \A e \in Eds : [eds[e] EXCEPT !.level = edReq[r].level] \in [level : Levels, active : BOOLEAN]  BY <1>t
  <2>3. eds' \in [Eds -> [level : Levels, active : BOOLEAN]]  BY <2>1, <2>2, <1>t
  <2>4. \A e \in Eds : eds'[e].active = eds[e].active /\ (e \notin edReq[r].from => eds'[e].level = eds[e].level)
    BY <2>1, <1>t
  <2>5. ~Filing!MergeMark(r) /\ ~Filing!ReplaceMark(r)
    BY <1>2 DEF Filing!MergeMark, Filing!ReplaceMark, Filing!MoveMark
  <2>6. QED  BY <1>2, <2>3, <2>4, <2>5
<1>3. CASE ~Filing!MergeMark(r) /\ ~Filing!ReplaceMark(r) /\ ~Filing!MoveMark(r)
  <2>1. eds' = eds
    BY <1>3 DEF EdActs, Filing!StartMerge, Filing!StartAutomerge, Filing!StartReplace, Filing!StartMove, Filing!Begin,
         Filing!MergeCheck, Filing!MergeFind, Filing!MergeWrite, Filing!ReplacePosts, Filing!MoveGroups,
         Filing!MoveCommit, Filing!MovePosts
  <2>2. QED  BY <2>1, <1>3, <1>t
<1>4. QED  BY <1>1, <1>2, <1>3

\* the others do not move, and nor does the log but when one begins
LEMMA EdOthers == ASSUME Levels # {}, EdTypes, NEW r \in Slots, EdActs(r)
  PROVE /\ edPc' \in [Slots -> Filing!PCs] /\ edReq' \in [Slots -> EdJob]
        /\ \A q \in Slots : q # r => edPc'[q] = edPc[q] /\ edReq'[q] = edReq[q]
        /\ edLog' \in [jobs : Nat, overlapped : BOOLEAN, moved : BOOLEAN]
        /\ edLog.overlapped => edLog'.overlapped
        /\ edLog.moved => edLog'.moved
        /\ (edLog.moved => edLog.overlapped) => (edLog'.moved => edLog'.overlapped)
        /\ EdStarts(r) /\ ~edLog'.overlapped => \A q \in Slots : edPc[q] = "idle"
        /\ EdStarts(r) /\ ~edLog'.moved => \A q \in Slots : edPc[q] \notin EdMoves
        /\ EdStarts(r) /\ ~edLog'.moved /\ edPc'[r] = "level.groups" => \A q \in Slots : edPc[q] = "idle"
        /\ ~EdStarts(r) => edPc[r] # "idle"
        /\ EdStarts(r) => edPc[r] = "idle"
<1>t. /\ edPc \in [Slots -> Filing!PCs] /\ edReq \in [Slots -> EdJob]
      /\ edLog \in [jobs : Nat, overlapped : BOOLEAN, moved : BOOLEAN]
      /\ edReq[r] \in EdJob /\ Filing!NoRequest \in EdJob
      /\ eds \in [Eds -> [level : Levels, active : BOOLEAN]] /\ posts \in [Posts -> Filing!Filing]
  BY EdNoRequest DEF EdTypes
<1>1. CASE EdStarts(r)
  <2>1. PICK first \in Filing!PCs, job \in EdJob :
           /\ Filing!Begin(r, first, job)
           /\ edPc' = [edPc EXCEPT ![r] = first]
           /\ edReq' = [edReq EXCEPT ![r] = job]
    BY <1>1, EdBegins
  <2>2. edPc' \in [Slots -> Filing!PCs] /\ edReq' \in [Slots -> EdJob]  BY <2>1, <1>t
  <2>3. \A q \in Slots : q # r => edPc'[q] = edPc[q] /\ edReq'[q] = edReq[q]  BY <2>1, <1>t
  <2>4. edPc[r] = "idle" /\ edPc'[r] = first  BY <2>1, <1>t DEF Filing!Begin
  <2> DEFINE busy == Filing!Busy
  <2> DEFINE moving == Filing!Moving
  <2>b. busy \in BOOLEAN /\ moving \in BOOLEAN  BY DEF Filing!Busy, Filing!Moving
  <2>5. edLog' = [jobs |-> edLog.jobs + 1, overlapped |-> edLog.overlapped \/ busy,
                  moved |-> edLog.moved \/ moving \/ (busy /\ first = "level.groups")]
    BY <2>1 DEF Filing!Begin
  <2>6. moving => busy  BY DEF Filing!Busy, Filing!Moving
  <2>7. ~busy => \A q \in Slots : edPc[q] = "idle"  BY DEF Filing!Busy
  <2>8. ~moving => \A q \in Slots : edPc[q] \notin EdMoves  BY DEF Filing!Moving, EdMoves
  <2> HIDE DEF busy, moving
  <2>9. /\ edLog' \in [jobs : Nat, overlapped : BOOLEAN, moved : BOOLEAN]
        /\ edLog.overlapped => edLog'.overlapped
        /\ edLog.moved => edLog'.moved
        /\ (edLog.moved => edLog.overlapped) => (edLog'.moved => edLog'.overlapped)
        /\ ~edLog'.overlapped => ~busy
        /\ ~edLog'.moved => ~moving /\ (first = "level.groups" => ~busy)
    <3>1. /\ edLog.jobs + 1 \in Nat /\ (edLog.overlapped \/ busy) \in BOOLEAN
          /\ (edLog.moved \/ moving \/ (busy /\ first = "level.groups")) \in BOOLEAN
      BY <1>t
    <3>2. /\ edLog'.overlapped = (edLog.overlapped \/ busy)
          /\ edLog'.moved = (edLog.moved \/ moving \/ (busy /\ first = "level.groups"))
      BY <2>5
    <3>3. edLog' \in [jobs : Nat, overlapped : BOOLEAN, moved : BOOLEAN]  BY <2>5, <3>1
    <3>4. QED  BY <3>2, <3>3, <2>6
  <2>10. QED  BY <1>1, <2>2, <2>3, <2>4, <2>7, <2>8, <2>9
<1>2. CASE ~EdStarts(r)
  <2>1. edLog' = edLog /\ edPc[r] # "idle"
    BY <1>2 DEF EdActs, EdStarts, Filing!MergeCheck, Filing!MergeMark, Filing!MergeFind, Filing!MergeWrite,
         Filing!ReplaceMark, Filing!ReplacePosts, Filing!MoveGroups, Filing!MoveCommit, Filing!MoveMark,
         Filing!MovePosts
  <2>2. \E v \in Filing!PCs : edPc' = [edPc EXCEPT ![r] = v]
    <3>1. edPc' = edPc => edPc' = [edPc EXCEPT ![r] = edPc[r]]  BY <1>t
    <3>2. edPc[r] \in Filing!PCs  BY <1>t
    <3>3. QED
      BY <3>1, <3>2, <1>2 DEF EdActs, EdStarts, Filing!MergeCheck, Filing!MergeMark, Filing!MergeFind, Filing!MergeWrite,
         Filing!ReplaceMark, Filing!ReplacePosts, Filing!MoveGroups, Filing!MoveCommit, Filing!MoveMark,
         Filing!MovePosts, Filing!PCs, Filing!Goto
  <2>3. \E v \in EdJob : edReq' = [edReq EXCEPT ![r] = v]
    <3>0. edReq' = edReq => edReq' = [edReq EXCEPT ![r] = edReq[r]]  BY <1>t
    <3>1. CASE Filing!MergeCheck(r)
      <4>1. PICK e \in edReq[r].from :
               \/ edReq' = [edReq EXCEPT ![r].level = eds[e].level] \/ edReq' = [edReq EXCEPT ![r] = Filing!NoRequest]
        BY <3>1 DEF Filing!MergeCheck
      <4>2. eds[e].level \in Levels  BY <1>t DEF EdJob
      <4>3. [edReq[r] EXCEPT !.level = eds[e].level] \in EdJob  BY <4>2, <1>t DEF EdJob
      <4>4. QED  BY <4>1, <4>3, <1>t
    <3>2. CASE Filing!MergeFind(r)
      <4> DEFINE found == {p \in Posts : \E l \in Levels : posts[p][l] \in edReq[r].from}
      <4>1. edReq' = [edReq EXCEPT ![r].read = [p \in found |-> posts[p]]]  BY <3>2 DEF Filing!MergeFind
      <4>2. [p \in found |-> posts[p]] \in [found -> Filing!Filing]  BY <1>t
      <4>3. [p \in found |-> posts[p]] \in EdReads  BY <4>2 DEF EdReads
      <4>4. [edReq[r] EXCEPT !.read = [p \in found |-> posts[p]]] \in EdJob  BY <4>3, <1>t DEF EdJob
      <4>5. QED  BY <4>1, <4>4
    <3>3. CASE Filing!MergeWrite(r)
      <4>1. CASE \E p \in DOMAIN edReq[r].read :
                    edReq' = [edReq EXCEPT ![r].read = [q \in DOMAIN @ \ {p} |-> @[q]]]
        <5>1. PICK p \in DOMAIN edReq[r].read :
                 edReq' = [edReq EXCEPT ![r].read = [q \in DOMAIN edReq[r].read \ {p} |-> edReq[r].read[q]]]
          BY <4>1
        <5>2. PICK D \in SUBSET Posts : edReq[r].read \in [D -> Filing!Filing]  BY <1>t DEF EdJob, EdReads
        <5>3. [q \in DOMAIN edReq[r].read \ {p} |-> edReq[r].read[q]] \in [D \ {p} -> Filing!Filing]  BY <5>2
        <5>4. D \ {p} \in SUBSET Posts  BY <5>2
        <5>5. [q \in DOMAIN edReq[r].read \ {p} |-> edReq[r].read[q]] \in EdReads  BY <5>3, <5>4 DEF EdReads
        <5>6. [edReq[r] EXCEPT !.read = [q \in DOMAIN edReq[r].read \ {p} |-> edReq[r].read[q]]] \in EdJob
          BY <5>5, <1>t DEF EdJob
        <5>7. QED  BY <5>1, <5>6
      <4>2. CASE edReq' = [edReq EXCEPT ![r] = Filing!NoRequest]  BY <4>2, <1>t
      <4>3. CASE \E e \in edReq[r].rest : edReq' = [edReq EXCEPT ![r].from = {e}, ![r].rest = @ \ {e}]
        <5>1. PICK e \in edReq[r].rest : edReq' = [edReq EXCEPT ![r].from = {e}, ![r].rest = @ \ {e}]  BY <4>3
        <5>2. edReq' = [edReq EXCEPT ![r] = [edReq[r] EXCEPT !.from = {e}, !.rest = @ \ {e}]]  BY <5>1, <1>t
        <5>3. [edReq[r] EXCEPT !.from = {e}, !.rest = @ \ {e}] \in EdJob  BY <1>t DEF EdJob
        <5>4. QED  BY <5>2, <5>3
      <4>4. QED  BY <3>3, <4>1, <4>2, <4>3 DEF Filing!MergeWrite
    <3>4. CASE Filing!MoveGroups(r)
      <4> DEFINE some == {p \in Posts : \E e \in edReq[r].from : posts[p][eds[e].level] = e}
      <4> DEFINE groups == {posts[p] : p \in some}
      <4>1. edReq' = [edReq EXCEPT ![r].groups = groups]  BY <3>4 DEF Filing!MoveGroups
      <4>2. groups \subseteq Filing!Filing  BY <1>t
      <4>3. [edReq[r] EXCEPT !.groups = groups] \in EdJob  BY <4>2, <1>t DEF EdJob
      <4>4. QED  BY <4>1, <4>3
    <3>5. CASE Filing!MovePosts(r)
      <4>1. CASE edReq' = [edReq EXCEPT ![r] = Filing!NoRequest]  BY <4>1, <1>t
      <4>2. CASE \E g \in edReq[r].groups : edReq' = [edReq EXCEPT ![r].groups = @ \ {g}]
        <5>1. PICK g \in edReq[r].groups : edReq' = [edReq EXCEPT ![r].groups = edReq[r].groups \ {g}]  BY <4>2
        <5>2. [edReq[r] EXCEPT !.groups = edReq[r].groups \ {g}] \in EdJob  BY <1>t DEF EdJob
        <5>3. QED  BY <5>1, <5>2
      <4>3. QED  BY <3>5, <4>1, <4>2 DEF Filing!MovePosts
    <3>6. CASE \/ Filing!MergeMark(r) \/ Filing!ReplaceMark(r) \/ Filing!MoveMark(r)
               \/ Filing!ReplacePosts(r) \/ Filing!MoveCommit(r)
      BY <3>6, <3>0, <1>t DEF Filing!MergeMark, Filing!ReplaceMark, Filing!MoveMark, Filing!ReplacePosts, Filing!MoveCommit
    <3>7. QED  BY <1>2, <3>1, <3>2, <3>3, <3>4, <3>5, <3>6 DEF EdActs, EdStarts
  <2>4. edPc' \in [Slots -> Filing!PCs] /\ edReq' \in [Slots -> EdJob]  BY <2>2, <2>3, <1>t
  <2>5. \A q \in Slots : q # r => edPc'[q] = edPc[q] /\ edReq'[q] = edReq[q]  BY <2>2, <2>3, <1>t
  <2>6. QED  BY <1>2, <1>t, <2>1, <2>4, <2>5
<1>3. QED  BY <1>1, <1>2

LEMMA EdPosts == ASSUME EdTypes, NEW r \in Slots, EdActs(r)
  PROVE /\ posts' \in [Posts -> Filing!Filing]
        /\ ~Filing!MergeWrite(r) /\ ~Filing!ReplacePosts(r) /\ ~Filing!MovePosts(r) => posts' = posts
<1>t. /\ edReq[r] \in EdJob
      /\ eds \in [Eds -> [level : Levels, active : BOOLEAN]] /\ posts \in [Posts -> Filing!Filing]
  BY DEF EdTypes
<1>k. edReq[r].to \in Eds \union {Filing!None} /\ edReq[r].level \in Levels  BY <1>t DEF EdJob
<1>1. CASE Filing!MergeWrite(r)
  <2>1. CASE posts' = posts  BY <2>1, <1>1, <1>t
  <2>2. CASE \E p \in DOMAIN edReq[r].read :
               posts' = [posts EXCEPT ![p] = [edReq[r].read[p] EXCEPT ![edReq[r].level] = edReq[r].to]]
    <3>1. PICK p \in DOMAIN edReq[r].read :
               posts' = [posts EXCEPT ![p] = [edReq[r].read[p] EXCEPT ![edReq[r].level] = edReq[r].to]]
      BY <2>2
    <3>2. edReq[r].read[p] \in Filing!Filing  BY <1>t DEF EdJob, EdReads
    <3>3. [edReq[r].read[p] EXCEPT ![edReq[r].level] = edReq[r].to] \in Filing!Filing
      BY <3>2, <1>k DEF Filing!Filing
    <3>4. QED  BY <3>1, <3>3, <1>t, <1>1
  <2>3. QED  BY <1>1, <2>1, <2>2 DEF Filing!MergeWrite
<1>2. CASE Filing!ReplacePosts(r)
  <2>1. posts' = [p \in Posts |-> IF posts[p][edReq[r].level] \in edReq[r].from
                                 THEN [posts[p] EXCEPT ![edReq[r].level] = edReq[r].to] ELSE posts[p]]
    BY <1>2 DEF Filing!ReplacePosts
  <2>2. \A p \in Posts : [posts[p] EXCEPT ![edReq[r].level] = edReq[r].to] \in Filing!Filing
    BY <1>t, <1>k DEF Filing!Filing
  <2>3. QED  BY <2>1, <2>2, <1>t, <1>2
<1>3. CASE Filing!MovePosts(r)
  <2>1. CASE posts' = posts  BY <2>1, <1>3, <1>t
  <2>2. CASE \E g \in edReq[r].groups : \E new \in Filing!Filing :
             posts' = [p \in Posts |-> IF posts[p] = g THEN new ELSE posts[p]]
    BY <2>2, <1>3, <1>t
  <2>3. QED  BY <1>3, <2>1, <2>2 DEF Filing!MovePosts
<1>4. CASE ~Filing!MergeWrite(r) /\ ~Filing!ReplacePosts(r) /\ ~Filing!MovePosts(r)
  <2>1. posts' = posts
    BY <1>4 DEF EdActs, Filing!StartMerge, Filing!StartAutomerge, Filing!StartReplace, Filing!StartMove, Filing!Begin,
         Filing!MergeCheck, Filing!MergeFind, Filing!MergeMark, Filing!ReplaceMark, Filing!MoveGroups,
         Filing!MoveCommit, Filing!MoveMark
  <2>2. QED  BY <2>1, <1>t
<1>5. QED  BY <1>1, <1>2, <1>3, <1>4

\* an article which was filed under editions of its levels is, when they keep them
LEMMA EdLevelStays ==
  ASSUME NEW f \in Filing!Filing, NEW es, NEW fs, \A e \in Eds : fs[e].level = es[e].level, EdLevel(f, es)
  PROVE EdLevel(f, fs)
BY DEF EdLevel, Filing!Filing

LEMMA EdLevelWritten ==
  ASSUME NEW f \in Filing!Filing, NEW es, NEW l \in Levels, NEW e \in Eds, EdLevel(f, es), es[e].level = l
  PROVE EdLevel([f EXCEPT ![l] = e], es)
BY DEF EdLevel, Filing!Filing

LEMMA EdMovedKept == ASSUME Levels # {}, EdTypes, EdMoved, EdMerged, NEW r \in Slots, EdActs(r), ~edLog'.moved
  PROVE EdMoved'
<1>t. /\ edReq[r] \in EdJob /\ edReq[r].from \subseteq Eds
      /\ eds \in [Eds -> [level : Levels, active : BOOLEAN]] /\ posts \in [Posts -> Filing!Filing]
      /\ \A p \in Posts : posts[p] \in Filing!Filing
  BY DEF EdTypes, EdJob
<1>o. /\ \A q \in Slots : q # r => edPc'[q] = edPc[q] /\ edReq'[q] = edReq[q]
      /\ edPc \in [Slots -> Filing!PCs] /\ edPc' \in [Slots -> Filing!PCs]
      /\ edReq \in [Slots -> EdJob] /\ edReq' \in [Slots -> EdJob]
  BY EdOthers DEF EdTypes
<1>1. /\ \A q, s \in Slots : edPc[q] \in EdMoves /\ edPc[s] # "idle" => q = s
      /\ (\A q \in Slots : edPc[q] # "level.posts") => \A p \in Posts : EdLevel(posts[p], eds)
      /\ \A q \in Slots : edPc[q] = "level.posts" =>
          \A p \in Posts : EdLevel(posts[p], eds) \/ posts[p] \in edReq[q].groups
      /\ \A q \in Slots : edPc[q] \in {"level.asked", "level.mark"} =>
          \A p \in Posts : \A e \in edReq[q].from : posts[p][eds[e].level] = e => posts[p] \in edReq[q].groups
  BY DEF EdMoved
<1>2. CASE EdStarts(r)
  <2>1. \A q \in Slots : edPc[q] \notin EdMoves  BY <1>2, EdOthers
  <2>2. posts' = posts /\ eds' = eds
    BY <1>2 DEF EdStarts, Filing!StartMerge, Filing!StartAutomerge, Filing!StartReplace, Filing!StartMove, Filing!Begin
  <2>3. edPc'[r] = "level.groups" => \A q \in Slots : edPc[q] = "idle"  BY <1>2, EdOthers
  <2>4. edPc'[r] \in {"merge.check", "merge.mark", "replace.mark", "level.groups"}
    BY <1>2, EdBegins DEF EdNew
  <2>5. \A q \in Slots : edPc'[q] \notin {"level.posts", "level.asked", "level.mark"}
    BY <2>1, <2>4, <1>o DEF EdMoves
  <2>6. \A q, s \in Slots : edPc'[q] \in EdMoves /\ edPc'[s] # "idle" => q = s
    BY <2>1, <2>3, <2>4, <1>o DEF EdMoves
  <2>7. \A p \in Posts : EdLevel(posts'[p], eds')
    BY <2>1, <2>2, <1>1 DEF EdMoves
  <2>8. QED  BY <2>5, <2>6, <2>7 DEF EdMoved
<1>3. CASE edPc[r] \in EdMoves /\ ~EdStarts(r)
  <2>1. \A q \in Slots : q # r => edPc[q] = "idle" /\ edPc'[q] = "idle"  BY <1>3, <1>1, <1>o
  <2>2. \A q, s \in Slots : edPc'[q] \in EdMoves /\ edPc'[s] # "idle" => q = s
    BY <2>1 DEF EdMoves
  <2>3. CASE Filing!MoveGroups(r)
    <3> DEFINE groups == {posts[p] : p \in {q \in Posts : \E e \in edReq[r].from : posts[q][eds[e].level] = e}}
    <3>1. edReq' = [edReq EXCEPT ![r].groups = groups] /\ posts' = posts /\ eds' = eds /\ edPc[r] = "level.groups"
          /\ edPc'[r] \in {"level.mark", "level.asked"}
      BY <2>3, <1>o DEF Filing!MoveGroups, Filing!Goto
    <3>2. edReq'[r].groups = groups /\ edReq'[r].from = edReq[r].from  BY <3>1, <1>o DEF EdJob
    <3>3. \A q \in Slots : edPc[q] # "level.posts"  BY <3>1, <2>1
    <3>4. \A p \in Posts : EdLevel(posts'[p], eds')  BY <3>1, <3>3, <1>1
    <3>5. \A p \in Posts : \A e \in edReq'[r].from : posts'[p][eds'[e].level] = e => posts'[p] \in edReq'[r].groups
      BY <3>1, <3>2
    <3>6. \A q \in Slots : edPc'[q] # "level.posts"  BY <3>1, <2>1
    <3>7. QED  BY <2>1, <2>2, <3>4, <3>5, <3>6 DEF EdMoved
  <2>4. CASE Filing!MoveCommit(r)
    <3>1. posts' = posts /\ eds' = eds /\ edPc[r] = "level.asked"
          /\ ((edPc'[r] = "level.mark" /\ edReq' = edReq) \/ edPc'[r] = "idle")
      BY <2>4, <1>o DEF Filing!MoveCommit, Filing!Goto
    <3>2. \A q \in Slots : edPc[q] # "level.posts" /\ edPc'[q] # "level.posts"  BY <3>1, <2>1
    <3>3. QED  BY <2>1, <2>2, <3>1, <3>2, <1>1 DEF EdMoved
  <2>5. CASE Filing!MoveMark(r)
    <3>1. posts' = posts /\ edReq' = edReq /\ edPc[r] = "level.mark" /\ edPc'[r] = "level.posts"
      BY <2>5, <1>o DEF Filing!MoveMark, Filing!Goto
    <3>2. \A p \in Posts : EdLevel(posts[p], eds)  BY <3>1, <2>1, <1>1
    <3>3. ASSUME NEW p \in Posts, posts[p] \notin edReq[r].groups PROVE EdLevel(posts[p], eds')
      <4> SUFFICES ASSUME NEW l \in Levels, posts[p][l] # Filing!None PROVE eds'[posts[p][l]].level = l
        BY DEF EdLevel
      <4>1. eds[posts[p][l]].level = l /\ posts[p][l] \in Eds  BY <3>2, <1>t DEF EdLevel, Filing!Filing
      <4>2. posts[p][l] \notin edReq[r].from  BY <4>1, <3>1, <3>3, <1>1
      <4>3. QED  BY <4>1, <4>2, <2>5, EdEds
    <3>4. QED  BY <2>1, <2>2, <3>1, <3>3 DEF EdMoved
  <2>6. CASE Filing!MovePosts(r)
    <3>1. eds' = eds /\ edPc[r] = "level.posts"  BY <2>6 DEF Filing!MovePosts
    <3>2. CASE \E g \in edReq[r].groups : \E new \in {f \in Filing!Filing : Filing!Proper(f)} :
             /\ posts' = [p \in Posts |-> IF posts[p] = g THEN new ELSE posts[p]]
             /\ edReq' = [edReq EXCEPT ![r].groups = @ \ {g}]
             /\ edPc' = edPc
      <4>1. PICK g \in edReq[r].groups, new \in {f \in Filing!Filing : Filing!Proper(f)} :
             /\ posts' = [p \in Posts |-> IF posts[p] = g THEN new ELSE posts[p]]
             /\ edReq' = [edReq EXCEPT ![r].groups = @ \ {g}]
             /\ edPc' = edPc
        BY <3>2
      <4>2. EdLevel(new, eds)  BY DEF Filing!Proper, EdLevel
      <4>3. edReq'[r].groups = edReq[r].groups \ {g}  BY <4>1, <1>o DEF EdJob
      <4>4. \A p \in Posts : EdLevel(posts'[p], eds') \/ posts'[p] \in edReq'[r].groups
        BY <4>1, <4>2, <4>3, <3>1, <1>1
      <4>5. QED  BY <2>1, <2>2, <3>1, <4>1, <4>4 DEF EdMoved
    <3>3. CASE edReq[r].groups = {} /\ posts' = posts /\ edPc'[r] = "idle"
      <4>1. \A p \in Posts : EdLevel(posts'[p], eds')  BY <3>1, <3>3, <1>1
      <4>2. QED  BY <2>1, <2>2, <3>3, <4>1 DEF EdMoved
    <3>4. QED  BY <2>6, <3>2, <3>3, <1>o DEF Filing!MovePosts, Filing!Goto
  <2>7. QED
    BY <1>3, <2>3, <2>4, <2>5, <2>6 DEF EdActs, EdStarts, EdMoves, Filing!MergeCheck, Filing!MergeMark, Filing!MergeFind,
         Filing!MergeWrite, Filing!ReplaceMark, Filing!ReplacePosts
<1>4. CASE edPc[r] \notin EdMoves /\ ~EdStarts(r)
  <2>1. \/ Filing!MergeCheck(r) \/ Filing!MergeMark(r) \/ Filing!MergeFind(r) \/ Filing!MergeWrite(r)
        \/ Filing!ReplaceMark(r) \/ Filing!ReplacePosts(r)
    BY <1>4 DEF EdActs, EdStarts, EdMoves, Filing!MoveGroups, Filing!MoveCommit, Filing!MoveMark, Filing!MovePosts
  <2>2. edPc[r] # "idle"  BY <1>4, EdOthers
  <2>3. \A q \in Slots : edPc[q] \notin EdMoves  BY <2>2, <1>4, <1>1
  <2>4. edPc'[r] \notin EdMoves
    BY <2>1, <1>o DEF EdMoves, Filing!MergeCheck, Filing!MergeMark, Filing!MergeFind,
         Filing!MergeWrite, Filing!ReplaceMark, Filing!ReplacePosts, Filing!Goto
  <2>5. \A q \in Slots : edPc'[q] \notin EdMoves  BY <2>3, <2>4, <1>o
  <2>6. ~Filing!MoveMark(r)  BY <1>4 DEF Filing!MoveMark, EdMoves
  <2>7. \A e \in Eds : eds'[e].level = eds[e].level  BY <2>6, EdEds
  <2>8. \A p \in Posts : EdLevel(posts[p], eds)  BY <2>3, <1>1 DEF EdMoves
  <2>9. \A p \in Posts : EdLevel(posts'[p], eds)
    <3>1. CASE Filing!MergeWrite(r)
      <4>1. /\ edPc[r] = "merge.write" /\ edReq[r].to \in Eds /\ edReq[r].level \in Levels
            /\ eds[edReq[r].to].level = edReq[r].level
        BY <3>1, <1>t DEF Filing!MergeWrite, EdMerged, EdMerges, EdJob
      <4>2. CASE posts' = posts  BY <4>2, <2>8
      <4>3. CASE \E p \in DOMAIN edReq[r].read :
               posts' = [posts EXCEPT ![p] = [edReq[r].read[p] EXCEPT ![edReq[r].level] = edReq[r].to]]
        <5>1. PICK p \in DOMAIN edReq[r].read :
               posts' = [posts EXCEPT ![p] = [edReq[r].read[p] EXCEPT ![edReq[r].level] = edReq[r].to]]
          BY <4>3
        <5>2. edReq[r].read[p] \in Filing!Filing  BY <1>t DEF EdJob, EdReads
        <5>3. EdLevel(edReq[r].read[p], eds)  BY <4>1 DEF EdMerged
        <5>4. EdLevel([edReq[r].read[p] EXCEPT ![edReq[r].level] = edReq[r].to], eds)
          BY <5>2, <5>3, <4>1, EdLevelWritten
        <5>5. QED  BY <5>1, <5>4, <2>8, <1>t
      <4>4. QED  BY <3>1, <4>2, <4>3 DEF Filing!MergeWrite
    <3>2. CASE Filing!ReplacePosts(r)
      <4>1. /\ edPc[r] = "replace.posts" /\ edReq[r].to \in Eds /\ edReq[r].level \in Levels
            /\ eds[edReq[r].to].level = edReq[r].level
        BY <3>2, <1>t DEF Filing!ReplacePosts, EdMerged, EdMerges, EdJob
      <4>2. posts' = [p \in Posts |-> IF posts[p][edReq[r].level] \in edReq[r].from
                                 THEN [posts[p] EXCEPT ![edReq[r].level] = edReq[r].to] ELSE posts[p]]
        BY <3>2 DEF Filing!ReplacePosts
      <4>3. \A p \in Posts : EdLevel([posts[p] EXCEPT ![edReq[r].level] = edReq[r].to], eds)
        BY <4>1, <2>8, <1>t, EdLevelWritten
      <4>4. QED  BY <4>2, <4>3, <2>8
    <3>3. CASE ~Filing!MergeWrite(r) /\ ~Filing!ReplacePosts(r)
      BY <3>3, <2>8, <1>4, EdPosts DEF Filing!MovePosts, EdMoves
    <3>4. QED  BY <3>1, <3>2, <3>3
  <2>10. \A p \in Posts : EdLevel(posts'[p], eds')
    <3>1. \A p \in Posts : posts'[p] \in Filing!Filing  BY EdPosts
    <3>2. QED  BY <3>1, <2>7, <2>9, EdLevelStays
  <2>11. QED  BY <2>5, <2>10 DEF EdMoved, EdMoves
<1>5. QED  BY <1>2, <1>3, <1>4

\* what a merge or a replacement does to itself
LEMMA EdMerging == ASSUME EdTypes, NEW r \in Slots
  PROVE /\ Filing!MergeCheck(r) =>
              /\ edPc[r] = "merge.check"
              /\ \/ /\ edPc'[r] = "merge.mark"
                    /\ \E e \in edReq[r].from : /\ eds[e].level = eds[edReq[r].to].level
                                                /\ edReq'[r] = [edReq[r] EXCEPT !.level = eds[e].level]
                 \/ edPc'[r] = "idle"
        /\ Filing!MergeMark(r) => edPc[r] = "merge.mark" /\ edPc'[r] = "merge.find" /\ edReq'[r] = edReq[r]
        /\ Filing!ReplaceMark(r) => edPc[r] = "replace.mark" /\ edPc'[r] = "replace.posts" /\ edReq'[r] = edReq[r]
        /\ Filing!MergeFind(r) =>
              /\ edPc[r] = "merge.find" /\ edPc'[r] = "merge.write"
              /\ edReq'[r] = [edReq[r] EXCEPT !.read =
                                 [p \in {q \in Posts : \E l \in Levels : posts[q][l] \in edReq[r].from} |-> posts[p]]]
        /\ Filing!MergeWrite(r) =>
              /\ edPc[r] = "merge.write"
              /\ \/ /\ edPc'[r] = "merge.write"
                    /\ \E p \in DOMAIN edReq[r].read :
                          /\ posts' = [posts EXCEPT ![p] = [edReq[r].read[p] EXCEPT ![edReq[r].level] = edReq[r].to]]
                          /\ edReq'[r] = [edReq[r] EXCEPT !.read = [q \in DOMAIN edReq[r].read \ {p} |-> edReq[r].read[q]]]
                 \/ /\ DOMAIN edReq[r].read = {} /\ posts' = posts
                    /\ edPc'[r] = "idle"
                 \/ /\ DOMAIN edReq[r].read = {} /\ posts' = posts
                    /\ edPc'[r] = "merge.mark"
                    /\ \E e \in edReq[r].rest : edReq'[r] = [edReq[r] EXCEPT !.from = {e}, !.rest = edReq[r].rest \ {e}]
        /\ Filing!ReplacePosts(r) => edPc[r] = "replace.posts" /\ edPc'[r] = "idle"
<1>t. edPc \in [Slots -> Filing!PCs] /\ edReq \in [Slots -> EdJob] /\ edReq[r] \in EdJob  BY DEF EdTypes
<1>1. ASSUME Filing!MergeCheck(r)
      PROVE /\ edPc[r] = "merge.check"
            /\ \/ /\ edPc'[r] = "merge.mark"
                  /\ \E e \in edReq[r].from : /\ eds[e].level = eds[edReq[r].to].level
                                              /\ edReq'[r] = [edReq[r] EXCEPT !.level = eds[e].level]
               \/ edPc'[r] = "idle"
  BY <1>1, <1>t DEF Filing!MergeCheck, Filing!Goto
<1>2. Filing!MergeMark(r) => edPc[r] = "merge.mark" /\ edPc'[r] = "merge.find" /\ edReq'[r] = edReq[r]
  BY <1>t DEF Filing!MergeMark, Filing!Goto
<1>3. Filing!ReplaceMark(r) => edPc[r] = "replace.mark" /\ edPc'[r] = "replace.posts" /\ edReq'[r] = edReq[r]
  BY <1>t DEF Filing!ReplaceMark, Filing!Goto
<1>4. ASSUME Filing!MergeFind(r)
      PROVE /\ edPc[r] = "merge.find" /\ edPc'[r] = "merge.write"
            /\ edReq'[r] = [edReq[r] EXCEPT !.read =
                               [p \in {q \in Posts : \E l \in Levels : posts[q][l] \in edReq[r].from} |-> posts[p]]]
  BY <1>4, <1>t DEF Filing!MergeFind, Filing!Goto
<1>5. ASSUME Filing!MergeWrite(r)
      PROVE /\ edPc[r] = "merge.write"
            /\ \/ /\ edPc'[r] = "merge.write"
                  /\ \E p \in DOMAIN edReq[r].read :
                        /\ posts' = [posts EXCEPT ![p] = [edReq[r].read[p] EXCEPT ![edReq[r].level] = edReq[r].to]]
                        /\ edReq'[r] = [edReq[r] EXCEPT !.read = [q \in DOMAIN edReq[r].read \ {p} |-> edReq[r].read[q]]]
               \/ /\ DOMAIN edReq[r].read = {} /\ posts' = posts
                  /\ edPc'[r] = "idle"
               \/ /\ DOMAIN edReq[r].read = {} /\ posts' = posts
                  /\ edPc'[r] = "merge.mark"
                  /\ \E e \in edReq[r].rest : edReq'[r] = [edReq[r] EXCEPT !.from = {e}, !.rest = edReq[r].rest \ {e}]
  <2>0. edPc[r] = "merge.write"  BY <1>5 DEF Filing!MergeWrite
  <2>1. CASE \E p \in DOMAIN edReq[r].read :
             /\ posts' = [posts EXCEPT ![p] = [edReq[r].read[p] EXCEPT ![edReq[r].level] = edReq[r].to]]
             /\ edReq' = [edReq EXCEPT ![r].read = [q \in DOMAIN @ \ {p} |-> @[q]]]
             /\ edPc' = edPc
    BY <2>0, <2>1, <1>t
  <2>2. CASE /\ DOMAIN edReq[r].read = {}
             /\ IF edReq[r].rest = {} THEN Filing!Goto(r, "idle") /\ edReq' = [edReq EXCEPT ![r] = Filing!NoRequest]
                ELSE /\ \E e \in edReq[r].rest : edReq' = [edReq EXCEPT ![r].from = {e}, ![r].rest = @ \ {e}]
                     /\ Filing!Goto(r, "merge.mark")
             /\ posts' = posts
    <3>1. CASE edReq[r].rest = {}  BY <2>0, <2>2, <3>1, <1>t DEF Filing!Goto
    <3>2. CASE edReq[r].rest # {}
      <4>1. edPc'[r] = "merge.mark"  BY <2>2, <3>2, <1>t DEF Filing!Goto
      <4>2. PICK e \in edReq[r].rest : edReq' = [edReq EXCEPT ![r].from = {e}, ![r].rest = @ \ {e}]  BY <2>2, <3>2
      <4>3. edReq'[r] = [edReq[r] EXCEPT !.from = {e}, !.rest = edReq[r].rest \ {e}]  BY <4>2, <1>t DEF EdJob
      <4>4. QED  BY <2>0, <2>2, <4>1, <4>3
    <3>3. QED  BY <3>1, <3>2
  <2>3. QED  BY <1>5, <2>1, <2>2 DEF Filing!MergeWrite
<1>6. Filing!ReplacePosts(r) => edPc[r] = "replace.posts" /\ edPc'[r] = "idle"
  BY <1>t DEF Filing!ReplacePosts, Filing!Goto
<1>7. QED  BY <1>1, <1>2, <1>3, <1>4, <1>5, <1>6

LEMMA EdMergedKept == ASSUME Levels # {}, EdTypes, EdMoved, EdMerged, NEW r \in Slots, EdActs(r), ~edLog'.moved
  PROVE EdMerged'
<1> SUFFICES ASSUME NEW q \in Slots
    PROVE /\ edPc'[q] \in EdMerges \union {"merge.check"} => edReq'[q].to \in Eds
          /\ edPc'[q] \in EdMerges => eds'[edReq'[q].to].level = edReq'[q].level
          /\ edPc'[q] = "merge.write" => \A p \in DOMAIN edReq'[q].read : EdLevel(edReq'[q].read[p], eds')
  BY DEF EdMerged
<1>t. /\ edReq \in [Slots -> EdJob] /\ edReq[r] \in EdJob /\ edReq[q] \in EdJob
      /\ posts \in [Posts -> Filing!Filing]
      /\ \A p \in DOMAIN edReq[q].read : edReq[q].read[p] \in Filing!Filing
  BY DEF EdTypes, EdJob, EdReads
<1>1. /\ edPc[q] \in EdMerges \union {"merge.check"} => edReq[q].to \in Eds
      /\ edPc[q] \in EdMerges => eds[edReq[q].to].level = edReq[q].level
      /\ edPc[q] = "merge.write" => \A p \in DOMAIN edReq[q].read : EdLevel(edReq[q].read[p], eds)
  BY DEF EdMerged
<1>2. CASE Filing!MoveMark(r)
  <2>1. edPc[r] = "level.mark" /\ edPc'[r] = "level.posts"  BY <1>2 DEF Filing!MoveMark, Filing!Goto, EdTypes
  <2>2. q # r => edPc'[q] = "idle"
    <3>1. q # r => edPc[q] = "idle" /\ edPc'[q] = edPc[q]  BY <2>1, EdOthers DEF EdMoved, EdMoves
    <3>2. QED  BY <3>1
  <2>3. QED  BY <2>1, <2>2 DEF EdMerges
<1>3. CASE ~Filing!MoveMark(r) /\ q # r
  <2>1. \A e \in Eds : eds'[e].level = eds[e].level  BY <1>3, EdEds
  <2>2. edPc'[q] = edPc[q] /\ edReq'[q] = edReq[q]  BY <1>3, EdOthers
  <2>3. QED  BY <1>1, <1>t, <2>1, <2>2, EdLevelStays DEF EdMerges
<1>4. CASE ~Filing!MoveMark(r) /\ q = r
  <2>1. \A e \in Eds : eds'[e].level = eds[e].level  BY <1>4, EdEds
  <2>2. CASE EdStarts(r)
    <3>1. EdNew(r)  BY <2>2, EdBegins
    <3>2. QED  BY <1>4, <2>1, <3>1 DEF EdNew, EdMerges, Filing!Active
  <2>3. CASE Filing!MergeCheck(r)
    <3>1. edReq[r].to \in Eds  BY <2>3, <1>4, <1>1, EdMerging
    <3>2. CASE edPc'[r] = "idle"  BY <3>2, <1>4 DEF EdMerges
    <3>3. CASE edPc'[r] = "merge.mark"
      <4>1. PICK e \in edReq[r].from : /\ eds[e].level = eds[edReq[r].to].level
                                       /\ edReq'[r] = [edReq[r] EXCEPT !.level = eds[e].level]
        BY <2>3, <3>3, EdMerging
      <4>2. edReq'[r].to = edReq[r].to /\ edReq'[r].level = eds[edReq[r].to].level  BY <4>1, <1>t DEF EdJob
      <4>3. QED  BY <2>1, <3>1, <3>3, <4>2, <1>4
    <3>4. QED  BY <2>3, <3>2, <3>3, EdMerging
  <2>4. CASE Filing!MergeMark(r) \/ Filing!ReplaceMark(r)
    BY <2>1, <2>4, <1>1, <1>4, EdMerging DEF EdMerges
  <2>5. CASE Filing!MergeFind(r)
    <3> DEFINE found == {p \in Posts : \E l \in Levels : posts[p][l] \in edReq[r].from}
    <3>1. /\ edPc[r] = "merge.find" /\ edPc'[r] = "merge.write"
          /\ edReq'[r] = [edReq[r] EXCEPT !.read = [p \in found |-> posts[p]]]
      BY <2>5, EdMerging
    <3>2. edReq'[r].to = edReq[r].to /\ edReq'[r].level = edReq[r].level /\ edReq'[r].read = [p \in found |-> posts[p]]
      BY <3>1, <1>t DEF EdJob
    <3>3. \A p \in Posts : EdLevel(posts[p], eds)
      <4>1. \A s \in Slots : edPc[s] # "level.posts"  BY <3>1 DEF EdMoved, EdMoves
      <4>2. QED  BY <4>1 DEF EdMoved
    <3>4. \A p \in found : EdLevel(posts[p], eds')  BY <3>3, <1>t, <2>1, EdLevelStays
    <3>5. QED  BY <2>1, <3>1, <3>2, <3>4, <1>1, <1>4 DEF EdMerges
  <2>6. CASE Filing!MergeWrite(r)
    <3>1. edPc[r] = "merge.write"  BY <2>6, EdMerging
    <3>2. \A p \in DOMAIN edReq[r].read : EdLevel(edReq[r].read[p], eds')
      BY <3>1, <1>1, <1>4, <1>t, <2>1, EdLevelStays
    <3>3. CASE edPc'[r] = "merge.write"
      <4>1. PICK p \in DOMAIN edReq[r].read :
               edReq'[r] = [edReq[r] EXCEPT !.read = [s \in DOMAIN edReq[r].read \ {p} |-> edReq[r].read[s]]]
        BY <2>6, <3>3, EdMerging
      <4>2. /\ edReq'[r].to = edReq[r].to /\ edReq'[r].level = edReq[r].level
            /\ edReq'[r].read = [s \in DOMAIN edReq[r].read \ {p} |-> edReq[r].read[s]]
        BY <4>1, <1>t DEF EdJob
      <4>3. QED  BY <2>1, <3>1, <3>2, <3>3, <4>2, <1>1, <1>4 DEF EdMerges
    <3>4. CASE edPc'[r] = "merge.mark"
      <4>1. PICK e \in edReq[r].rest : edReq'[r] = [edReq[r] EXCEPT !.from = {e}, !.rest = edReq[r].rest \ {e}]
        BY <2>6, <3>4, EdMerging
      <4>2. edReq'[r].to = edReq[r].to /\ edReq'[r].level = edReq[r].level  BY <4>1, <1>t DEF EdJob
      <4>3. QED  BY <2>1, <3>1, <3>4, <4>2, <1>1, <1>4 DEF EdMerges
    <3>5. CASE edPc'[r] = "idle"  BY <3>5, <1>4 DEF EdMerges
    <3>6. QED  BY <2>6, <3>3, <3>4, <3>5, EdMerging
  <2>7. CASE Filing!ReplacePosts(r)  BY <2>7, <1>4, EdMerging DEF EdMerges
  <2>8. CASE Filing!MoveGroups(r) \/ Filing!MoveCommit(r) \/ Filing!MovePosts(r)
    BY <2>8, <1>4 DEF Filing!MoveGroups, Filing!MoveCommit, Filing!MovePosts, Filing!Goto, EdTypes, EdMerges
  <2>9. QED  BY <1>4, <2>2, <2>3, <2>4, <2>5, <2>6, <2>7, <2>8 DEF EdActs, EdStarts
<1>5. QED  BY <1>2, <1>3, <1>4

\* what an article is filed under is rewritten, or was in order
LEMMA EdProperWritten ==
  ASSUME NEW f \in Filing!Filing, NEW es, NEW some, NEW l \in Levels, NEW to \in Eds, EdNearly(f, es, some),
         es[to].active, es[to].level = l, \A e \in some : es[e].level = l
  PROVE EdProper([f EXCEPT ![l] = to], es)
<1> SUFFICES ASSUME NEW m \in Levels, [f EXCEPT ![l] = to][m] # Filing!None
    PROVE /\ es[[f EXCEPT ![l] = to][m]].level = m
          /\ es[[f EXCEPT ![l] = to][m]].active
  BY DEF EdProper, EdNearly
<1>1. CASE m = l
  <2>1. [f EXCEPT ![l] = to][m] = to  BY <1>1 DEF Filing!Filing
  <2>2. QED  BY <2>1, <1>1
<1>2. CASE m # l
  <2>1. [f EXCEPT ![l] = to][m] = f[m]  BY <1>2 DEF Filing!Filing
  <2>2. es[f[m]].level = m /\ (es[f[m]].active \/ f[m] \in some)  BY <2>1 DEF EdNearly
  <2>3. f[m] \notin some  BY <2>2, <1>2
  <2>4. QED  BY <2>1, <2>2, <2>3
<1>3. QED  BY <1>1, <1>2

LEMMA EdProperStays ==
  ASSUME NEW f \in Filing!Filing, NEW es, NEW fs, NEW some, EdNearly(f, es, some),
         \A e \in Eds : fs[e].level = es[e].level /\ fs[e].active = es[e].active
  PROVE EdNearly(f, fs, some)
BY DEF EdNearly, Filing!Filing

\* editions which are deactivated are the ones which are taken over
LEMMA EdProperTaken ==
  ASSUME NEW f \in Filing!Filing, NEW es, NEW fs, NEW some, EdProper(f, es),
         \A e \in Eds : fs[e].level = es[e].level /\ fs[e].active = (es[e].active /\ e \notin some)
  PROVE EdNearly(f, fs, some)
<1> SUFFICES ASSUME NEW l \in Levels, f[l] # Filing!None
    PROVE fs[f[l]].level = l /\ (fs[f[l]].active \/ f[l] \in some)
  BY DEF EdNearly
<1>1. es[f[l]].level = l /\ es[f[l]].active /\ f[l] \in Eds  BY DEF EdNearly, EdProper, Filing!Filing
<1>2. fs[f[l]].level = l /\ fs[f[l]].active = (es[f[l]].active /\ f[l] \notin some)  BY <1>1
<1>3. QED  BY <1>1, <1>2

LEMMA EdAloneKept == ASSUME Levels # {}, EdTypes, EdMoved, EdMerged, EdAlone, NEW r \in Slots, EdActs(r),
                            ~edLog'.overlapped
  PROVE EdAlone'
<1>t. /\ edReq \in [Slots -> EdJob] /\ edReq[r] \in EdJob /\ edReq[r].from \subseteq Eds /\ edReq[r].rest \subseteq Eds
      /\ edReq[r].level \in Levels
      /\ eds \in [Eds -> [level : Levels, active : BOOLEAN]] /\ posts \in [Posts -> Filing!Filing]
      /\ \A p \in Posts : posts[p] \in Filing!Filing
      /\ edPc \in [Slots -> Filing!PCs] /\ edPc' \in [Slots -> Filing!PCs]
  BY EdOthers DEF EdTypes, EdJob
<1>1. /\ \A q, s \in Slots : edPc[q] # "idle" /\ edPc[s] # "idle" => q = s
      /\ (\A q \in Slots : edPc[q] \notin {"merge.find", "merge.write", "replace.posts", "level.posts"}) =>
          \A p \in Posts : EdProper(posts[p], eds)
      /\ edPc[r] \in EdMerges \union {"merge.check"} => eds[edReq[r].to].active /\ edReq[r].to \notin edReq[r].from
      /\ edPc[r] = "merge.check" => edReq[r].rest = {} /\ \E e \in Eds : edReq[r].from = {e}
      /\ edPc[r] \in EdMerges =>
          /\ edReq[r].to \notin edReq[r].rest
          /\ \A e \in edReq[r].rest : eds[e].active /\ e \notin edReq[r].from
          /\ \A e \in edReq[r].from \union edReq[r].rest : eds[e].level = edReq[r].level
      /\ edPc[r] \in {"merge.find", "replace.posts"} => \A p \in Posts : EdNearly(posts[p], eds, edReq[r].from)
      /\ edPc[r] = "merge.write" =>
          \A p \in Posts : IF p \in DOMAIN edReq[r].read
                           THEN edReq[r].read[p] = posts[p] /\ EdNearly(posts[p], eds, edReq[r].from)
                           ELSE EdProper(posts[p], eds)
      /\ edPc[r] = "level.posts" => \A p \in Posts : EdProper(posts[p], eds) \/ posts[p] \in edReq[r].groups
  BY DEF EdAlone
<1>2. \A q \in Slots : q # r => edPc[q] = "idle" /\ edPc'[q] = "idle"
  <2>1. CASE EdStarts(r)  BY <2>1, EdOthers
  <2>2. CASE ~EdStarts(r)  BY <2>2, <1>1, EdOthers
  <2>3. QED  BY <2>1, <2>2
<1>m. /\ edPc[r] \in EdMerges \union {"merge.check"} => edReq[r].to \in Eds
      /\ edPc[r] \in EdMerges => eds[edReq[r].to].level = edReq[r].level
  BY DEF EdMerged
\* as the others are idle, it is enough to look at the one which moves
<1> SUFFICES
      /\ edPc'[r] \notin {"merge.find", "merge.write", "replace.posts", "level.posts"} =>
            \A p \in Posts : EdProper(posts'[p], eds')
      /\ edPc'[r] \in EdMerges \union {"merge.check"} => eds'[edReq'[r].to].active /\ edReq'[r].to \notin edReq'[r].from
      /\ edPc'[r] = "merge.check" => edReq'[r].rest = {} /\ \E e \in Eds : edReq'[r].from = {e}
      /\ edPc'[r] \in EdMerges =>
          /\ edReq'[r].to \notin edReq'[r].rest
          /\ \A e \in edReq'[r].rest : eds'[e].active /\ e \notin edReq'[r].from
          /\ \A e \in edReq'[r].from \union edReq'[r].rest : eds'[e].level = edReq'[r].level
      /\ edPc'[r] \in {"merge.find", "replace.posts"} => \A p \in Posts : EdNearly(posts'[p], eds', edReq'[r].from)
      /\ edPc'[r] = "merge.write" =>
          \A p \in Posts : IF p \in DOMAIN edReq'[r].read
                           THEN edReq'[r].read[p] = posts'[p] /\ EdNearly(posts'[p], eds', edReq'[r].from)
                           ELSE EdProper(posts'[p], eds')
      /\ edPc'[r] = "level.posts" => \A p \in Posts : EdProper(posts'[p], eds') \/ posts'[p] \in edReq'[r].groups
  <2>1. \A q, s \in Slots : edPc'[q] # "idle" /\ edPc'[s] # "idle" => q = s  BY <1>2
  <2>2. \A q \in Slots : edPc'[q] # "idle" => q = r  BY <1>2
  <2>3. "idle" \notin EdMerges  BY DEF EdMerges
  <2>4. QED  BY <2>1, <2>2, <2>3 DEF EdAlone
<1>3. CASE EdStarts(r)
  <2>1. EdNew(r)  BY <1>3, EdBegins
  <2>2. posts' = posts /\ eds' = eds
    BY <1>3 DEF EdStarts, Filing!StartMerge, Filing!StartAutomerge, Filing!StartReplace, Filing!StartMove, Filing!Begin
  <2>3. \A p \in Posts : EdProper(posts[p], eds)
    <3>1. edPc[r] = "idle"  BY <1>3, EdOthers
    <3>2. QED  BY <3>1, <1>2, <1>1
  <2>4. QED  BY <2>1, <2>2, <2>3 DEF EdNew, EdMerges, Filing!Active
<1>4. CASE Filing!MergeCheck(r)
  <2>1. edPc[r] = "merge.check" /\ posts' = posts /\ eds' = eds  BY <1>4 DEF Filing!MergeCheck
  <2>2. \A p \in Posts : EdProper(posts[p], eds)  BY <2>1, <1>2, <1>1
  <2>3. CASE edPc'[r] = "idle"  BY <2>1, <2>2, <2>3 DEF EdMerges
  <2>4. CASE edPc'[r] = "merge.mark"
    <3>1. PICK e \in edReq[r].from : edReq'[r] = [edReq[r] EXCEPT !.level = eds[e].level]
      BY <1>4, <2>4, EdMerging
    <3>2. /\ edReq'[r].to = edReq[r].to /\ edReq'[r].from = edReq[r].from /\ edReq'[r].rest = edReq[r].rest
          /\ edReq'[r].level = eds[e].level
      BY <3>1, <1>t DEF EdJob
    <3>3. edReq[r].from = {e} /\ edReq[r].rest = {}  BY <2>1, <1>1
    <3>4. QED  BY <2>1, <2>2, <2>4, <3>2, <3>3, <1>1
  <2>5. QED  BY <1>4, <2>3, <2>4, EdMerging
<1>5. CASE Filing!MergeMark(r) \/ Filing!ReplaceMark(r)
  <2>1. /\ edPc[r] \in {"merge.mark", "replace.mark"} /\ edPc'[r] \in {"merge.find", "replace.posts"}
        /\ edReq'[r] = edReq[r]
    BY <1>5, EdMerging
  <2>2. posts' = posts  BY <1>5 DEF Filing!MergeMark, Filing!ReplaceMark
  <2>3. /\ ~Filing!MoveMark(r)
        /\ \A e \in Eds : eds'[e].level = eds[e].level /\ eds'[e].active = (eds[e].active /\ e \notin edReq[r].from)
    <3>1. ~Filing!MoveMark(r)  BY <2>1 DEF Filing!MoveMark
    <3>2. QED  BY <1>5, <3>1, EdEds
  <2>4. \A p \in Posts : EdProper(posts[p], eds)  BY <2>1, <1>2, <1>1
  <2>5. \A p \in Posts : EdNearly(posts[p], eds', edReq[r].from)  BY <2>3, <2>4, <1>t, EdProperTaken
  <2>6. edPc[r] \in EdMerges  BY <2>1 DEF EdMerges
  <2>7. eds'[edReq[r].to].active  BY <2>3, <2>6, <1>1, <1>m
  <2>8. QED  BY <2>1, <2>2, <2>3, <2>5, <2>6, <2>7, <1>1, <1>t
<1>6. CASE Filing!MergeFind(r)
  <2> DEFINE found == {p \in Posts : \E l \in Levels : posts[p][l] \in edReq[r].from}
  <2>1. /\ edPc[r] = "merge.find" /\ edPc'[r] = "merge.write"
        /\ edReq'[r] = [edReq[r] EXCEPT !.read = [p \in found |-> posts[p]]]
        /\ posts' = posts /\ eds' = eds
    BY <1>6, EdMerging DEF Filing!MergeFind
  <2>2. /\ edReq'[r].to = edReq[r].to /\ edReq'[r].from = edReq[r].from /\ edReq'[r].rest = edReq[r].rest
        /\ edReq'[r].level = edReq[r].level /\ edReq'[r].read = [p \in found |-> posts[p]]
    BY <2>1, <1>t DEF EdJob
  <2>3. \A p \in Posts : EdNearly(posts[p], eds, edReq[r].from)  BY <2>1, <1>1
  <2>4. \A p \in Posts : p \notin found => EdProper(posts[p], eds)
    <3> SUFFICES ASSUME NEW p \in Posts, \A l \in Levels : posts[p][l] \notin edReq[r].from
        PROVE EdProper(posts[p], eds)
      OBVIOUS
    <3>1. EdNearly(posts[p], eds, edReq[r].from)  BY <2>3
    <3>2. QED  BY <3>1 DEF EdProper, EdNearly
  <2>5. DOMAIN edReq'[r].read = found /\ \A p \in found : edReq'[r].read[p] = posts[p]  BY <2>2
  <2>6. edPc[r] \in EdMerges  BY <2>1 DEF EdMerges
  <2> HIDE DEF found
  <2>7. \A p \in Posts : IF p \in DOMAIN edReq'[r].read
                         THEN edReq'[r].read[p] = posts[p] /\ EdNearly(posts[p], eds, edReq[r].from)
                         ELSE EdProper(posts[p], eds)
    BY <2>3, <2>4, <2>5
  <2>8. QED  BY <2>1, <2>2, <2>6, <2>7, <1>1
<1>7. CASE Filing!MergeWrite(r)
  <2>1. edPc[r] = "merge.write" /\ eds' = eds  BY <1>7 DEF Filing!MergeWrite
  <2>2. edPc[r] \in EdMerges  BY <2>1 DEF EdMerges
  <2>3. \A p \in Posts : IF p \in DOMAIN edReq[r].read
                           THEN edReq[r].read[p] = posts[p] /\ EdNearly(posts[p], eds, edReq[r].from)
                           ELSE EdProper(posts[p], eds)
    BY <2>1, <1>1
  <2>4. CASE edPc'[r] = "merge.write"
    <3>1. PICK p \in DOMAIN edReq[r].read :
             /\ posts' = [posts EXCEPT ![p] = [edReq[r].read[p] EXCEPT ![edReq[r].level] = edReq[r].to]]
             /\ edReq'[r] = [edReq[r] EXCEPT !.read = [q \in DOMAIN edReq[r].read \ {p} |-> edReq[r].read[q]]]
      BY <1>7, <2>4, EdMerging
    <3>2. /\ edReq'[r].to = edReq[r].to /\ edReq'[r].from = edReq[r].from /\ edReq'[r].rest = edReq[r].rest
          /\ edReq'[r].level = edReq[r].level
          /\ edReq'[r].read = [q \in DOMAIN edReq[r].read \ {p} |-> edReq[r].read[q]]
      BY <3>1, <1>t DEF EdJob
    <3>3. p \in Posts /\ edReq[r].read[p] \in Filing!Filing  BY <1>t DEF EdJob, EdReads
    <3>4. EdProper([edReq[r].read[p] EXCEPT ![edReq[r].level] = edReq[r].to], eds)
      <4>0. \A e \in edReq[r].from : eds[e].level = edReq[r].level  BY <2>2, <1>1
      <4>1. eds[edReq[r].to].active /\ edReq[r].to \in Eds /\ eds[edReq[r].to].level = edReq[r].level
        BY <2>2, <1>1, <1>m
      <4>2. EdNearly(edReq[r].read[p], eds, edReq[r].from)  BY <2>3, <3>3
      <4>3. QED  BY <4>0, <4>1, <4>2, <3>3, <1>t, EdProperWritten
    <3>5. QED  BY <2>1, <2>2, <2>3, <2>4, <3>1, <3>2, <3>3, <3>4, <1>1, <1>t
  <2>5. CASE DOMAIN edReq[r].read = {} /\ posts' = posts /\ edPc'[r] \in {"idle", "merge.mark"}
    <3>1. \A p \in Posts : EdProper(posts[p], eds)  BY <2>3, <2>5
    <3>2. CASE edPc'[r] = "idle"  BY <2>1, <2>5, <3>1, <3>2 DEF EdMerges
    <3>3. CASE edPc'[r] = "merge.mark"
      <4>1. PICK e \in edReq[r].rest : edReq'[r] = [edReq[r] EXCEPT !.from = {e}, !.rest = edReq[r].rest \ {e}]
        BY <1>7, <3>3, EdMerging
      <4>2. /\ edReq'[r].to = edReq[r].to /\ edReq'[r].level = edReq[r].level
            /\ edReq'[r].from = {e} /\ edReq'[r].rest = edReq[r].rest \ {e}
        BY <4>1, <1>t DEF EdJob
      <4>3. QED  BY <2>1, <2>2, <2>5, <3>1, <3>3, <4>2, <1>1
    <3>4. QED  BY <2>5, <3>2, <3>3
  <2>6. QED  BY <1>7, <2>4, <2>5, EdMerging
<1>8. CASE Filing!ReplacePosts(r)
  <2>1. /\ edPc[r] = "replace.posts" /\ edPc'[r] = "idle" /\ eds' = eds
        /\ posts' = [p \in Posts |-> IF posts[p][edReq[r].level] \in edReq[r].from
                                 THEN [posts[p] EXCEPT ![edReq[r].level] = edReq[r].to] ELSE posts[p]]
    BY <1>8, EdMerging DEF Filing!ReplacePosts
  <2>2. edPc[r] \in EdMerges  BY <2>1 DEF EdMerges
  <2>3. /\ \A e \in edReq[r].from : eds[e].level = edReq[r].level
        /\ eds[edReq[r].to].active /\ edReq[r].to \in Eds /\ eds[edReq[r].to].level = edReq[r].level
    BY <2>2, <1>1, <1>m
  <2>4. ASSUME NEW p \in Posts PROVE EdProper(posts'[p], eds)
    <3>1. EdNearly(posts[p], eds, edReq[r].from)  BY <2>1, <1>1
    <3>2. CASE posts[p][edReq[r].level] \in edReq[r].from
      <4>1. posts'[p] = [posts[p] EXCEPT ![edReq[r].level] = edReq[r].to]  BY <2>1, <3>2
      <4>2. EdProper([posts[p] EXCEPT ![edReq[r].level] = edReq[r].to], eds)
        BY <3>1, <2>3, <1>t, EdProperWritten
      <4>3. QED  BY <4>1, <4>2
    <3>3. CASE posts[p][edReq[r].level] \notin edReq[r].from
      <4>1. posts'[p] = posts[p]  BY <2>1, <3>3
      <4>2. \A l \in Levels : posts[p][l] # Filing!None => posts[p][l] \notin edReq[r].from
        BY <3>1, <3>3, <2>3 DEF EdNearly
      <4>3. EdProper(posts[p], eds)  BY <3>1, <4>2 DEF EdNearly, EdProper
      <4>4. QED  BY <4>1, <4>3
    <3>4. QED  BY <3>2, <3>3
  <2>5. QED  BY <2>1, <2>4 DEF EdMerges
<1>9. CASE Filing!MoveGroups(r) \/ Filing!MoveCommit(r)
  <2>1. /\ edPc[r] \in {"level.groups", "level.asked"} /\ edPc'[r] \in {"level.asked", "level.mark", "idle"}
        /\ posts' = posts /\ eds' = eds
    BY <1>9, <1>t DEF Filing!MoveGroups, Filing!MoveCommit, Filing!Goto, EdTypes
  <2>2. \A p \in Posts : EdProper(posts[p], eds)  BY <2>1, <1>1, <1>2
  <2>3. QED  BY <2>1, <2>2 DEF EdMerges
<1>10. CASE Filing!MoveMark(r)
  <2>1. posts' = posts /\ edReq' = edReq /\ edPc[r] = "level.mark" /\ edPc'[r] = "level.posts"
    BY <1>10, <1>t DEF Filing!MoveMark, Filing!Goto
  <2>2. \A p \in Posts : EdProper(posts[p], eds)  BY <2>1, <1>2, <1>1
  <2>e. ~Filing!MergeMark(r) /\ ~Filing!ReplaceMark(r)  BY <2>1 DEF Filing!MergeMark, Filing!ReplaceMark
  <2>3. ASSUME NEW p \in Posts, posts[p] \notin edReq[r].groups PROVE EdProper(posts[p], eds')
    <3> SUFFICES ASSUME NEW l \in Levels, posts[p][l] # Filing!None
        PROVE eds'[posts[p][l]].level = l /\ eds'[posts[p][l]].active
      BY DEF EdProper, EdNearly
    <3>1. eds[posts[p][l]].level = l /\ eds[posts[p][l]].active /\ posts[p][l] \in Eds
      BY <2>2, <1>t DEF EdProper, EdNearly, Filing!Filing
    <3>2. posts[p][l] \notin edReq[r].from  BY <2>1, <2>3, <3>1 DEF EdMoved
    <3>3. QED  BY <3>1, <3>2, <2>e, <1>10, EdEds
  <2>4. QED  BY <2>1, <2>3 DEF EdMerges
<1>11. CASE Filing!MovePosts(r)
  <2>1. eds' = eds /\ edPc[r] = "level.posts"  BY <1>11 DEF Filing!MovePosts
  <2>2. CASE \E g \in edReq[r].groups : \E new \in {f \in Filing!Filing : Filing!Proper(f)} :
             /\ posts' = [p \in Posts |-> IF posts[p] = g THEN new ELSE posts[p]]
             /\ edReq' = [edReq EXCEPT ![r].groups = @ \ {g}]
             /\ edPc' = edPc
    <3>1. PICK g \in edReq[r].groups, new \in {f \in Filing!Filing : Filing!Proper(f)} :
             /\ posts' = [p \in Posts |-> IF posts[p] = g THEN new ELSE posts[p]]
             /\ edReq' = [edReq EXCEPT ![r].groups = @ \ {g}]
             /\ edPc' = edPc
      BY <2>2
    <3>2. EdProper(new, eds)  BY DEF Filing!Proper, EdProper, EdNearly
    <3>3. edReq'[r].groups = edReq[r].groups \ {g}  BY <3>1, <1>t DEF EdJob
    <3>4. \A p \in Posts : EdProper(posts'[p], eds') \/ posts'[p] \in edReq'[r].groups
      BY <3>1, <3>2, <3>3, <2>1, <1>1
    <3>5. QED  BY <2>1, <3>1, <3>4 DEF EdMerges
  <2>3. CASE edReq[r].groups = {} /\ posts' = posts /\ edPc'[r] = "idle"
    <3>1. \A p \in Posts : EdProper(posts'[p], eds')  BY <2>1, <2>3, <1>1
    <3>2. QED  BY <2>3, <3>1 DEF EdMerges
  <2>4. QED  BY <1>11, <2>2, <2>3, <1>t DEF Filing!MovePosts, Filing!Goto
<1>12. QED  BY <1>3, <1>4, <1>5, <1>6, <1>7, <1>8, <1>9, <1>10, <1>11 DEF EdActs, EdStarts

LEMMA EdStepKept == ASSUME Levels # {}, EdInv, Filing!Next PROVE EdInv'
<1>1. PICK r \in Slots : EdActs(r)  BY DEF Filing!Next, EdActs
<1>2. EdTypes'
  <2>1. EdTypes  BY DEF EdInv
  <2>2. eds' \in [Eds -> [level : Levels, active : BOOLEAN]]  BY <2>1, <1>1, EdEds
  <2>3. posts' \in [Posts -> Filing!Filing]  BY <2>1, <1>1, EdPosts
  <2>4. edPc' \in [Slots -> Filing!PCs] /\ edReq' \in [Slots -> EdJob]  BY <2>1, <1>1, EdOthers
  <2>5. edLog' \in [jobs : Nat, overlapped : BOOLEAN, moved : BOOLEAN]  BY <2>1, <1>1, EdOthers
  <2>6. QED  BY <2>2, <2>3, <2>4, <2>5 DEF EdTypes, EdJob, EdReads, Filing!PCs, Filing!Filing, Filing!None
<1>3. /\ edLog'.moved => edLog'.overlapped
      /\ ~edLog'.moved => ~edLog.moved
      /\ ~edLog'.overlapped => ~edLog.overlapped /\ ~edLog'.moved
  BY <1>1, EdOthers DEF EdInv
<1>4. ~edLog'.moved => EdMoved'  BY <1>1, <1>3, EdMovedKept DEF EdInv
<1>5. ~edLog'.moved => EdMerged'  BY <1>1, <1>3, EdMergedKept DEF EdInv
<1>6. ~edLog'.overlapped => EdAlone'  BY <1>1, <1>3, EdAloneKept DEF EdInv
<1>7. QED  BY <1>2, <1>3, <1>4, <1>5, <1>6 DEF EdInv

LEMMA EdStays == ASSUME EdInv, UNCHANGED editions PROVE EdInv'
<1>1. eds' = eds /\ posts' = posts /\ edPc' = edPc /\ edReq' = edReq /\ edLog' = edLog  BY DEF editions
<1>2. EdTypes'  BY <1>1 DEF EdInv, EdTypes, EdJob, EdReads, Filing!PCs, Filing!Filing, Filing!None
<1>3. EdMoved => EdMoved'  BY <1>1 DEF EdMoved, EdMoves, EdLevel, Filing!None
<1>4. EdMerged => EdMerged'  BY <1>1 DEF EdMerged, EdMerges, EdLevel, Filing!None
<1>5. EdAlone => EdAlone'  BY <1>1 DEF EdAlone, EdMerges, EdProper, EdNearly, Filing!None
<1>6. QED  BY <1>1, <1>2, <1>3, <1>4, <1>5 DEF EdInv

LEMMA EdGood == ASSUME EdInv PROVE EditionsKept
<1>1. Filing!NoneLeftBehind
  <2> SUFFICES ASSUME ~edLog.overlapped, \A r \in Slots : edPc[r] = "idle", NEW p \in Posts
      PROVE Filing!Proper(posts[p])
    BY DEF Filing!NoneLeftBehind, Filing!Busy
  <2>1. EdProper(posts[p], eds)  BY DEF EdInv, EdAlone
  <2>2. QED  BY <2>1 DEF EdProper, EdNearly, Filing!Proper
<1>2. Filing!LevelsKept
  <2> SUFFICES ASSUME ~edLog.moved, ~Filing!Moving, NEW p \in Posts, NEW l \in Levels, posts[p][l] # Filing!None
      PROVE eds[posts[p][l]].level = l
    BY DEF Filing!LevelsKept
  <2>1. \A r \in Slots : edPc[r] # "level.posts"  BY DEF Filing!Moving
  <2>2. EdLevel(posts[p], eds)  BY <2>1 DEF EdInv, EdMoved
  <2>3. QED  BY <2>2 DEF EdLevel
<1>3. QED  BY <1>1, <1>2 DEF EditionsKept

-----------------------------------------------------------------------------
(* The editor *)

\* what a value was typed into
TextOf(l, p, v) == v = p \/ (v \in 1..l.typed /\ l.where[v] = p)

TextPage == [post : Posts, shown : Edit!Docs, text : Edit!Values, old : Edit!Values \union {Edit!Blank},
             loads : SUBSET Edit!Loads]
TextSave == [id : 1..MaxSaves, post : Posts, edits : Edit!Edits, next : {"none", "commit"}, snap : Edit!Docs,
             step : {"read", "write", "answer", "commit"}, ok : BOOLEAN, wanted : Edit!Docs]
TextLog == [where : [1..MaxTyped -> Posts \union {Edit!None}], typed : 0..MaxTyped, sent : 0..MaxSaves,
            opened : 0..MaxOpened, raced : BOOLEAN, failed : BOOLEAN, carried : BOOLEAN,
            meant : Edit!Docs, live : [got : Edit!Docs, wanted : Edit!Docs]]

TextTypes ==
    /\ db \in [Posts -> Edit!Docs]
    /\ page \in TextPage
    /\ edits \in Edit!Edits
    /\ flight \subseteq TextSave
    /\ log \in TextLog

\* where a request may be
TextLoads ==
    /\ \A q \in flight : q.step \in {"read", "write"} => ~q.ok
    /\ \A q \in flight : q.step = "commit" => q.next = "commit"

\* nothing is carried from one article to another
TextOwn ==
    ~log.carried =>
        /\ \A p \in Posts, f \in Edit!Fields : TextOf(log, p, db[p][f])
        /\ \A f \in Edit!Fields : edits[f] = Edit!None \/ TextOf(log, page.post, edits[f])
        /\ \A f \in Edit!Fields : TextOf(log, page.post, page.shown[f])
        /\ TextOf(log, page.post, page.text)
        /\ page.old = Edit!Blank \/ TextOf(log, page.post, page.old)
        /\ \A l \in page.loads, f \in Edit!Fields : TextOf(log, l.post, l.got[f])
        /\ \A q \in flight, f \in Edit!Fields :
              /\ q.edits[f] = Edit!None \/ TextOf(log, q.post, q.edits[f])
              /\ TextOf(log, q.post, q.snap[f])

\* a request at a time, and nothing typed meanwhile: the edits are those it carries, and an article which
\* was read is still what is stored
TextKept ==
    ~log.raced /\ ~log.carried =>
        /\ \A q, s \in flight : q = s
        /\ \A q \in flight :
              /\ q.post = page.post
              /\ q.step \in {"read", "write", "answer"} => q.edits = edits
              /\ q.step = "write" => q.snap = db[q.post]
              /\ q.step = "answer" /\ q.ok =>
                    \A f \in Edit!Fields : edits[f] # Edit!None => db[page.post][f] = edits[f]
        /\ \A l \in page.loads : l.read => flight = {} /\ l.got = db[l.post]
        /\ page.text # page.old =>
              /\ flight = {} /\ log.meant["content"] = page.text
              /\ page.loads # {} => page.text = page.shown["content"]
              /\ edits = Edit!Nothing \/ page.text # page.shown["content"]
        /\ \A f \in Edit!Fields :
              \/ f = "content" /\ page.text # page.old
              \/ log.meant[f] = IF edits[f] = Edit!None THEN db[page.post][f] ELSE edits[f]

\* the edits there are, are stored
TextStored == \A f \in Edit!Fields : edits[f] \in {Edit!None, db[page.post][f]}

\* and none failed: the screen shows what was typed, and what is stored once it is answered
TextLive ==
    ~log.raced /\ ~log.failed /\ ~log.carried =>
        /\ page.text = log.meant["content"]
        /\ page.shown["title"] = log.meant["title"]
        /\ \/ page.shown["content"] = db[page.post]["content"]
           \/ \E q \in flight : q.step = "answer" /\ q.ok /\ edits["content"] # Edit!None
        /\ \/ edits["content"] \in {Edit!None, db[page.post]["content"]}
           \/ \E q \in flight : q.step \in {"read", "write"}
        /\ \A q \in flight :
              /\ (q.step = "answer" /\ ~q.ok) \/ q.step = "commit" => TextStored
              /\ q.next = "commit" => q.wanted = log.meant
        /\ log.live.got = log.live.wanted

TextInv == TextTypes /\ TextLoads /\ TextOwn /\ TextKept /\ TextLive


LEMMA TextInit == ASSUME Edit!Init PROVE TextInv
<1>b. MaxTyped \in Nat /\ MaxSaves \in Nat /\ MaxOpened \in Nat /\ Posts \intersect 0..MaxTyped = {}
  BY BoundsAssumption, PostsAssumption
<1>p. PICK p \in Posts :
        /\ db = [q \in Posts |-> Edit!Original(q)]
        /\ page = [post |-> p, shown |-> Edit!Original(p), text |-> p, old |-> Edit!Blank, loads |-> {}]
        /\ edits = Edit!Nothing
        /\ flight = {}
        /\ log = [where |-> [n \in 1..MaxTyped |-> Edit!None], typed |-> 0, sent |-> 0, opened |-> 0,
                  raced |-> FALSE, failed |-> FALSE, carried |-> FALSE,
                  meant |-> Edit!Original(p), live |-> [got |-> Edit!Original(p), wanted |-> Edit!Original(p)]]
  BY DEF Edit!Init
<1>o. \A q \in Posts : Edit!Original(q) \in Edit!Docs /\ \A f \in Edit!Fields : Edit!Original(q)[f] = q
  BY DEF Edit!Original, Edit!Docs, Edit!Values
<1>n. Edit!Nothing \in Edit!Edits /\ \A f \in Edit!Fields : Edit!Nothing[f] = Edit!None
  BY DEF Edit!Nothing, Edit!Edits
<1>1. TextTypes
  <2>1. db \in [Posts -> Edit!Docs]  BY <1>p, <1>o
  <2>2. page \in TextPage  BY <1>p, <1>o DEF TextPage, Edit!Values
  <2>3. [n \in 1..MaxTyped |-> Edit!None] \in [1..MaxTyped -> Posts \union {Edit!None}]  OBVIOUS
  <2>4. [got |-> Edit!Original(p), wanted |-> Edit!Original(p)] \in [got : Edit!Docs, wanted : Edit!Docs]  BY <1>o
  <2>5. log \in TextLog  BY <1>p, <1>o, <2>3, <2>4, <1>b DEF TextLog
  <2>6. QED  BY <2>1, <2>2, <2>5, <1>p, <1>n DEF TextTypes
<1>2. TextLoads  BY <1>p DEF TextLoads
<1>f. /\ \A q \in Posts, f \in Edit!Fields : db[q][f] = q
      /\ \A f \in Edit!Fields : page.shown[f] = p /\ log.meant[f] = p /\ edits[f] = Edit!None
      /\ page.post = p /\ page.text = p /\ page.old = Edit!Blank
  BY <1>p, <1>o, <1>n
<1>3. TextOwn  BY <1>f, <1>p DEF TextOwn, TextOf
<1>4. TextKept
  <2>1. page.loads = {} /\ "content" \in Edit!Fields  BY <1>p DEF Edit!Fields
  <2>2. QED  BY <2>1, <1>f, <1>p DEF TextKept
<1>5. TextLive
  <2>1. "title" \in Edit!Fields /\ "content" \in Edit!Fields  BY DEF Edit!Fields
  <2>2. log.live.got = log.live.wanted  BY <1>p
  <2>3. QED  BY <2>1, <2>2, <1>f, <1>p DEF TextLive
<1>6. QED  BY <1>1, <1>2, <1>3, <1>4, <1>5 DEF TextInv

LEMMA TextStays == ASSUME TextInv, UNCHANGED editor PROVE TextInv'
<1>1. db' = db /\ page' = page /\ edits' = edits /\ flight' = flight /\ log' = log  BY DEF editor
<1>2. TextTypes' /\ TextLoads'  BY <1>1 DEF TextInv, TextTypes, TextLoads
<1>3. TextOwn'  BY <1>1 DEF TextInv, TextOwn, TextOf
<1>4. TextKept'  BY <1>1 DEF TextInv, TextKept
<1>5. TextLive'  BY <1>1 DEF TextInv, TextLive, TextStored
<1>6. QED  BY <1>2, <1>3, <1>4, <1>5 DEF TextInv

LEMMA TextGood == ASSUME TextInv PROVE EditsKept
<1>1. Edit!EditsKept  BY DEF TextInv, TextKept, Edit!EditsKept
<1>2. Edit!OwnArticle
  <2>1. log.typed \in 0..MaxTyped  BY DEF TextInv, TextTypes, TextLog
  <2>2. \A v \in 1..log.typed : v \in 1..MaxTyped  BY <2>1, BoundsAssumption
  <2>3. QED  BY <2>2 DEF TextInv, TextOwn, TextOf, Edit!OwnArticle
<1>3. Edit!LiveAsShown  BY DEF TextInv, TextLive, Edit!LiveAsShown
<1>4. QED  BY <1>1, <1>2, <1>3 DEF EditsKept

\* a page which is drawn again has the text it is given
LEMMA TextDrawn == ASSUME page \in TextPage, NEW shown \in Edit!Docs
  PROVE /\ Edit!Drawn(shown) \in TextPage
        /\ Edit!Drawn(shown).post = page.post /\ Edit!Drawn(shown).loads = page.loads
        /\ Edit!Drawn(shown).shown = shown
        /\ shown["content"] = page.text =>
              Edit!Drawn(shown).text = page.text /\ Edit!Drawn(shown).old = page.old
        /\ shown["content"] # page.text =>
              Edit!Drawn(shown).text = shown["content"] /\ Edit!Drawn(shown).old = shown["content"]
<1>1. shown["content"] \in Edit!Values  BY DEF Edit!Docs, Edit!Fields
<1>2. CASE shown["content"] = page.text
  <2>1. Edit!Drawn(shown) = [page EXCEPT !.shown = shown]  BY <1>2 DEF Edit!Drawn
  <2>2. QED  BY <2>1, <1>2 DEF TextPage
<1>3. CASE shown["content"] # page.text
  <2>1. Edit!Drawn(shown) = [page EXCEPT !.shown = shown, !.text = shown["content"], !.old = shown["content"]]
    BY <1>3 DEF Edit!Drawn
  <2>2. QED  BY <2>1, <1>1, <1>3 DEF TextPage
<1>4. QED  BY <1>2, <1>3

LEMMA TextTyped == ASSUME log \in TextLog, page.post \in Posts, log.typed < MaxTyped, NEW f \in Edit!Fields
  PROVE /\ Edit!Typed(f) \in TextLog
        /\ Edit!Typed(f).typed = log.typed + 1
        /\ Edit!Typed(f).where[log.typed + 1] = page.post
        /\ \A n \in 1..log.typed : Edit!Typed(f).where[n] = log.where[n]
        /\ Edit!Typed(f).meant[f] = log.typed + 1
        /\ \A g \in Edit!Fields : g # f => Edit!Typed(f).meant[g] = log.meant[g]
        /\ ~Edit!Typed(f).raced => ~log.raced /\ flight = {}
        /\ Edit!Typed(f).opened = log.opened /\ Edit!Typed(f).carried = log.carried
        /\ Edit!Typed(f).failed = log.failed /\ Edit!Typed(f).live = log.live
        /\ log.typed + 1 \in 1..MaxTyped
<1> DEFINE n == log.typed + 1
<1> DEFINE wh == [log.where EXCEPT ![n] = page.post]
<1> DEFINE mt == [log.meant EXCEPT ![f] = n]
<1> DEFINE rc == log.raced \/ flight # {}
<1>b. MaxTyped \in Nat  BY BoundsAssumption
<1>1. log.typed \in 0..MaxTyped /\ n \in 1..MaxTyped  BY <1>b DEF TextLog
<1>2. wh \in [1..MaxTyped -> Posts \union {Edit!None}]  BY DEF TextLog
<1>3. mt \in Edit!Docs
  <2>1. log.meant \in Edit!Docs  BY DEF TextLog
  <2>2. n \in Edit!Values  BY <1>1 DEF Edit!Values
  <2>3. QED  BY <2>1, <2>2 DEF Edit!Docs
<1>4. rc \in BOOLEAN  OBVIOUS
<1>5. wh[n] = page.post /\ \A m \in 1..log.typed : wh[m] = log.where[m]
  <2>1. log.where \in [1..MaxTyped -> Posts \union {Edit!None}]  BY DEF TextLog
  <2>2. \A m \in 1..log.typed : m \in 1..MaxTyped /\ m # n  BY <1>1, <1>b
  <2>3. QED  BY <2>1, <2>2, <1>1
<1>6. mt[f] = n /\ \A g \in Edit!Fields : g # f => mt[g] = log.meant[g]
  <2>1. log.meant \in Edit!Docs  BY DEF TextLog
  <2>2. QED  BY <2>1 DEF Edit!Docs
<1>7. Edit!Typed(f) = [log EXCEPT !.typed = n, !.where = wh, !.meant = mt, !.raced = rc]
  <2>1. Edit!Typed(f) = [log EXCEPT !.typed = @ + 1, !.where[log.typed + 1] = page.post,
                        !.meant[f] = log.typed + 1, !.raced = @ \/ flight # {}]
    BY DEF Edit!Typed
  <2>2. QED  BY <2>1 DEF TextLog
<1>8. ~rc => ~log.raced /\ flight = {}  OBVIOUS
<1>9. n \in 0..MaxTyped /\ n = log.typed + 1  BY <1>1, <1>b
<1> HIDE DEF n, wh, mt, rc
<1>10. Edit!Typed(f) \in TextLog  BY <1>7, <1>9, <1>2, <1>3, <1>4 DEF TextLog
<1>11. /\ Edit!Typed(f).typed = n /\ Edit!Typed(f).where = wh /\ Edit!Typed(f).meant = mt /\ Edit!Typed(f).raced = rc
       /\ Edit!Typed(f).opened = log.opened /\ Edit!Typed(f).carried = log.carried
       /\ Edit!Typed(f).failed = log.failed /\ Edit!Typed(f).live = log.live
  BY <1>7 DEF TextLog
<1>12. QED  BY <1>1, <1>5, <1>6, <1>8, <1>9, <1>10, <1>11

LEMMA TextSent == ASSUME log \in TextLog, log.sent < MaxSaves
  PROVE /\ Edit!Sent \in TextLog
        /\ Edit!Sent.typed = log.typed /\ Edit!Sent.where = log.where /\ Edit!Sent.meant = log.meant
        /\ ~Edit!Sent.raced => ~log.raced /\ flight = {} /\ \A l \in page.loads : ~l.read
        /\ Edit!Sent.opened = log.opened /\ Edit!Sent.carried = log.carried
        /\ Edit!Sent.failed = log.failed /\ Edit!Sent.live = log.live
        /\ log.sent + 1 \in 1..MaxSaves
<1> DEFINE rc == log.raced \/ flight # {} \/ \E l \in page.loads : l.read
<1>b. MaxSaves \in Nat  BY BoundsAssumption
<1>1. log.sent + 1 \in 1..MaxSaves /\ log.sent + 1 \in 0..MaxSaves  BY <1>b DEF TextLog
<1>2. rc \in BOOLEAN /\ (~rc => ~log.raced /\ flight = {} /\ \A l \in page.loads : ~l.read)
  OBVIOUS
<1>3. Edit!Sent = [log EXCEPT !.sent = log.sent + 1, !.raced = rc]  BY DEF Edit!Sent, TextLog
<1> HIDE DEF rc
<1>4. Edit!Sent \in TextLog  BY <1>1, <1>2, <1>3 DEF TextLog
<1>5. QED  BY <1>1, <1>2, <1>3, <1>4 DEF TextLog

\* what is sent is the edits, for the article of the page, with what the screen shows
LEMMA TextRequest ==
  ASSUME TextTypes, log.sent < MaxSaves, NEW e \in Edit!Edits, NEW next \in {"none", "commit"}
  PROVE /\ Edit!Request(e, next) \in TextSave
        /\ Edit!Request(e, next).post = page.post /\ Edit!Request(e, next).edits = e
        /\ Edit!Request(e, next).next = next /\ Edit!Request(e, next).step = "read"
        /\ Edit!Request(e, next).ok = FALSE
        /\ \A f \in Edit!Fields : Edit!Request(e, next).snap[f] = page.post
        /\ Edit!Request(e, next).wanted["title"] = page.shown["title"]
        /\ Edit!Request(e, next).wanted["content"] = page.text
<1>1. page.post \in Posts /\ page.text \in Edit!Values /\ page.shown \in Edit!Docs  BY DEF TextTypes, TextPage
<1>2. Edit!Original(page.post) \in Edit!Docs /\ \A f \in Edit!Fields : Edit!Original(page.post)[f] = page.post
  BY <1>1 DEF Edit!Original, Edit!Docs, Edit!Values
<1>3. Edit!Screen \in Edit!Docs /\ Edit!Screen["title"] = page.shown["title"] /\ Edit!Screen["content"] = page.text
  BY <1>1 DEF Edit!Screen, Edit!Docs, Edit!Fields
<1>4. log.sent + 1 \in 1..MaxSaves  BY TextSent DEF TextTypes
<1>5. QED  BY <1>1, <1>2, <1>3, <1>4 DEF Edit!Request, TextSave

LEMMA TextMerge == ASSUME NEW d \in Edit!Docs, NEW e \in Edit!Edits
  PROVE /\ Edit!Merge(d, e) \in Edit!Docs
        /\ \A f \in Edit!Fields : Edit!Merge(d, e)[f] = IF e[f] = Edit!None THEN d[f] ELSE e[f]
BY DEF Edit!Merge, Edit!Docs, Edit!Edits

\* the request which goes on, if one does
LEMMA TextContinue == ASSUME NEW q \in TextSave
  PROVE \A s \in Edit!Continue(q) :
          /\ q.next = "commit" /\ s \in TextSave /\ s.step = "commit" /\ s.next = q.next /\ s.post = q.post
          /\ s.edits = q.edits /\ s.snap = q.snap /\ s.wanted = q.wanted /\ s.ok = q.ok
BY DEF Edit!Continue, TextSave

-----------------------------------------------------------------------------
(* What an action does to the page, the edits and the requests *)

LEMMA TextTitle == ASSUME TextTypes, Edit!TypeTitle
  PROVE /\ page.text = page.old /\ page.loads = {}
        /\ edits' \in Edit!Edits /\ edits'["title"] = log.typed + 1 /\ edits'["content"] = edits["content"]
        /\ page' \in TextPage /\ page'.post = page.post /\ page'.loads = page.loads
        /\ page'.shown["title"] = log.typed + 1 /\ page'.shown["content"] = page.shown["content"]
        /\ page.shown["content"] = page.text => page'.text = page.text /\ page'.old = page.old
        /\ page.shown["content"] # page.text =>
              page'.text = page.shown["content"] /\ page'.old = page.shown["content"]
        /\ log' = Edit!Typed("title") /\ log.typed < MaxTyped
        /\ db' = db /\ flight' = flight
<1> DEFINE sh == [page.shown EXCEPT !["title"] = log.typed + 1]
<1>0. log.typed + 1 \in 1..MaxTyped /\ log.typed < MaxTyped
  <2>1. log.typed < MaxTyped  BY DEF Edit!TypeTitle
  <2>2. QED  BY <2>1, BoundsAssumption DEF TextTypes, TextLog
<1>1. page.shown \in Edit!Docs /\ edits \in Edit!Edits  BY DEF TextTypes, TextPage
<1>2. sh \in Edit!Docs /\ sh["title"] = log.typed + 1 /\ sh["content"] = page.shown["content"]
  BY <1>0, <1>1 DEF Edit!Docs, Edit!Values, Edit!Fields
<1>3. edits' = [edits EXCEPT !["title"] = log.typed + 1]  BY DEF Edit!TypeTitle
<1>4. edits' \in Edit!Edits /\ edits'["title"] = log.typed + 1 /\ edits'["content"] = edits["content"]
  BY <1>0, <1>1, <1>3 DEF Edit!Edits, Edit!Values, Edit!Fields
<1>5. page' = Edit!Drawn(sh)  BY DEF Edit!TypeTitle
<1> HIDE DEF sh
<1>6. page \in TextPage  BY DEF TextTypes
<1>7. /\ page' \in TextPage /\ page'.post = page.post /\ page'.loads = page.loads /\ page'.shown = sh
      /\ sh["content"] = page.text => page'.text = page.text /\ page'.old = page.old
      /\ sh["content"] # page.text => page'.text = sh["content"] /\ page'.old = sh["content"]
  BY <1>2, <1>5, <1>6, TextDrawn
<1>8. page.text = page.old /\ page.loads = {} /\ log' = Edit!Typed("title") /\ db' = db /\ flight' = flight
  BY DEF Edit!TypeTitle
<1>9. QED  BY <1>0, <1>2, <1>4, <1>7, <1>8

LEMMA TextText == ASSUME TextTypes, Edit!TypeText
  PROVE /\ page.loads = {}
        /\ page' \in TextPage /\ page'.post = page.post /\ page'.loads = page.loads /\ page'.shown = page.shown
        /\ page'.text = log.typed + 1 /\ page'.old = page.old
        /\ log' = Edit!Typed("content") /\ log.typed < MaxTyped
        /\ db' = db /\ edits' = edits /\ flight' = flight
<1>0. log.typed + 1 \in 1..MaxTyped /\ log.typed < MaxTyped
  <2>1. log.typed < MaxTyped  BY DEF Edit!TypeText
  <2>2. QED  BY <2>1, BoundsAssumption DEF TextTypes, TextLog
<1>1. page' = [page EXCEPT !.text = log.typed + 1] /\ page \in TextPage  BY DEF Edit!TypeText, TextTypes
<1>2. log.typed + 1 \in Edit!Values  BY <1>0 DEF Edit!Values
<1>3. /\ page' \in TextPage /\ page'.post = page.post /\ page'.loads = page.loads /\ page'.shown = page.shown
      /\ page'.text = log.typed + 1 /\ page'.old = page.old
  BY <1>1, <1>2 DEF TextPage
<1>4. QED  BY <1>0, <1>3 DEF Edit!TypeText

LEMMA TextBlur == ASSUME TextTypes, Edit!Blur
  PROVE /\ page.loads = {} /\ page.text # page.old
        /\ edits' \in Edit!Edits /\ edits'["content"] = page.text /\ edits'["title"] = edits["title"]
        /\ page' \in TextPage /\ page'.post = page.post /\ page'.loads = page.loads /\ page'.shown = page.shown
        /\ page'.text = page.text /\ page'.old = page.text
        /\ flight' = flight \union {Edit!Request(edits', "none")}
        /\ log' = Edit!Sent /\ log.sent < MaxSaves /\ db' = db
<1>1. page \in TextPage /\ page.text \in Edit!Values /\ edits \in Edit!Edits  BY DEF TextTypes, TextPage
<1>2. /\ edits' = [edits EXCEPT !["content"] = page.text]
      /\ page' = [page EXCEPT !.old = page.text]
  BY DEF Edit!Blur
<1>3. edits' \in Edit!Edits /\ edits'["content"] = page.text /\ edits'["title"] = edits["title"]
  BY <1>1, <1>2 DEF Edit!Edits, Edit!Fields
<1>4. /\ page' \in TextPage /\ page'.post = page.post /\ page'.loads = page.loads /\ page'.shown = page.shown
      /\ page'.text = page.text /\ page'.old = page.text
  BY <1>1, <1>2 DEF TextPage
<1>5. QED  BY <1>3, <1>4 DEF Edit!Blur

\* a request, or what is left of it when there is nothing to save, which may be nothing
LEMMA TextClick == ASSUME TextTypes, NEW next \in {"none", "commit"}, Edit!Click(next)
  PROVE /\ page.loads = {} => page.text = page.old
        /\ \E new \in SUBSET TextSave :
              /\ flight' = flight \union new
              /\ \A q, s \in new : q = s
              /\ \A q \in new :
                    /\ q.post = page.post /\ q.edits = edits /\ q.ok = FALSE
                    /\ q.step = "read" \/ (q.step = "commit" /\ q.next = "commit" /\ edits = Edit!Nothing)
                    /\ \A f \in Edit!Fields : q.snap[f] = page.post
                    /\ q.wanted["title"] = page.shown["title"] /\ q.wanted["content"] = page.text
        /\ log' = Edit!Sent /\ log.sent < MaxSaves
        /\ db' = db /\ page' = page /\ edits' = edits
<1> DEFINE req == Edit!Request(edits, next)
<1>1. log.sent < MaxSaves /\ edits \in Edit!Edits  BY DEF Edit!Click, TextTypes
<1>2. /\ req \in TextSave
      /\ req.post = page.post /\ req.edits = edits
      /\ req.next = next /\ req.step = "read" /\ req.ok = FALSE
      /\ \A f \in Edit!Fields : req.snap[f] = page.post
      /\ req.wanted["title"] = page.shown["title"] /\ req.wanted["content"] = page.text
  BY <1>1, TextRequest
<1>3. flight' = flight \union (IF edits = Edit!Nothing THEN Edit!Continue(req) ELSE {req})  BY DEF Edit!Click
<1> HIDE DEF req
<1>4. \A s \in Edit!Continue(req) :
          /\ req.next = "commit" /\ s \in TextSave /\ s.step = "commit" /\ s.next = req.next /\ s.post = req.post
          /\ s.edits = req.edits /\ s.snap = req.snap /\ s.wanted = req.wanted /\ s.ok = req.ok
  BY <1>2, TextContinue
<1>5. \A q, s \in Edit!Continue(req) : q = s  BY DEF Edit!Continue
<1>6. CASE edits = Edit!Nothing
  <2>1. flight' = flight \union Edit!Continue(req) /\ Edit!Continue(req) \in SUBSET TextSave  BY <1>3, <1>4, <1>6
  <2>2. QED  BY <2>1, <1>1, <1>2, <1>4, <1>5, <1>6 DEF Edit!Click
<1>7. CASE edits # Edit!Nothing
  <2>1. flight' = flight \union {req} /\ {req} \in SUBSET TextSave  BY <1>2, <1>3, <1>7
  <2>2. QED  BY <2>1, <1>1, <1>2 DEF Edit!Click
<1>8. QED  BY <1>6, <1>7

LEMMA TextOpen == ASSUME TextTypes, NEW p \in Posts, Edit!Open(p)
  PROVE /\ page' \in TextPage /\ page'.post = page.post /\ page'.shown = page.shown
        /\ page'.text = page.text /\ page'.old = page.old
        /\ \E l \in Edit!Loads : /\ page'.loads = page.loads \union {l} /\ l.post = p /\ ~l.read
                                 /\ \A f \in Edit!Fields : l.got[f] = p
        /\ log' \in TextLog
        /\ log'.typed = log.typed /\ log'.where = log.where /\ log'.meant = log.meant /\ log'.raced = log.raced
        /\ log'.failed = log.failed /\ log'.live = log.live
        /\ ~log'.carried => ~log.carried /\ page.text \in {page.old, page.shown["content"]}
        /\ db' = db /\ edits' = edits /\ flight' = flight
<1> DEFINE cr == log.carried \/ page.text \notin {page.old, page.shown["content"]}
           n == log.opened + 1
<1>1. page \in TextPage /\ log \in TextLog  BY DEF TextTypes
<1> DEFINE l == [id |-> n, post |-> p, read |-> FALSE, got |-> Edit!Original(p)]
<1>2. page' = [page EXCEPT !.loads = page.loads \union {l}]  BY DEF Edit!Open
<1>5. n \in 1..MaxOpened /\ n \in 0..MaxOpened
  BY <1>1, BoundsAssumption DEF TextLog, Edit!Open
<1> HIDE DEF n
<1>l. l \in Edit!Loads /\ l.post = p /\ ~l.read /\ \A f \in Edit!Fields : l.got[f] = p
  BY <1>5 DEF Edit!Loads, Edit!Original, Edit!Docs, Edit!Values
<1> HIDE DEF l
<1>3. page.loads \union {l} \in SUBSET Edit!Loads  BY <1>1, <1>l DEF TextPage
<1>4. /\ page' \in TextPage /\ page'.post = page.post /\ page'.shown = page.shown
      /\ page'.text = page.text /\ page'.old = page.old /\ page'.loads = page.loads \union {l}
  BY <1>1, <1>2, <1>3 DEF TextPage
<1>6. cr \in BOOLEAN /\ (~cr => ~log.carried /\ page.text \in {page.old, page.shown["content"]})  OBVIOUS
<1>7. log' = [log EXCEPT !.opened = n, !.carried = cr]  BY <1>1 DEF Edit!Open, TextLog, n
<1> HIDE DEF cr
<1>8. /\ log' \in TextLog /\ log'.carried = cr
      /\ log'.typed = log.typed /\ log'.where = log.where /\ log'.meant = log.meant /\ log'.raced = log.raced
      /\ log'.failed = log.failed /\ log'.live = log.live
  BY <1>1, <1>5, <1>6, <1>7 DEF TextLog
<1>9. db' = db /\ edits' = edits /\ flight' = flight  BY DEF Edit!Open
<1>10. QED  BY <1>l, <1>4, <1>5, <1>6, <1>8, <1>9

LEMMA TextFetched == ASSUME TextTypes, NEW l \in page.loads, Edit!Fetched(l)
  PROVE /\ page' \in TextPage /\ page'.post = page.post /\ page'.shown = page.shown
        /\ page'.text = page.text /\ page'.old = page.old
        /\ \E k \in Edit!Loads : /\ page'.loads = (page.loads \ {l}) \union {k} /\ k.post = l.post
                                 /\ k.got = db[l.post]
        /\ l.post \in Posts
        /\ log' \in TextLog /\ log'.opened = log.opened
        /\ log'.typed = log.typed /\ log'.where = log.where /\ log'.meant = log.meant
        /\ log'.failed = log.failed /\ log'.live = log.live /\ log'.carried = log.carried
        /\ ~log'.raced => ~log.raced /\ flight = {}
        /\ db' = db /\ edits' = edits /\ flight' = flight
<1> DEFINE rc == log.raced \/ flight # {}
<1> DEFINE k == [l EXCEPT !.read = TRUE, !.got = db[l.post]]
<1>1. page \in TextPage /\ log \in TextLog /\ l \in Edit!Loads  BY DEF TextTypes, TextPage
<1>2. l.post \in Posts /\ db[l.post] \in Edit!Docs  BY <1>1 DEF TextTypes, Edit!Loads
<1>3. k \in Edit!Loads /\ k.post = l.post /\ k.got = db[l.post]  BY <1>1, <1>2 DEF Edit!Loads
<1>4. page' = [page EXCEPT !.loads = (page.loads \ {l}) \union {k}]  BY DEF Edit!Fetched
<1> HIDE DEF k
<1>5. (page.loads \ {l}) \union {k} \in SUBSET Edit!Loads  BY <1>1, <1>3 DEF TextPage
<1>6. /\ page' \in TextPage /\ page'.post = page.post /\ page'.shown = page.shown
      /\ page'.text = page.text /\ page'.old = page.old /\ page'.loads = (page.loads \ {l}) \union {k}
  BY <1>1, <1>4, <1>5 DEF TextPage
<1>7. rc \in BOOLEAN /\ (~rc => ~log.raced /\ flight = {})  OBVIOUS
<1>8. log' = [log EXCEPT !.raced = rc]  BY <1>1 DEF Edit!Fetched, TextLog
<1> HIDE DEF rc
<1>9. /\ log' \in TextLog /\ log'.opened = log.opened /\ log'.raced = rc
      /\ log'.typed = log.typed /\ log'.where = log.where /\ log'.meant = log.meant
      /\ log'.failed = log.failed /\ log'.live = log.live /\ log'.carried = log.carried
  BY <1>1, <1>7, <1>8 DEF TextLog
<1>10. db' = db /\ edits' = edits /\ flight' = flight  BY DEF Edit!Fetched
<1>11. QED  BY <1>2, <1>3, <1>6, <1>7, <1>9, <1>10

LEMMA TextLoaded == ASSUME TextTypes, NEW l \in page.loads, Edit!Loaded(l)
  PROVE /\ l.read /\ l.post \in Posts /\ l.got \in Edit!Docs
        /\ page' \in TextPage /\ page'.post = l.post /\ page'.shown = l.got /\ page'.text = l.got["content"]
        /\ page'.old = Edit!Blank /\ page'.loads = page.loads \ {l}
        /\ log' \in TextLog /\ log'.opened = log.opened
        /\ log'.typed = log.typed /\ log'.where = log.where /\ log'.meant = l.got
        /\ log'.failed = log.failed /\ log'.live = log.live /\ log'.raced = log.raced
        /\ ~log'.carried => ~log.carried /\ edits = Edit!Nothing
        /\ db' = db /\ edits' = edits /\ flight' = flight
<1> DEFINE cr == log.carried \/ edits # Edit!Nothing
<1>1. page \in TextPage /\ log \in TextLog /\ l \in Edit!Loads  BY DEF TextTypes, TextPage
<1>2. page' = [post |-> l.post, shown |-> l.got, text |-> l.got["content"], old |-> Edit!Blank,
               loads |-> page.loads \ {l}]
  BY DEF Edit!Loaded
<1>3. /\ l.post \in Posts /\ l.got \in Edit!Docs /\ l.got["content"] \in Edit!Values
      /\ page.loads \ {l} \in SUBSET Edit!Loads
  BY <1>1 DEF TextPage, Edit!Loads, Edit!Docs, Edit!Fields
<1>4. page' \in TextPage  BY <1>1, <1>2, <1>3 DEF TextPage
<1>5. cr \in BOOLEAN /\ (~cr => ~log.carried /\ edits = Edit!Nothing)  OBVIOUS
<1>7. log' = [log EXCEPT !.meant = l.got, !.carried = cr]
  BY <1>1 DEF Edit!Loaded, TextLog
<1> HIDE DEF cr
<1>8. /\ log' \in TextLog /\ log'.opened = log.opened /\ log'.carried = cr /\ log'.raced = log.raced
      /\ log'.typed = log.typed /\ log'.where = log.where /\ log'.meant = l.got
      /\ log'.failed = log.failed /\ log'.live = log.live
  BY <1>1, <1>3, <1>5, <1>7 DEF TextLog
<1>9. l.read /\ db' = db /\ edits' = edits /\ flight' = flight  BY DEF Edit!Loaded
<1>10. QED  BY <1>2, <1>3, <1>4, <1>5, <1>8, <1>9

LEMMA TextAnswer == ASSUME TextTypes, NEW q \in flight, Edit!Answer(q)
  PROVE /\ q.step = "answer"
        /\ flight' = (flight \ {q}) \union Edit!Continue(q)
        /\ q.ok => /\ page' \in TextPage /\ page'.post = page.post /\ page'.loads = page.loads
                   /\ \A f \in Edit!Fields :
                         page'.shown[f] = IF edits[f] = Edit!None THEN page.shown[f] ELSE edits[f]
                   /\ page'.shown["content"] = page.text => page'.text = page.text /\ page'.old = page.old
                   /\ page'.shown["content"] # page.text =>
                         page'.text = page'.shown["content"] /\ page'.old = page'.shown["content"]
                   /\ edits' = Edit!Nothing
        /\ ~q.ok => page' = page /\ edits' = edits
        /\ db' = db /\ log' = log
<1> DEFINE sh == Edit!Merge(page.shown, edits)
<1>1. page \in TextPage /\ page.shown \in Edit!Docs /\ edits \in Edit!Edits  BY DEF TextTypes, TextPage
<1>2. /\ sh \in Edit!Docs
      /\ \A f \in Edit!Fields : sh[f] = IF edits[f] = Edit!None THEN page.shown[f] ELSE edits[f]
  BY <1>1, TextMerge
<1>3. q.ok => page' = Edit!Drawn(sh) /\ edits' = Edit!Nothing  BY DEF Edit!Answer
<1> HIDE DEF sh
<1>4. q.ok => /\ page' \in TextPage /\ page'.post = page.post /\ page'.loads = page.loads /\ page'.shown = sh
              /\ sh["content"] = page.text => page'.text = page.text /\ page'.old = page.old
              /\ sh["content"] # page.text => page'.text = sh["content"] /\ page'.old = sh["content"]
  BY <1>1, <1>2, <1>3, TextDrawn
<1>5. /\ q.step = "answer" /\ flight' = (flight \ {q}) \union Edit!Continue(q)
      /\ ~q.ok => page' = page /\ edits' = edits
      /\ db' = db /\ log' = log
  BY DEF Edit!Answer
<1>6. QED  BY <1>2, <1>3, <1>4, <1>5

\* a request which reads, writes or is refused is the same further on
TextOn(q, s) == s \in TextSave /\ s.post = q.post /\ s.edits = q.edits /\ s.next = q.next /\ s.wanted = q.wanted

LEMMA TextRead == ASSUME TextTypes, NEW q \in flight, Edit!Read(q)
  PROVE \E s \in TextSave :
          /\ q.step = "read" /\ TextOn(q, s) /\ s.ok = q.ok
          /\ flight' = (flight \ {q}) \union {s}
          /\ \/ /\ s.step = "answer" /\ s.snap = q.snap
                /\ \A f \in Edit!Fields : q.edits[f] # Edit!None => db[q.post][f] = q.edits[f]
             \/ s.step = "write" /\ s.snap = db[q.post]
          /\ db' = db /\ page' = page /\ edits' = edits /\ log' = log
<1>1. q \in TextSave /\ db[q.post] \in Edit!Docs /\ q.edits \in Edit!Edits  BY DEF TextTypes, TextSave
<1>2. q.step = "read" /\ db' = db /\ page' = page /\ edits' = edits /\ log' = log  BY DEF Edit!Read
<1>3. CASE Edit!Merge(db[q.post], q.edits) = db[q.post]
  <2> DEFINE s == [q EXCEPT !.step = "answer"]
  <2>1. TextOn(q, s) /\ s.ok = q.ok /\ s.step = "answer" /\ s.snap = q.snap  BY <1>1 DEF TextSave, TextOn
  <2>2. flight' = (flight \ {q}) \union {s}  BY <1>3 DEF Edit!Read, Edit!Becomes
  <2>3. \A f \in Edit!Fields : q.edits[f] # Edit!None => db[q.post][f] = q.edits[f]  BY <1>1, <1>3, TextMerge
  <2>4. s \in TextSave  BY <2>1 DEF TextOn
  <2>5. QED  BY <2>1, <2>2, <2>3, <2>4, <1>2
<1>4. CASE Edit!Merge(db[q.post], q.edits) # db[q.post]
  <2> DEFINE s == [q EXCEPT !.step = "write", !.snap = db[q.post]]
  <2>1. TextOn(q, s) /\ s.ok = q.ok /\ s.step = "write" /\ s.snap = db[q.post]  BY <1>1 DEF TextSave, TextOn
  <2>2. flight' = (flight \ {q}) \union {s}  BY <1>4 DEF Edit!Read, Edit!Becomes
  <2>4. s \in TextSave  BY <2>1 DEF TextOn
  <2>5. QED  BY <2>1, <2>2, <2>4, <1>2
<1>5. QED  BY <1>3, <1>4

LEMMA TextWrite == ASSUME TextTypes, NEW q \in flight, Edit!Write(q)
  PROVE \E s \in TextSave :
          /\ q.step = "write" /\ TextOn(q, s) /\ s.ok /\ s.step = "answer" /\ s.snap = q.snap
          /\ flight' = (flight \ {q}) \union {s}
          /\ q.post \in Posts /\ db' \in [Posts -> Edit!Docs]
          /\ \A p \in Posts : p # q.post => db'[p] = db[p]
          /\ \A f \in Edit!Fields : db'[q.post][f] = IF q.edits[f] = Edit!None THEN q.snap[f] ELSE q.edits[f]
          /\ page' = page /\ edits' = edits /\ log' = log
<1>1. q \in TextSave /\ q.post \in Posts /\ q.snap \in Edit!Docs /\ q.edits \in Edit!Edits /\ db \in [Posts -> Edit!Docs]
  BY DEF TextTypes, TextSave
<1>2. q.step = "write" /\ page' = page /\ edits' = edits /\ log' = log  BY DEF Edit!Write
<1>3. db' = [db EXCEPT ![q.post] = Edit!Merge(q.snap, q.edits)]  BY DEF Edit!Write
<1>4. /\ Edit!Merge(q.snap, q.edits) \in Edit!Docs
      /\ \A f \in Edit!Fields :
            Edit!Merge(q.snap, q.edits)[f] = IF q.edits[f] = Edit!None THEN q.snap[f] ELSE q.edits[f]
  BY <1>1, TextMerge
<1>5. /\ db' \in [Posts -> Edit!Docs]
      /\ \A p \in Posts : p # q.post => db'[p] = db[p]
      /\ db'[q.post] = Edit!Merge(q.snap, q.edits)
  BY <1>1, <1>3, <1>4
<1> DEFINE s == [q EXCEPT !.step = "answer", !.ok = TRUE]
<1>6. TextOn(q, s) /\ s.ok /\ s.step = "answer" /\ s.snap = q.snap  BY <1>1 DEF TextSave, TextOn
<1>7. flight' = (flight \ {q}) \union {s}  BY DEF Edit!Write, Edit!Becomes
<1>8. s \in TextSave  BY <1>6 DEF TextOn
<1>9. QED  BY <1>1, <1>2, <1>4, <1>5, <1>6, <1>7, <1>8

LEMMA TextCommit == ASSUME TextTypes, NEW q \in flight, Edit!Commit(q)
  PROVE /\ q.step = "commit" /\ flight' = flight \ {q}
        /\ log' \in TextLog /\ log'.opened = log.opened
        /\ log'.typed = log.typed /\ log'.where = log.where /\ log'.meant = log.meant
        /\ log'.raced = log.raced /\ log'.carried = log.carried /\ log'.failed = log.failed
        /\ log'.live.got = db[q.post] /\ log'.live.wanted = q.wanted
        /\ db' = db /\ page' = page /\ edits' = edits
<1>1. q \in TextSave /\ log \in TextLog /\ db[q.post] \in Edit!Docs /\ q.wanted \in Edit!Docs  BY DEF TextTypes, TextSave
<1>2. log' = [log EXCEPT !.live = [got |-> db[q.post], wanted |-> q.wanted]]  BY DEF Edit!Commit
<1>3. [got |-> db[q.post], wanted |-> q.wanted] \in [got : Edit!Docs, wanted : Edit!Docs]  BY <1>1
<1>4. /\ log' \in TextLog /\ log'.opened = log.opened
      /\ log'.typed = log.typed /\ log'.where = log.where /\ log'.meant = log.meant
      /\ log'.raced = log.raced /\ log'.carried = log.carried /\ log'.failed = log.failed
      /\ log'.live = [got |-> db[q.post], wanted |-> q.wanted]
  BY <1>1, <1>2, <1>3 DEF TextLog
<1>5. QED  BY <1>4 DEF Edit!Commit

LEMMA TextFails == ASSUME TextTypes, NEW q \in flight, Edit!Refuse(q) \/ Edit!Lose(q)
  PROVE /\ \/ flight' = flight \ {q}
           \/ \E s \in TextSave : /\ q.step = "read" /\ TextOn(q, s) /\ s.ok = q.ok /\ s.step = "answer"
                                  /\ s.snap = q.snap /\ flight' = (flight \ {q}) \union {s}
        /\ log' \in TextLog /\ log'.opened = log.opened
        /\ log'.typed = log.typed /\ log'.where = log.where /\ log'.meant = log.meant
        /\ log'.raced = log.raced /\ log'.carried = log.carried /\ log'.failed
        /\ db' = db /\ page' = page /\ edits' = edits
<1>1. q \in TextSave /\ log \in TextLog  BY DEF TextTypes
<1>2. log' = [log EXCEPT !.failed = TRUE]  BY DEF Edit!Refuse, Edit!Lose
<1>3. /\ log' \in TextLog /\ log'.opened = log.opened
      /\ log'.typed = log.typed /\ log'.where = log.where /\ log'.meant = log.meant
      /\ log'.raced = log.raced /\ log'.carried = log.carried /\ log'.failed
  BY <1>1, <1>2 DEF TextLog
<1>4. CASE Edit!Refuse(q)
  <2> DEFINE s == [q EXCEPT !.step = "answer"]
  <2>1. TextOn(q, s) /\ s.ok = q.ok /\ s.step = "answer" /\ s.snap = q.snap  BY <1>1 DEF TextSave, TextOn
  <2>2. s \in TextSave  BY <2>1 DEF TextOn
  <2>3. /\ q.step = "read" /\ flight' = (flight \ {q}) \union {s} /\ db' = db /\ page' = page /\ edits' = edits
    BY <1>4 DEF Edit!Refuse, Edit!Becomes
  <2>4. QED  BY <2>1, <2>2, <2>3, <1>3
<1>5. CASE Edit!Lose(q)  BY <1>3, <1>5 DEF Edit!Lose
<1>6. QED  BY <1>4, <1>5

-----------------------------------------------------------------------------
(* Every action keeps the invariant *)

LEMMA TextTypesKept == ASSUME TextTypes, TextLoads, Edit!Next PROVE TextTypes' /\ TextLoads'
<1>t. /\ db \in [Posts -> Edit!Docs] /\ page \in TextPage /\ edits \in Edit!Edits
      /\ flight \subseteq TextSave /\ log \in TextLog /\ page.post \in Posts
  BY DEF TextTypes, TextPage
<1>n. Edit!Nothing \in Edit!Edits  BY DEF Edit!Nothing, Edit!Edits
<1>f. "title" \in Edit!Fields /\ "content" \in Edit!Fields  BY DEF Edit!Fields
<1>1. CASE Edit!TypeTitle
  <2>1. /\ edits' \in Edit!Edits /\ page' \in TextPage /\ page'.loads = page.loads
        /\ log' = Edit!Typed("title") /\ log.typed < MaxTyped /\ db' = db /\ flight' = flight
    BY <1>1, TextTitle
  <2>2. log' \in TextLog /\ log'.opened = log.opened  BY <2>1, <1>t, <1>f, TextTyped
  <2>3. QED  BY <2>1, <2>2, <1>t DEF TextTypes, TextLoads
<1>2. CASE Edit!TypeText
  <2>1. /\ page' \in TextPage /\ page'.loads = page.loads
        /\ log' = Edit!Typed("content") /\ log.typed < MaxTyped /\ db' = db /\ flight' = flight /\ edits' = edits
    BY <1>2, TextText
  <2>2. log' \in TextLog /\ log'.opened = log.opened  BY <2>1, <1>t, <1>f, TextTyped
  <2>3. QED  BY <2>1, <2>2, <1>t DEF TextTypes, TextLoads
<1>3. CASE Edit!Blur
  <2>1. /\ edits' \in Edit!Edits /\ page' \in TextPage /\ page'.loads = page.loads
        /\ flight' = flight \union {Edit!Request(edits', "none")}
        /\ log' = Edit!Sent /\ log.sent < MaxSaves /\ db' = db
    BY <1>3, TextBlur
  <2>2. log' \in TextLog /\ log'.opened = log.opened  BY <2>1, <1>t, TextSent
  <2> DEFINE req == Edit!Request(edits', "none")
  <2>3. req \in TextSave /\ req.step = "read" /\ req.ok = FALSE  BY <2>1, TextRequest
  <2>4. flight' = flight \union {req}  BY <2>1
  <2> HIDE DEF req
  <2>5. QED  BY <2>1, <2>2, <2>3, <2>4, <1>t DEF TextTypes, TextLoads
<1>4. ASSUME NEW next \in {"none", "commit"}, Edit!Click(next) PROVE TextTypes' /\ TextLoads'
  <2>1. log' = Edit!Sent /\ log.sent < MaxSaves /\ db' = db /\ page' = page /\ edits' = edits  BY <1>4, TextClick
  <2>2. PICK new \in SUBSET TextSave :
          /\ flight' = flight \union new
          /\ \A q \in new : q.ok = FALSE /\ (q.step = "read" \/ (q.step = "commit" /\ q.next = "commit"))
    BY <1>4, TextClick
  <2>3. log' \in TextLog /\ log'.opened = log.opened  BY <2>1, <1>t, TextSent
  <2>4. QED  BY <2>1, <2>2, <2>3, <1>t DEF TextTypes, TextLoads
<1>5. ASSUME NEW p \in Posts, Edit!Open(p) PROVE TextTypes' /\ TextLoads'
  <2>1. /\ page' \in TextPage /\ \E l \in Edit!Loads : page'.loads = page.loads \union {l}
        /\ log' \in TextLog
        /\ db' = db /\ edits' = edits /\ flight' = flight
    BY <1>5, TextOpen
  <2>2. QED  BY <2>1, <1>t DEF TextTypes, TextLoads
<1>13. ASSUME NEW l \in page.loads, Edit!Fetched(l) PROVE TextTypes' /\ TextLoads'
  <2>1. /\ page' \in TextPage /\ \E k \in Edit!Loads : page'.loads = (page.loads \ {l}) \union {k}
        /\ log' \in TextLog /\ log'.opened = log.opened
        /\ db' = db /\ edits' = edits /\ flight' = flight
    BY <1>13, TextFetched
  <2>2. QED  BY <2>1, <1>t DEF TextTypes, TextLoads
<1>6. ASSUME NEW l \in page.loads, Edit!Loaded(l) PROVE TextTypes' /\ TextLoads'
  <2>1. /\ page' \in TextPage /\ page'.loads = page.loads \ {l}
        /\ log' \in TextLog /\ log'.opened = log.opened
        /\ db' = db /\ edits' = edits /\ flight' = flight
    BY <1>6, TextLoaded
  <2>2. QED  BY <2>1, <1>t DEF TextTypes, TextLoads
<1>7. ASSUME NEW q \in flight, Edit!Answer(q) PROVE TextTypes' /\ TextLoads'
  <2>1. /\ flight' = (flight \ {q}) \union Edit!Continue(q)
        /\ q.ok => page' \in TextPage /\ page'.loads = page.loads /\ edits' = Edit!Nothing
        /\ ~q.ok => page' = page /\ edits' = edits
        /\ db' = db /\ log' = log
    BY <1>7, TextAnswer
  <2>2. \A s \in Edit!Continue(q) : s \in TextSave /\ s.step = "commit" /\ s.next = "commit"  BY <1>t, TextContinue
  <2>3. page' \in TextPage /\ page'.loads = page.loads /\ edits' \in Edit!Edits
    <3>1. CASE q.ok  BY <3>1, <2>1, <1>n
    <3>2. CASE ~q.ok  BY <3>2, <2>1, <1>t
    <3>3. QED  BY <3>1, <3>2
  <2>4. TextTypes'  BY <2>1, <2>2, <2>3, <1>t DEF TextTypes
  <2>5. TextLoads'  BY <2>1, <2>2, <2>3 DEF TextLoads
  <2>6. QED  BY <2>4, <2>5
<1>8. ASSUME NEW q \in flight, Edit!Read(q) PROVE TextTypes' /\ TextLoads'
  <2>1. PICK s \in TextSave :
          /\ q.step = "read" /\ s.ok = q.ok
          /\ flight' = (flight \ {q}) \union {s}
          /\ s.step \in {"answer", "write"}
          /\ db' = db /\ page' = page /\ edits' = edits /\ log' = log
    BY <1>8, TextRead
  <2>2. QED  BY <2>1, <1>t DEF TextTypes, TextLoads
<1>9. ASSUME NEW q \in flight, Edit!Write(q) PROVE TextTypes' /\ TextLoads'
  <2>1. PICK s \in TextSave :
          /\ s.step = "answer"
          /\ flight' = (flight \ {q}) \union {s}
          /\ db' \in [Posts -> Edit!Docs]
          /\ page' = page /\ edits' = edits /\ log' = log
    BY <1>9, TextWrite
  <2>2. QED  BY <2>1, <1>t DEF TextTypes, TextLoads
<1>10. ASSUME NEW q \in flight, Edit!Commit(q) PROVE TextTypes' /\ TextLoads'
  <2>1. /\ flight' = flight \ {q} /\ log' \in TextLog /\ log'.opened = log.opened
        /\ db' = db /\ page' = page /\ edits' = edits
    BY <1>10, TextCommit
  <2>2. QED  BY <2>1, <1>t DEF TextTypes, TextLoads
<1>11. ASSUME NEW q \in flight, Edit!Refuse(q) \/ Edit!Lose(q) PROVE TextTypes' /\ TextLoads'
  <2>1. /\ log' \in TextLog /\ log'.opened = log.opened
        /\ db' = db /\ page' = page /\ edits' = edits
    BY <1>11, TextFails
  <2>2. \/ flight' = flight \ {q}
        \/ \E s \in TextSave : s.step = "answer" /\ flight' = (flight \ {q}) \union {s}
    BY <1>11, TextFails
  <2>3. flight' \subseteq TextSave /\ \A s \in flight' : s \in flight \/ s.step = "answer"  BY <2>2, <1>t
  <2>4. QED  BY <2>1, <2>3, <1>t DEF TextTypes, TextLoads
<1>12. QED  BY <1>1, <1>2, <1>3, <1>4, <1>5, <1>6, <1>7, <1>8, <1>9, <1>10, <1>11, <1>13 DEF Edit!Next

\* what was typed into an article stays typed into it
LEMMA TextGrows ==
  ASSUME log \in TextLog, log' \in TextLog, log'.typed \in {log.typed, log.typed + 1},
         \A n \in 1..log.typed : log'.where[n] = log.where[n]
  PROVE \A p, v : TextOf(log, p, v) => TextOf(log', p, v)
<1>1. log.typed \in Nat  BY BoundsAssumption DEF TextLog
<1>2. 1..log.typed \subseteq 1..log'.typed  BY <1>1
<1>3. QED  BY <1>2 DEF TextOf

LEMMA TextOwnKept == ASSUME TextTypes, TextOwn, Edit!Next PROVE TextOwn'
<1>t. /\ db \in [Posts -> Edit!Docs] /\ page \in TextPage /\ edits \in Edit!Edits
      /\ flight \subseteq TextSave /\ log \in TextLog /\ page.post \in Posts
  BY DEF TextTypes, TextPage
<1>n. \A f \in Edit!Fields : Edit!Nothing[f] = Edit!None  BY DEF Edit!Nothing
<1>f. Edit!Fields = {"title", "content"}  BY DEF Edit!Fields
<1>s. log.typed \in Nat /\ \A p, v : v = p => TextOf(log, p, v)  BY <1>t, BoundsAssumption DEF TextLog, TextOf
<1>1. CASE Edit!TypeTitle
  <2>1. /\ edits'["title"] = log.typed + 1 /\ edits'["content"] = edits["content"]
        /\ page'.post = page.post /\ page'.loads = page.loads
        /\ page'.shown["title"] = log.typed + 1 /\ page'.shown["content"] = page.shown["content"]
        /\ page.shown["content"] = page.text => page'.text = page.text /\ page'.old = page.old
        /\ page.shown["content"] # page.text =>
              page'.text = page.shown["content"] /\ page'.old = page.shown["content"]
        /\ log' = Edit!Typed("title") /\ log.typed < MaxTyped
        /\ db' = db /\ flight' = flight
    BY <1>1, TextTitle
  <2>2. /\ log' \in TextLog /\ log'.typed = log.typed + 1 /\ log'.where[log.typed + 1] = page.post
        /\ \A n \in 1..log.typed : log'.where[n] = log.where[n]
        /\ log'.carried = log.carried
    BY <2>1, <1>t, <1>f, TextTyped
  <2>3. \A p, v : TextOf(log, p, v) => TextOf(log', p, v)  BY <2>2, <1>t, TextGrows
  <2>4. TextOf(log', page.post, log.typed + 1)  BY <2>1, <2>2, <1>s DEF TextOf
  <2>5. TextOwn => TextOwn'  BY <2>1, <2>2, <2>3, <2>4, <1>f DEF TextOwn
  <2>6. QED  BY <2>5
<1>2. CASE Edit!TypeText
  <2>1. /\ page'.post = page.post /\ page'.shown = page.shown /\ page'.loads = page.loads
        /\ page'.text = log.typed + 1 /\ page'.old = page.old
        /\ log' = Edit!Typed("content") /\ log.typed < MaxTyped
        /\ db' = db /\ edits' = edits /\ flight' = flight
    BY <1>2, TextText
  <2>2. /\ log' \in TextLog /\ log'.typed = log.typed + 1 /\ log'.where[log.typed + 1] = page.post
        /\ \A n \in 1..log.typed : log'.where[n] = log.where[n]
        /\ log'.carried = log.carried
    BY <2>1, <1>t, <1>f, TextTyped
  <2>3. \A p, v : TextOf(log, p, v) => TextOf(log', p, v)  BY <2>2, <1>t, TextGrows
  <2>4. TextOf(log', page.post, log.typed + 1)  BY <2>1, <2>2, <1>s DEF TextOf
  <2>5. QED  BY <2>1, <2>2, <2>3, <2>4 DEF TextOwn
<1>3. CASE Edit!Blur
  <2>1. /\ edits' \in Edit!Edits /\ edits'["content"] = page.text /\ edits'["title"] = edits["title"]
        /\ page'.post = page.post /\ page'.shown = page.shown /\ page'.loads = page.loads
        /\ page'.text = page.text /\ page'.old = page.text
        /\ flight' = flight \union {Edit!Request(edits', "none")}
        /\ log' = Edit!Sent /\ log.sent < MaxSaves /\ db' = db
    BY <1>3, TextBlur
  <2>2. log'.typed = log.typed /\ log'.where = log.where /\ log'.carried = log.carried  BY <2>1, <1>t, TextSent
  <2>3. \A p, v : TextOf(log, p, v) => TextOf(log', p, v)  BY <2>2 DEF TextOf
  <2> DEFINE req == Edit!Request(edits', "none")
  <2>4. req.post = page.post /\ req.edits = edits' /\ \A f \in Edit!Fields : req.snap[f] = page.post
    BY <2>1, TextRequest
  <2>5. flight' = flight \union {req}  BY <2>1
  <2> HIDE DEF req
  <2>6. ~log.carried => \A f \in Edit!Fields : edits'[f] = Edit!None \/ TextOf(log', page.post, edits'[f])
    BY <2>1, <2>3, <1>f DEF TextOwn
  <2>7. \A f \in Edit!Fields : TextOf(log', req.post, req.snap[f])  BY <2>3, <2>4, <1>s
  <2>8. QED  BY <2>1, <2>2, <2>3, <2>4, <2>5, <2>6, <2>7 DEF TextOwn
<1>4. ASSUME NEW next \in {"none", "commit"}, Edit!Click(next) PROVE TextOwn'
  <2>1. log' = Edit!Sent /\ log.sent < MaxSaves /\ db' = db /\ page' = page /\ edits' = edits  BY <1>4, TextClick
  <2>2. PICK new \in SUBSET TextSave :
          /\ flight' = flight \union new
          /\ \A q \in new : q.post = page.post /\ q.edits = edits /\ \A f \in Edit!Fields : q.snap[f] = page.post
    BY <1>4, TextClick
  <2>3. log'.typed = log.typed /\ log'.where = log.where /\ log'.carried = log.carried  BY <2>1, <1>t, TextSent
  <2>4. \A p, v : TextOf(log, p, v) => TextOf(log', p, v)  BY <2>3 DEF TextOf
  <2>5. \A q \in new, f \in Edit!Fields : TextOf(log', q.post, q.snap[f])  BY <2>2, <2>4, <1>s
  <2>6. QED  BY <2>1, <2>2, <2>3, <2>4, <2>5 DEF TextOwn
<1>5. ASSUME NEW p \in Posts, Edit!Open(p) PROVE TextOwn'
  <2>1. /\ page'.post = page.post /\ page'.shown = page.shown
        /\ page'.text = page.text /\ page'.old = page.old
        /\ log'.typed = log.typed /\ log'.where = log.where
        /\ ~log'.carried => ~log.carried
        /\ db' = db /\ edits' = edits /\ flight' = flight
    BY <1>5, TextOpen
  <2>2. \A i, v : TextOf(log, i, v) => TextOf(log', i, v)  BY <2>1 DEF TextOf
  <2>3. PICK l \in Edit!Loads : page'.loads = page.loads \union {l} /\ l.post = p
                               /\ \A f \in Edit!Fields : l.got[f] = p
    BY <1>5, TextOpen
  <2>4. \A f \in Edit!Fields : TextOf(log', l.post, l.got[f])  BY <2>2, <2>3, <1>s
  <2>5. QED  BY <2>1, <2>2, <2>3, <2>4 DEF TextOwn
<1>13. ASSUME NEW l \in page.loads, Edit!Fetched(l) PROVE TextOwn'
  <2>1. /\ page'.post = page.post /\ page'.shown = page.shown
        /\ page'.text = page.text /\ page'.old = page.old
        /\ log'.typed = log.typed /\ log'.where = log.where /\ log'.carried = log.carried
        /\ l.post \in Posts /\ db' = db /\ edits' = edits /\ flight' = flight
    BY <1>13, TextFetched
  <2>2. \A i, v : TextOf(log, i, v) => TextOf(log', i, v)  BY <2>1 DEF TextOf
  <2>3. PICK k \in Edit!Loads : page'.loads = (page.loads \ {l}) \union {k} /\ k.post = l.post /\ k.got = db[l.post]
    BY <1>13, TextFetched
  <2>4. ~log.carried => \A f \in Edit!Fields : TextOf(log', k.post, k.got[f])  BY <2>1, <2>2, <2>3 DEF TextOwn
  <2>5. QED  BY <2>1, <2>2, <2>3, <2>4 DEF TextOwn
<1>6. ASSUME NEW l \in page.loads, Edit!Loaded(l) PROVE TextOwn'
  <2>1. /\ page'.post = l.post /\ page'.shown = l.got /\ page'.text = l.got["content"]
        /\ page'.old = Edit!Blank /\ page'.loads = page.loads \ {l}
        /\ log'.typed = log.typed /\ log'.where = log.where
        /\ ~log'.carried => ~log.carried /\ edits = Edit!Nothing
        /\ db' = db /\ edits' = edits /\ flight' = flight
    BY <1>6, TextLoaded
  <2>2. \A i, v : TextOf(log, i, v) => TextOf(log', i, v)  BY <2>1 DEF TextOf
  <2>3. QED  BY <2>1, <2>2, <1>n, <1>f DEF TextOwn
<1>7. ASSUME NEW q \in flight, Edit!Answer(q) PROVE TextOwn'
  <2>1. /\ flight' = (flight \ {q}) \union Edit!Continue(q)
        /\ q.ok => /\ page'.post = page.post /\ page'.loads = page.loads
                   /\ \A f \in Edit!Fields :
                         page'.shown[f] = IF edits[f] = Edit!None THEN page.shown[f] ELSE edits[f]
                   /\ page'.shown["content"] = page.text => page'.text = page.text /\ page'.old = page.old
                   /\ page'.shown["content"] # page.text =>
                         page'.text = page'.shown["content"] /\ page'.old = page'.shown["content"]
                   /\ edits' = Edit!Nothing
        /\ ~q.ok => page' = page /\ edits' = edits
        /\ db' = db /\ log' = log
    BY <1>7, TextAnswer
  <2>2. \A s \in Edit!Continue(q) : s.post = q.post /\ s.edits = q.edits /\ s.snap = q.snap  BY <1>t, TextContinue
  <2>3. \A i, v : TextOf(log, i, v) => TextOf(log', i, v)  BY <2>1 DEF TextOf
  <2>4. SUFFICES ASSUME ~log.carried PROVE TextOwn'  BY <2>1 DEF TextOwn
  <2>5. \A s \in flight', f \in Edit!Fields :
          /\ s.edits[f] = Edit!None \/ TextOf(log', s.post, s.edits[f])
          /\ TextOf(log', s.post, s.snap[f])
    BY <2>1, <2>2, <2>3, <2>4 DEF TextOwn
  <2>6. CASE q.ok
    <3>1. \A f \in Edit!Fields : TextOf(log', page'.post, page'.shown[f])  BY <2>1, <2>3, <2>4, <2>6 DEF TextOwn
    <3>2. TextOf(log', page'.post, page'.text) /\ (page'.old = Edit!Blank \/ TextOf(log', page'.post, page'.old))
      BY <2>1, <2>3, <2>4, <2>6, <3>1, <1>f DEF TextOwn
    <3>3. QED  BY <2>1, <2>3, <2>4, <2>5, <2>6, <3>1, <3>2, <1>n DEF TextOwn
  <2>7. CASE ~q.ok  BY <2>1, <2>3, <2>4, <2>5, <2>7 DEF TextOwn
  <2>8. QED  BY <2>6, <2>7
<1>8. ASSUME NEW q \in flight, Edit!Read(q) PROVE TextOwn'
  <2>1. PICK s \in TextSave :
          /\ TextOn(q, s)
          /\ flight' = (flight \ {q}) \union {s}
          /\ s.snap = q.snap \/ s.snap = db[q.post]
          /\ db' = db /\ page' = page /\ edits' = edits /\ log' = log
    BY <1>8, TextRead
  <2>2. \A i, v : TextOf(log, i, v) => TextOf(log', i, v)  BY <2>1 DEF TextOf
  <2>3. q.post \in Posts  BY <1>t DEF TextSave
  <2>4. QED  BY <2>1, <2>2, <2>3 DEF TextOwn, TextOn
<1>9. ASSUME NEW q \in flight, Edit!Write(q) PROVE TextOwn'
  <2>1. PICK s \in TextSave :
          /\ TextOn(q, s) /\ s.snap = q.snap
          /\ flight' = (flight \ {q}) \union {s}
          /\ \A p \in Posts : p # q.post => db'[p] = db[p]
          /\ \A f \in Edit!Fields : db'[q.post][f] = IF q.edits[f] = Edit!None THEN q.snap[f] ELSE q.edits[f]
          /\ page' = page /\ edits' = edits /\ log' = log
    BY <1>9, TextWrite
  <2>2. \A i, v : TextOf(log, i, v) => TextOf(log', i, v)  BY <2>1 DEF TextOf
  <2>4. ~log.carried => \A p \in Posts, f \in Edit!Fields : TextOf(log', p, db'[p][f])  BY <2>1, <2>2 DEF TextOwn
  <2>5. QED  BY <2>1, <2>2, <2>4 DEF TextOwn, TextOn
<1>10. ASSUME NEW q \in flight, Edit!Commit(q) PROVE TextOwn'
  <2>1. /\ flight' = flight \ {q} /\ log'.typed = log.typed /\ log'.where = log.where /\ log'.carried = log.carried
        /\ db' = db /\ page' = page /\ edits' = edits
    BY <1>10, TextCommit
  <2>2. \A i, v : TextOf(log, i, v) => TextOf(log', i, v)  BY <2>1 DEF TextOf
  <2>3. QED  BY <2>1, <2>2 DEF TextOwn
<1>11. ASSUME NEW q \in flight, Edit!Refuse(q) \/ Edit!Lose(q) PROVE TextOwn'
  <2>1. /\ log'.typed = log.typed /\ log'.where = log.where /\ log'.carried = log.carried
        /\ db' = db /\ page' = page /\ edits' = edits
    BY <1>11, TextFails
  <2>2. \/ flight' = flight \ {q}
        \/ \E s \in TextSave : TextOn(q, s) /\ s.snap = q.snap /\ flight' = (flight \ {q}) \union {s}
    BY <1>11, TextFails
  <2>3. \A i, v : TextOf(log, i, v) => TextOf(log', i, v)  BY <2>1 DEF TextOf
  <2>4. \A s \in flight' : \E w \in flight : s.post = w.post /\ s.edits = w.edits /\ s.snap = w.snap
    BY <2>2 DEF TextOn
  <2>5. QED  BY <2>1, <2>3, <2>4 DEF TextOwn
<1>12. QED  BY <1>1, <1>2, <1>3, <1>4, <1>5, <1>6, <1>7, <1>8, <1>9, <1>10, <1>11, <1>13 DEF Edit!Next

LEMMA TextKeptKept == ASSUME TextTypes, TextLoads, TextOwn, TextKept, Edit!Next PROVE TextKept'
<1>t. /\ db \in [Posts -> Edit!Docs] /\ page \in TextPage /\ edits \in Edit!Edits
      /\ flight \subseteq TextSave /\ log \in TextLog /\ page.post \in Posts
      /\ page.text \in Edit!Values /\ page.old \in Edit!Values \union {Edit!Blank}
  BY DEF TextTypes, TextPage
<1>n. \A f \in Edit!Fields : Edit!Nothing[f] = Edit!None  BY DEF Edit!Nothing
<1>f. Edit!Fields = {"title", "content"} /\ "title" # "content"  BY DEF Edit!Fields
<1>v. /\ Edit!None \notin Edit!Values
      /\ log.typed < MaxTyped => log.typed + 1 # Edit!None
  BY <1>t, BoundsAssumption, PostsAssumption DEF Edit!Values, Edit!None, TextLog
<1>1. CASE Edit!TypeTitle
  <2>1. /\ page.text = page.old /\ page.loads = {} /\ page'.loads = page.loads
        /\ edits'["title"] = log.typed + 1 /\ edits'["content"] = edits["content"]
        /\ page'.post = page.post /\ page'.text = page'.old
        /\ log' = Edit!Typed("title") /\ log.typed < MaxTyped
        /\ db' = db /\ flight' = flight
    BY <1>1, TextTitle
  <2>2. /\ log'.meant["title"] = log.typed + 1 /\ log'.meant["content"] = log.meant["content"]
        /\ ~log'.raced => ~log.raced /\ flight = {}
        /\ log'.carried = log.carried
    BY <2>1, <1>t, <1>f, TextTyped
  <2>3. QED  BY <2>1, <2>2, <1>f, <1>v DEF TextKept
<1>2. CASE Edit!TypeText
  <2>1. /\ page.loads = {} /\ page'.post = page.post /\ page'.loads = page.loads /\ page'.shown = page.shown
        /\ page'.text = log.typed + 1 /\ page'.old = page.old
        /\ log' = Edit!Typed("content") /\ log.typed < MaxTyped
        /\ db' = db /\ edits' = edits /\ flight' = flight
    BY <1>2, TextText
  <2>2. /\ log'.meant["content"] = log.typed + 1 /\ log'.meant["title"] = log.meant["title"]
        /\ ~log'.raced => ~log.raced /\ flight = {}
        /\ log'.carried = log.carried /\ log.typed + 1 \in 1..MaxTyped
    BY <2>1, <1>t, <1>f, TextTyped
  <2>3. ~log.carried => log.typed + 1 # page.old /\ log.typed + 1 # page.shown["content"]
    <3>1. log.typed \in Nat  BY <1>t, BoundsAssumption DEF TextLog
    <3>2. log.typed + 1 # page.post  BY <1>t, <2>2, PostsAssumption, BoundsAssumption
    <3>3. log.typed + 1 # Edit!Blank /\ log.typed + 1 \notin 1..log.typed  BY <3>1 DEF Edit!Blank
    <3>4. QED  BY <3>2, <3>3, <1>f DEF TextOwn, TextOf
  <2>4. QED  BY <2>1, <2>2, <2>3, <1>f DEF TextKept
<1>3. CASE Edit!Blur
  <2>1. /\ page.loads = {} /\ page.text # page.old
        /\ edits' \in Edit!Edits /\ edits'["content"] = page.text /\ edits'["title"] = edits["title"]
        /\ page'.post = page.post /\ page'.text = page'.old /\ page'.loads = page.loads
        /\ flight' = flight \union {Edit!Request(edits', "none")}
        /\ log' = Edit!Sent /\ log.sent < MaxSaves /\ db' = db
    BY <1>3, TextBlur
  <2>2. /\ log'.meant = log.meant /\ log'.carried = log.carried
        /\ ~log'.raced => ~log.raced /\ flight = {}
    BY <2>1, <1>t, TextSent
  <2> DEFINE req == Edit!Request(edits', "none")
  <2>4. req.post = page.post /\ req.edits = edits' /\ req.step = "read"  BY <2>1, TextRequest
  <2>5. flight' = flight \union {req}  BY <2>1
  <2> HIDE DEF req
  <2>6. SUFFICES ASSUME ~log'.raced, ~log'.carried PROVE TextKept'  BY DEF TextKept
  <2>7. log.meant["content"] = page.text /\ page.text # Edit!None  BY <2>1, <2>2, <2>6, <1>v, <1>t DEF TextKept
  <2>8. log.meant["title"] = IF edits["title"] = Edit!None THEN db[page.post]["title"] ELSE edits["title"]
    BY <2>2, <2>6, <1>f DEF TextKept
  <2>9. \A q \in flight' : q = req  BY <2>2, <2>5, <2>6
  <2>10. QED  BY <2>1, <2>2, <2>4, <2>6, <2>7, <2>8, <2>9, <1>f DEF TextKept
<1>4. ASSUME NEW next \in {"none", "commit"}, Edit!Click(next) PROVE TextKept'
  <2>1. /\ log' = Edit!Sent /\ log.sent < MaxSaves /\ db' = db /\ page' = page /\ edits' = edits
        /\ page.loads = {} => page.text = page.old
    BY <1>4, TextClick
  <2>2. PICK new \in SUBSET TextSave :
          /\ flight' = flight \union new
          /\ \A q, s \in new : q = s
          /\ \A q \in new : q.post = page.post /\ q.edits = edits /\ q.ok = FALSE /\ q.step \in {"read", "commit"}
    BY <1>4, TextClick
  <2>3. /\ log'.meant = log.meant /\ log'.carried = log.carried
        /\ ~log'.raced => ~log.raced /\ flight = {} /\ \A l \in page.loads : ~l.read
    BY <2>1, <1>t, TextSent
  <2>4. SUFFICES ASSUME ~log'.raced, ~log'.carried PROVE TextKept'  BY DEF TextKept
  <2>5. flight' = new  BY <2>2, <2>3, <2>4
  <2>6. CASE page.text = page.old
    <3>1. \A f \in Edit!Fields :
             log.meant[f] = IF edits[f] = Edit!None THEN db[page.post][f] ELSE edits[f]
      BY <2>3, <2>4, <2>6 DEF TextKept
    <3>2. QED  BY <2>1, <2>2, <2>3, <2>5, <2>6, <3>1 DEF TextKept
  \* there is nothing to send for a page which is not drawn
  <2>7. CASE page.text # page.old
    <3>1. page.loads # {} /\ next = "none"  BY <1>4, <2>7 DEF Edit!Click
    <3>2. edits = Edit!Nothing  BY <2>3, <2>4, <2>7, <3>1 DEF TextKept
    <3>3. flight' = {}
      <4>1. flight' = flight \union Edit!Continue(Edit!Request(edits, next))  BY <1>4, <3>2 DEF Edit!Click
      <4>2. Edit!Request(edits, next).next = next  BY DEF Edit!Request
      <4>3. QED  BY <2>3, <2>4, <3>1, <4>1, <4>2 DEF Edit!Continue
    <3>4. QED  BY <2>1, <2>3, <2>4, <2>7, <3>2, <3>3 DEF TextKept
  <2>8. QED  BY <2>6, <2>7
<1>5. ASSUME NEW p \in Posts, Edit!Open(p) PROVE TextKept'
  <2>1. /\ page'.post = page.post /\ page'.text = page.text /\ page'.old = page.old /\ page'.shown = page.shown
        /\ log'.meant = log.meant /\ log'.raced = log.raced
        /\ ~log'.carried => ~log.carried /\ page.text \in {page.old, page.shown["content"]}
        /\ \E l \in Edit!Loads : page'.loads = page.loads \union {l} /\ ~l.read
        /\ db' = db /\ edits' = edits /\ flight' = flight
    BY <1>5, TextOpen
  <2>2. QED  BY <2>1 DEF TextKept
<1>13. ASSUME NEW l \in page.loads, Edit!Fetched(l) PROVE TextKept'
  <2>1. /\ page'.post = page.post /\ page'.text = page.text /\ page'.old = page.old /\ page'.shown = page.shown
        /\ log'.meant = log.meant /\ log'.carried = log.carried
        /\ ~log'.raced => ~log.raced /\ flight = {}
        /\ \E k \in Edit!Loads : page'.loads = (page.loads \ {l}) \union {k} /\ k.post = l.post /\ k.got = db[l.post]
        /\ db' = db /\ edits' = edits /\ flight' = flight
    BY <1>13, TextFetched
  <2>2. QED  BY <2>1 DEF TextKept
<1>6. ASSUME NEW l \in page.loads, Edit!Loaded(l) PROVE TextKept'
  <2>1. /\ l.read /\ page'.post = l.post /\ page'.text = l.got["content"] /\ page'.shown = l.got
        /\ page'.loads = page.loads \ {l} /\ log'.meant = l.got /\ log'.raced = log.raced
        /\ ~log'.carried => ~log.carried /\ edits = Edit!Nothing
        /\ db' = db /\ edits' = edits /\ flight' = flight
    BY <1>6, TextLoaded
  <2>2. ~log'.raced /\ ~log'.carried => flight = {} /\ l.got = db[l.post]  BY <2>1 DEF TextKept
  <2>3. QED  BY <2>1, <2>2, <1>n DEF TextKept
<1>7. ASSUME NEW q \in flight, Edit!Answer(q) PROVE TextKept'
  <2>1. /\ q.step = "answer"
        /\ flight' = (flight \ {q}) \union Edit!Continue(q)
        /\ q.ok => /\ page'.post = page.post /\ page'.loads = page.loads
                   /\ page'.shown["content"] = page.text => page'.text = page.text /\ page'.old = page.old
                   /\ page'.shown["content"] # page.text =>
                         page'.text = page'.shown["content"] /\ page'.old = page'.shown["content"]
                   /\ edits' = Edit!Nothing
        /\ ~q.ok => page' = page /\ edits' = edits
        /\ db' = db /\ log' = log
    BY <1>7, TextAnswer
  <2>2. SUFFICES ASSUME ~log.raced, ~log.carried PROVE TextKept'  BY <2>1 DEF TextKept
  <2>3. /\ \A s \in flight : s = q
        /\ q.post = page.post
        /\ page.text = page.old
        /\ \A l \in page.loads : ~l.read
        /\ q.ok => \A f \in Edit!Fields : edits[f] # Edit!None => db[page.post][f] = edits[f]
        /\ \A f \in Edit!Fields : log.meant[f] = IF edits[f] = Edit!None THEN db[page.post][f] ELSE edits[f]
    BY <2>1, <2>2 DEF TextKept
  <2>4. \A s \in flight' : s.step = "commit" /\ s.post = page.post  BY <2>1, <2>3, <1>t, TextContinue
  <2>5. \A s, w \in flight' : s = w  BY <2>1, <2>3 DEF Edit!Continue
  <2>6. CASE q.ok
    <3>1. page'.post = page.post /\ page'.text = page'.old /\ edits' = Edit!Nothing  BY <2>1, <2>3, <2>6
    <3>2. \A f \in Edit!Fields : log.meant[f] = db[page.post][f]  BY <2>3, <2>6
    <3>3. QED  BY <3>1, <3>2, <2>1, <2>4, <2>5, <1>n DEF TextKept
  <2>7. CASE ~q.ok
    <3>1. page' = page /\ edits' = edits  BY <2>1, <2>7
    <3>2. QED  BY <3>1, <2>1, <2>3, <2>4, <2>5 DEF TextKept
  <2>8. QED  BY <2>6, <2>7
<1>8. ASSUME NEW q \in flight, Edit!Read(q) PROVE TextKept'
  <2>1. PICK s \in TextSave :
          /\ q.step = "read" /\ TextOn(q, s) /\ s.ok = q.ok
          /\ flight' = (flight \ {q}) \union {s}
          /\ \/ /\ s.step = "answer"
                /\ \A f \in Edit!Fields : q.edits[f] # Edit!None => db[q.post][f] = q.edits[f]
             \/ s.step = "write" /\ s.snap = db[q.post]
          /\ db' = db /\ page' = page /\ edits' = edits /\ log' = log
    BY <1>8, TextRead
  <2>2. SUFFICES ASSUME ~log.raced, ~log.carried PROVE TextKept'  BY <2>1 DEF TextKept
  <2>3. /\ \A w \in flight : w = q
        /\ q.post = page.post /\ q.edits = edits
        /\ page.text = page.old
        /\ \A f \in Edit!Fields : log.meant[f] = IF edits[f] = Edit!None THEN db[page.post][f] ELSE edits[f]
    BY <2>1, <2>2 DEF TextKept
  <2>4. flight' = {s} /\ s.post = page.post /\ s.edits = edits  BY <2>1, <2>3 DEF TextOn
  <2>5. QED  BY <2>1, <2>3, <2>4 DEF TextKept
<1>9. ASSUME NEW q \in flight, Edit!Write(q) PROVE TextKept'
  <2>1. PICK s \in TextSave :
          /\ q.step = "write" /\ TextOn(q, s) /\ s.step = "answer"
          /\ flight' = (flight \ {q}) \union {s}
          /\ \A f \in Edit!Fields : db'[q.post][f] = IF q.edits[f] = Edit!None THEN q.snap[f] ELSE q.edits[f]
          /\ page' = page /\ edits' = edits /\ log' = log
    BY <1>9, TextWrite
  <2>2. SUFFICES ASSUME ~log.raced, ~log.carried PROVE TextKept'  BY <2>1 DEF TextKept
  <2>3. /\ \A w \in flight : w = q
        /\ q.post = page.post /\ q.edits = edits /\ q.snap = db[page.post]
        /\ page.text = page.old
        /\ \A f \in Edit!Fields : log.meant[f] = IF edits[f] = Edit!None THEN db[page.post][f] ELSE edits[f]
    BY <2>1, <2>2 DEF TextKept
  <2>4. flight' = {s} /\ s.post = page.post /\ s.edits = edits  BY <2>1, <2>3 DEF TextOn
  <2>5. \A f \in Edit!Fields : db'[page.post][f] = log.meant[f]  BY <2>1, <2>3
  <2>6. \A f \in Edit!Fields : edits[f] # Edit!None => db'[page.post][f] = edits[f]  BY <2>3, <2>5
  <2>7. QED  BY <2>1, <2>3, <2>4, <2>5, <2>6 DEF TextKept
<1>10. ASSUME NEW q \in flight, Edit!Commit(q) PROVE TextKept'
  <2>1. /\ flight' = flight \ {q} /\ log'.meant = log.meant /\ log'.carried = log.carried
        /\ log'.raced = log.raced /\ db' = db /\ page' = page /\ edits' = edits
    BY <1>10, TextCommit
  <2>2. QED  BY <2>1 DEF TextKept
<1>11. ASSUME NEW q \in flight, Edit!Refuse(q) \/ Edit!Lose(q) PROVE TextKept'
  <2>1. /\ log'.meant = log.meant /\ log'.carried = log.carried
        /\ log'.raced = log.raced /\ db' = db /\ page' = page /\ edits' = edits
    BY <1>11, TextFails
  <2>2. \/ flight' = flight \ {q}
        \/ \E s \in TextSave : /\ q.step = "read" /\ TextOn(q, s) /\ s.ok = q.ok /\ s.step = "answer"
                               /\ flight' = (flight \ {q}) \union {s}
    BY <1>11, TextFails
  <2>3. CASE flight' = flight \ {q}  BY <2>1, <2>3 DEF TextKept
  <2>4. CASE flight' # flight \ {q}
    <3>1. PICK s \in TextSave : /\ q.step = "read" /\ TextOn(q, s) /\ s.ok = q.ok /\ s.step = "answer"
                                /\ flight' = (flight \ {q}) \union {s}
      BY <2>2, <2>4
    <3>2. ~s.ok  BY <3>1 DEF TextLoads
    <3>3. QED  BY <3>1, <3>2, <2>1 DEF TextKept, TextOn
  <2>5. QED  BY <2>3, <2>4
<1>12. QED  BY <1>1, <1>2, <1>3, <1>4, <1>5, <1>6, <1>7, <1>8, <1>9, <1>10, <1>11, <1>13 DEF Edit!Next

LEMMA TextLiveKept == ASSUME TextTypes, TextLoads, TextKept, TextLive, Edit!Next PROVE TextLive'
<1>t. /\ db \in [Posts -> Edit!Docs] /\ page \in TextPage /\ edits \in Edit!Edits
      /\ flight \subseteq TextSave /\ log \in TextLog /\ page.post \in Posts
      /\ page.shown \in Edit!Docs /\ log.meant \in Edit!Docs
  BY DEF TextTypes, TextPage, TextLog
<1>n. \A f \in Edit!Fields : Edit!Nothing[f] = Edit!None  BY DEF Edit!Nothing
<1>f. Edit!Fields = {"title", "content"} /\ "title" # "content"  BY DEF Edit!Fields
<1>d. \A d, e \in Edit!Docs : (\A f \in Edit!Fields : d[f] = e[f]) => d = e  BY DEF Edit!Docs
\* when nothing is in flight and the text editor was left, the page is as it is stored but for the title
<1>a. ~log.raced /\ ~log.failed /\ ~log.carried /\ flight = {} =>
        /\ page.shown["content"] = db[page.post]["content"]
        /\ edits["content"] \in {Edit!None, db[page.post]["content"]}
        /\ page.text = page.old => page.shown["content"] = page.text
  BY <1>f DEF TextKept, TextLive
<1>1. CASE Edit!TypeTitle
  <2>1. /\ page.text = page.old /\ edits'["content"] = edits["content"]
        /\ page'.post = page.post
        /\ page'.shown["title"] = log.typed + 1 /\ page'.shown["content"] = page.shown["content"]
        /\ page.shown["content"] = page.text => page'.text = page.text
        /\ log' = Edit!Typed("title") /\ log.typed < MaxTyped
        /\ db' = db /\ flight' = flight
    BY <1>1, TextTitle
  <2>2. /\ log'.meant["title"] = log.typed + 1 /\ log'.meant["content"] = log.meant["content"]
        /\ ~log'.raced => ~log.raced /\ flight = {}
        /\ log'.carried = log.carried /\ log'.failed = log.failed /\ log'.live = log.live
    BY <2>1, <1>t, <1>f, TextTyped
  <2>3. QED  BY <2>1, <2>2, <1>a DEF TextLive
<1>2. CASE Edit!TypeText
  <2>1. /\ page'.post = page.post /\ page'.shown = page.shown
        /\ page'.text = log.typed + 1
        /\ log' = Edit!Typed("content") /\ log.typed < MaxTyped
        /\ db' = db /\ edits' = edits /\ flight' = flight
    BY <1>2, TextText
  <2>2. /\ log'.meant["content"] = log.typed + 1 /\ log'.meant["title"] = log.meant["title"]
        /\ ~log'.raced => ~log.raced /\ flight = {}
        /\ log'.carried = log.carried /\ log'.failed = log.failed /\ log'.live = log.live
    BY <2>1, <1>t, <1>f, TextTyped
  <2>3. QED  BY <2>1, <2>2, <1>a DEF TextLive
<1>3. CASE Edit!Blur
  <2>1. /\ edits' \in Edit!Edits
        /\ page'.post = page.post /\ page'.shown = page.shown /\ page'.text = page.text
        /\ flight' = flight \union {Edit!Request(edits', "none")}
        /\ log' = Edit!Sent /\ log.sent < MaxSaves /\ db' = db
    BY <1>3, TextBlur
  <2>2. /\ log'.meant = log.meant /\ log'.carried = log.carried
        /\ log'.failed = log.failed /\ log'.live = log.live
        /\ ~log'.raced => ~log.raced /\ flight = {}
    BY <2>1, <1>t, TextSent
  <2> DEFINE req == Edit!Request(edits', "none")
  <2>4. req.next = "none" /\ req.step = "read"  BY <2>1, TextRequest
  <2>5. flight' = flight \union {req}  BY <2>1
  <2> HIDE DEF req
  <2>6. QED  BY <2>1, <2>2, <2>4, <2>5, <1>a DEF TextLive
<1>4. ASSUME NEW next \in {"none", "commit"}, Edit!Click(next) PROVE TextLive'
  <2>1. log' = Edit!Sent /\ log.sent < MaxSaves /\ db' = db /\ page' = page /\ edits' = edits  BY <1>4, TextClick
  <2>2. PICK new \in SUBSET TextSave :
          /\ flight' = flight \union new
          /\ \A q \in new :
                /\ q.step = "read" \/ (q.step = "commit" /\ edits = Edit!Nothing)
                /\ q.wanted["title"] = page.shown["title"] /\ q.wanted["content"] = page.text
    BY <1>4, TextClick
  <2>3. /\ log'.meant = log.meant /\ log'.carried = log.carried
        /\ log'.failed = log.failed /\ log'.live = log.live
        /\ ~log'.raced => ~log.raced /\ flight = {}
    BY <2>1, <1>t, TextSent
  <2>4. SUFFICES ASSUME ~log'.raced, ~log'.failed, ~log'.carried PROVE TextLive'  BY DEF TextLive
  <2>5. flight' = new  BY <2>2, <2>3, <2>4
  <2>6. page.text = log.meant["content"] /\ page.shown["title"] = log.meant["title"] /\ log.live.got = log.live.wanted
    BY <2>3, <2>4 DEF TextLive
  <2>7. \A q \in new : q.wanted = log.meant
    <3>1. \A q \in new : q.wanted \in Edit!Docs /\ \A f \in Edit!Fields : q.wanted[f] = log.meant[f]
      BY <2>2, <2>6, <1>f DEF TextSave
    <3>2. QED  BY <3>1, <1>d, <1>t
  <2>8. \A q \in new : q.step = "commit" => TextStored'
    BY <2>1, <2>2, <1>n DEF TextStored
  <2>9. QED  BY <2>1, <2>2, <2>3, <2>4, <2>5, <2>6, <2>7, <2>8, <1>a DEF TextLive
<1>5. ASSUME NEW p \in Posts, Edit!Open(p) PROVE TextLive'
  <2>1. /\ page'.post = page.post /\ page'.text = page.text /\ page'.shown = page.shown
        /\ log'.meant = log.meant /\ log'.raced = log.raced /\ log'.failed = log.failed /\ log'.live = log.live
        /\ ~log'.carried => ~log.carried
        /\ db' = db /\ edits' = edits /\ flight' = flight
    BY <1>5, TextOpen
  <2>2. QED  BY <2>1 DEF TextLive, TextStored
<1>13. ASSUME NEW l \in page.loads, Edit!Fetched(l) PROVE TextLive'
  <2>1. /\ page'.post = page.post /\ page'.text = page.text /\ page'.shown = page.shown
        /\ log'.meant = log.meant /\ log'.failed = log.failed /\ log'.live = log.live
        /\ log'.carried = log.carried /\ (~log'.raced => ~log.raced)
        /\ db' = db /\ edits' = edits /\ flight' = flight
    BY <1>13, TextFetched
  <2>2. QED  BY <2>1 DEF TextLive, TextStored
<1>6. ASSUME NEW l \in page.loads, Edit!Loaded(l) PROVE TextLive'
  <2>1. /\ l.read /\ page'.post = l.post /\ page'.shown = l.got /\ page'.text = l.got["content"]
        /\ log'.meant = l.got /\ log'.failed = log.failed /\ log'.live = log.live /\ log'.raced = log.raced
        /\ ~log'.carried => ~log.carried /\ edits = Edit!Nothing
        /\ db' = db /\ edits' = edits /\ flight' = flight
    BY <1>6, TextLoaded
  <2>2. ~log'.raced /\ ~log'.carried => flight = {} /\ l.got = db[l.post]  BY <2>1 DEF TextKept
  <2>3. QED  BY <2>1, <2>2, <1>n, <1>f DEF TextLive
<1>7. ASSUME NEW q \in flight, Edit!Answer(q) PROVE TextLive'
  <2>1. /\ q.step = "answer"
        /\ flight' = (flight \ {q}) \union Edit!Continue(q)
        /\ q.ok => /\ page'.post = page.post
                   /\ \A f \in Edit!Fields :
                         page'.shown[f] = IF edits[f] = Edit!None THEN page.shown[f] ELSE edits[f]
                   /\ page'.shown["content"] = page.text => page'.text = page.text
                   /\ edits' = Edit!Nothing
        /\ ~q.ok => page' = page /\ edits' = edits
        /\ db' = db /\ log' = log
    BY <1>7, TextAnswer
  <2>2. SUFFICES ASSUME ~log.raced, ~log.failed, ~log.carried PROVE TextLive'  BY <2>1 DEF TextLive
  <2>3. /\ \A s \in flight : s = q
        /\ page.text = page.old
        /\ q.ok => \A f \in Edit!Fields : edits[f] # Edit!None => db[page.post][f] = edits[f]
        /\ \A f \in Edit!Fields : log.meant[f] = IF edits[f] = Edit!None THEN db[page.post][f] ELSE edits[f]
    BY <2>1, <2>2 DEF TextKept
  <2>4. /\ page.text = log.meant["content"] /\ page.shown["title"] = log.meant["title"]
        /\ log.live.got = log.live.wanted
        /\ page.shown["content"] = db[page.post]["content"] \/ (q.ok /\ edits["content"] # Edit!None)
        /\ edits["content"] \in {Edit!None, db[page.post]["content"]}
        /\ ~q.ok => TextStored
        /\ q.next = "commit" => q.wanted = log.meant
    BY <2>1, <2>2, <2>3 DEF TextLive
  <2>5. \A s \in flight' : s.step = "commit" /\ s.wanted = log.meant
    BY <2>1, <2>3, <2>4, <1>t, TextContinue
  <2>6. CASE q.ok
    <3>1. page'.shown["title"] = log.meant["title"] /\ page'.shown["content"] = log.meant["content"]
      BY <2>1, <2>3, <2>4, <2>6, <1>f
    <3>2. page'.text = log.meant["content"]  BY <3>1, <2>1, <2>4, <2>6
    <3>3. log.meant["content"] = db[page.post]["content"]  BY <2>3, <2>6, <1>f
    <3>4. TextStored' /\ edits'["content"] = Edit!None  BY <2>1, <2>6, <1>n, <1>f DEF TextStored
    <3>5. page'.post = page.post  BY <2>1, <2>6
    <3>6. QED  BY <3>1, <3>2, <3>3, <3>4, <3>5, <2>1, <2>4, <2>5 DEF TextLive
  <2>7. CASE ~q.ok
    <3>1. page' = page /\ edits' = edits  BY <2>1, <2>7
    <3>2. TextStored'  BY <3>1, <2>1, <2>4, <2>7 DEF TextStored
    <3>3. QED  BY <3>1, <3>2, <2>1, <2>4, <2>5, <2>7 DEF TextLive
  <2>8. QED  BY <2>6, <2>7
<1>8. ASSUME NEW q \in flight, Edit!Read(q) PROVE TextLive'
  <2>1. PICK s \in TextSave :
          /\ q.step = "read" /\ TextOn(q, s) /\ s.ok = q.ok
          /\ flight' = (flight \ {q}) \union {s}
          /\ \/ /\ s.step = "answer"
                /\ \A f \in Edit!Fields : q.edits[f] # Edit!None => db[q.post][f] = q.edits[f]
             \/ s.step = "write" /\ s.snap = db[q.post]
          /\ db' = db /\ page' = page /\ edits' = edits /\ log' = log
    BY <1>8, TextRead
  <2>2. SUFFICES ASSUME ~log.raced, ~log.failed, ~log.carried PROVE TextLive'  BY <2>1 DEF TextLive
  <2>3. (\A w \in flight : w = q) /\ q.post = page.post /\ q.edits = edits
    BY <2>1, <2>2 DEF TextKept
  <2>4. /\ page.text = log.meant["content"] /\ page.shown["title"] = log.meant["title"]
        /\ log.live.got = log.live.wanted
        /\ page.shown["content"] = db[page.post]["content"]
        /\ q.next = "commit" => q.wanted = log.meant
    BY <2>1, <2>2, <2>3 DEF TextLive
  <2>5. flight' = {s} /\ (s.next = "commit" => s.wanted = log.meant)  BY <2>1, <2>3, <2>4 DEF TextOn
  <2>6. CASE s.step = "answer"
    <3>1. TextStored  BY <2>1, <2>3, <2>6 DEF TextStored
    <3>2. TextStored' /\ edits["content"] \in {Edit!None, db[page.post]["content"]}
      BY <3>1, <2>1, <1>f DEF TextStored
    <3>3. QED  BY <3>2, <2>1, <2>4, <2>5 DEF TextLive
  <2>7. CASE s.step = "write"  BY <2>1, <2>4, <2>5, <2>7 DEF TextLive
  <2>8. QED  BY <2>1, <2>6, <2>7
<1>9. ASSUME NEW q \in flight, Edit!Write(q) PROVE TextLive'
  <2>1. PICK s \in TextSave :
          /\ q.step = "write" /\ TextOn(q, s) /\ s.ok /\ s.step = "answer"
          /\ flight' = (flight \ {q}) \union {s}
          /\ \A f \in Edit!Fields : db'[q.post][f] = IF q.edits[f] = Edit!None THEN q.snap[f] ELSE q.edits[f]
          /\ page' = page /\ edits' = edits /\ log' = log
    BY <1>9, TextWrite
  <2>2. SUFFICES ASSUME ~log.raced, ~log.failed, ~log.carried PROVE TextLive'  BY <2>1 DEF TextLive
  <2>3. (\A w \in flight : w = q) /\ q.post = page.post /\ q.edits = edits /\ q.snap = db[page.post]
    BY <2>1, <2>2 DEF TextKept
  <2>4. /\ page.text = log.meant["content"] /\ page.shown["title"] = log.meant["title"]
        /\ log.live.got = log.live.wanted
        /\ page.shown["content"] = db[page.post]["content"]
        /\ q.next = "commit" => q.wanted = log.meant
    BY <2>1, <2>2, <2>3 DEF TextLive
  <2>5. flight' = {s} /\ (s.next = "commit" => s.wanted = log.meant)  BY <2>1, <2>3, <2>4 DEF TextOn
  <2>6. db'[page.post]["content"] =
           IF edits["content"] = Edit!None THEN db[page.post]["content"] ELSE edits["content"]
    BY <2>1, <2>3, <1>f
  <2>7. QED  BY <2>1, <2>4, <2>5, <2>6 DEF TextLive
<1>10. ASSUME NEW q \in flight, Edit!Commit(q) PROVE TextLive'
  <2>1. /\ q.step = "commit" /\ flight' = flight \ {q} /\ log'.meant = log.meant /\ log'.carried = log.carried
        /\ log'.raced = log.raced /\ log'.failed = log.failed
        /\ log'.live.got = db[q.post] /\ log'.live.wanted = q.wanted
        /\ db' = db /\ page' = page /\ edits' = edits
    BY <1>10, TextCommit
  <2>2. SUFFICES ASSUME ~log.raced, ~log.failed, ~log.carried PROVE TextLive'  BY <2>1 DEF TextLive
  <2>3. /\ \A w \in flight : w = q
        /\ q.post = page.post /\ page.text = page.old
        /\ \A f \in Edit!Fields : log.meant[f] = IF edits[f] = Edit!None THEN db[page.post][f] ELSE edits[f]
    BY <2>2 DEF TextKept
  <2>4. /\ page.text = log.meant["content"] /\ page.shown["title"] = log.meant["title"]
        /\ page.shown["content"] = db[page.post]["content"]
        /\ edits["content"] \in {Edit!None, db[page.post]["content"]}
        /\ TextStored /\ q.wanted = log.meant
    BY <2>1, <2>2, <2>3 DEF TextLive, TextLoads
  <2>5. db[q.post] = log.meant
    <3>1. \A f \in Edit!Fields : db[page.post][f] = log.meant[f]  BY <2>3, <2>4 DEF TextStored
    <3>2. QED  BY <3>1, <2>3, <1>d, <1>t
  <2>6. flight' = {}  BY <2>1, <2>3
  <2>7. QED  BY <2>1, <2>4, <2>5, <2>6 DEF TextLive
<1>11. ASSUME NEW q \in flight, Edit!Refuse(q) \/ Edit!Lose(q) PROVE TextLive'
  <2>1. log'.failed  BY <1>11, TextFails
  <2>2. QED  BY <2>1 DEF TextLive
<1>12. QED  BY <1>1, <1>2, <1>3, <1>4, <1>5, <1>6, <1>7, <1>8, <1>9, <1>10, <1>11, <1>13 DEF Edit!Next

LEMMA TextStepKept == ASSUME TextInv, Edit!Next PROVE TextInv'
<1>1. TextTypes' /\ TextLoads'  BY TextTypesKept DEF TextInv
<1>2. TextOwn'  BY TextOwnKept DEF TextInv
<1>3. TextKept'  BY TextKeptKept DEF TextInv
<1>4. TextLive'  BY TextLiveKept DEF TextInv
<1>5. QED  BY <1>1, <1>2, <1>3, <1>4 DEF TextInv

-----------------------------------------------------------------------------
(* Short links *)

\* numbers have a smallest one
LEMMA Smallest ==
    ASSUME NEW I \in SUBSET Nat, I # {}
    PROVE  \E x \in I : \A y \in I : x <= y
<1>1. PICK x \in I : \A y \in I : <<y, x>> \notin OpToRel(<, Nat)
  BY WFMin, NatLessThanWellFounded, Zenon
<1>2. \A y \in I : ~ (y < x)
  BY <1>1, Zenon DEF OpToRel
<1>. QED BY <1>2

\* the highest of some numbers, none when there are none
Highest(H, t) == \/ H = {} /\ t = 0
                 \/ t \in H /\ \A h \in H : h <= t

LEMMA SomeHighest ==
    ASSUME NEW H \in SUBSET Nat, NEW b \in Nat, \A h \in H : h <= b
    PROVE  \E t \in Nat : Highest(H, t) /\ t <= b
<1>. DEFINE above == {n \in Nat : \A h \in H : h <= n}
<1>1. above \in SUBSET Nat /\ b \in above
  OBVIOUS
<1>2. PICK t \in above : \A n \in above : t <= n
  <2>. HIDE DEF above
  <2>. QED BY <1>1, Smallest
<1>3. t \in Nat /\ t <= b /\ \A h \in H : h <= t
  BY <1>1, <1>2
<1>4. CASE t \in H
  BY <1>3, <1>4 DEF Highest
<1>5. CASE t \notin H /\ t # 0
  <2>1. t - 1 \in Nat /\ \A h \in H : h <= t - 1
    BY <1>3, <1>5
  <2>2. t <= t - 1
    BY <1>2, <2>1
  <2>. QED BY <1>3, <2>2
<1>6. CASE t \notin H /\ t = 0
  <2>1. H = {}
    BY <1>3, <1>6
  <2>. QED BY <1>3, <1>6, <2>1 DEF Highest
<1>. QED BY <1>4, <1>5, <1>6

\* the next hash is above all there are
LEMMA NestAbove ==
    ASSUME NEW s, NEW t \in Nat, Link!HashesOf(s) \subseteq Nat, Highest(Link!HashesOf(s), t)
    PROVE  Link!NestHash(s) = t + 1
<1>1. CASE Link!HashesOf(s) = {}
  BY <1>1 DEF Highest, Link!NestHash
<1>2. CASE Link!HashesOf(s) # {}
  <2>. DEFINE H == Link!HashesOf(s)
  <2>1. t \in H /\ \A h \in H : t >= h
    BY <1>2 DEF Highest
  <2>2. PICK m : m = Link!Max(H)
    OBVIOUS
  <2>3. m \in H /\ \A h \in H : m >= h
    <3>. HIDE DEF H
    <3>. QED BY <2>1, <2>2 DEF Link!Max
  <2>4. H \subseteq Nat
    OBVIOUS
  <2>. HIDE DEF H
  <2>5. m \in Nat /\ m >= t /\ t >= m
    BY <2>1, <2>3, <2>4
  <2>6. m = t
    BY <2>5
  <2>. QED BY <1>2, <2>2, <2>6 DEF Link!NestHash, H
<1>. QED BY <1>1, <1>2

LinkVersion == [hash : Link!Hashes \union {Link!None}, dest : Link!Dests]

\* the first p versions have hashes, no two the same, and low enough for the others to get theirs
Numbered(s, p, n) ==
    /\ s \in Seq(LinkVersion) /\ p \in 0..Len(s) /\ Len(s) <= n
    /\ \A i \in 1..p : s[i].hash \in 1..(n - (Len(s) - p))
    /\ \A i \in (p + 1)..Len(s) : s[i].hash = Link!None
    /\ \A i, j \in 1..p : s[i].hash = s[j].hash => i = j

Whole(s, n) == Numbered(s, Len(s), n)

LEMMA LinkSeq ==
    ASSUME NEW s \in Seq(LinkVersion)
    PROVE  /\ Len(s) \in Nat /\ DOMAIN s = 1..Len(s)
           /\ \A i \in 1..Len(s) : /\ s[i] \in LinkVersion /\ s[i].hash \in Link!Hashes \union {Link!None}
                                   /\ s[i].dest \in Link!Dests /\ s[i] = [hash |-> s[i].hash, dest |-> s[i].dest]
<1>1. Len(s) \in Nat /\ DOMAIN s = 1..Len(s) /\ \A i \in 1..Len(s) : s[i] \in LinkVersion
  BY LenProperties
<1>. QED BY <1>1 DEF LinkVersion

\* there is room for more
LEMMA NumberedMore ==
    ASSUME NEW s, NEW p, NEW n \in Nat, Numbered(s, p, n)
    PROVE  Numbered(s, p, n + 1)
<1>1. Len(s) \in Nat
  BY LinkSeq DEF Numbered
<1>2. \A i \in 1..p : s[i].hash \in 1..(n - (Len(s) - p)) => s[i].hash \in 1..(n + 1 - (Len(s) - p))
  BY <1>1 DEF Numbered
<1>. QED BY <1>1, <1>2 DEF Numbered

\* a version is added, which has no hash yet
LEMMA NumberedAppend ==
    ASSUME NEW s, NEW p, NEW n \in Nat, Numbered(s, p, n), NEW d \in Link!Dests
    PROVE  Numbered(Append(s, [hash |-> Link!None, dest |-> d]), p, n + 1)
<1>. DEFINE v == [hash |-> Link!None, dest |-> d]
            t == Append(s, v)
<1>1. Len(s) \in Nat /\ s \in Seq(LinkVersion) /\ p \in 0..Len(s)
  BY LinkSeq DEF Numbered
<1>2. v \in LinkVersion /\ v.hash = Link!None
  BY DEF LinkVersion
<1>3. t \in Seq(LinkVersion) /\ Len(t) = Len(s) + 1 /\ t[Len(s) + 1] = v /\ \A i \in 1..Len(s) : t[i] = s[i]
  <2>. HIDE DEF v
  <2>. QED BY <1>1, <1>2, AppendProperties
<1>. HIDE DEF t, v
<1>4. \A i \in 1..p : i \in 1..Len(s) /\ t[i] = s[i]
  BY <1>1, <1>3
<1>5. \A i \in (p + 1)..Len(t) : i = Len(s) + 1 \/ i \in (p + 1)..Len(s)
  BY <1>1, <1>3
<1>6. \A i \in (p + 1)..Len(s) : i \in 1..Len(s)
  BY <1>1
<1>7. n + 1 - (Len(t) - p) = n - (Len(s) - p) /\ p \in 0..Len(t) /\ Len(t) <= n + 1
  BY <1>1, <1>3 DEF Numbered
<1>. QED BY <1>2, <1>3, <1>4, <1>5, <1>6, <1>7 DEF Numbered, t, v

\* a version is sent elsewhere
LEMMA NumberedChange ==
    ASSUME NEW s, NEW p, NEW n \in Nat, Numbered(s, p, n), NEW d \in Link!Dests, NEW k \in DOMAIN s
    PROVE  /\ Numbered([s EXCEPT ![k].dest = d], p, n)
           /\ Len([s EXCEPT ![k].dest = d]) = Len(s)
           /\ \A i \in DOMAIN s : [s EXCEPT ![k].dest = d][i].hash = s[i].hash
<1>. DEFINE t == [s EXCEPT ![k].dest = d]
<1>1. s \in Seq(LinkVersion) /\ Len(s) \in Nat /\ DOMAIN s = 1..Len(s) /\ k \in 1..Len(s)
  BY LinkSeq DEF Numbered
<1>2. t = [s EXCEPT ![k] = [s[k] EXCEPT !.dest = d]] /\ [s[k] EXCEPT !.dest = d] \in LinkVersion
      /\ [s[k] EXCEPT !.dest = d].hash = s[k].hash
  BY <1>1, LinkSeq DEF LinkVersion
<1>3. t \in Seq(LinkVersion) /\ Len(t) = Len(s) /\ \A i \in 1..Len(s) : t[i].hash = s[i].hash
  <2>. DEFINE e == [s[k] EXCEPT !.dest = d]
  <2>1. e \in LinkVersion /\ e.hash = s[k].hash /\ t = [s EXCEPT ![k] = e]
    BY <1>2
  <2>. HIDE DEF e, t
  <2>2. t \in Seq(LinkVersion) /\ Len(t) = Len(s)
    BY <1>1, <2>1, ExceptSeq
  <2>. QED BY <1>1, <2>1, <2>2
<1>. HIDE DEF t
<1>4. \A i \in 1..Len(s) : t[i].hash = s[i].hash
  BY <1>3
<1>5. \A i \in 1..p : i \in 1..Len(s)
  BY <1>1 DEF Numbered
<1>6. \A i \in (p + 1)..Len(s) : i \in 1..Len(s)
  BY <1>1 DEF Numbered
<1>7. Numbered(t, p, n)
  BY <1>3, <1>4, <1>5, <1>6 DEF Numbered
<1>. QED BY <1>1, <1>3, <1>7 DEF t

\* a version is removed
LEMMA NumberedRemove ==
    ASSUME NEW s, NEW p, NEW n \in Nat, Numbered(s, p, n), NEW k \in DOMAIN s
    PROVE  LET t == Link!RemoveAt(s, k) IN
             /\ Numbered(t, IF k <= p THEN p - 1 ELSE p, n)
             /\ Len(t) = Len(s) - 1
             /\ \A i \in 1..(Len(s) - 1) : t[i] = IF i < k THEN s[i] ELSE s[i + 1]
<1>. DEFINE L == Len(s)
            t == Link!RemoveAt(s, k)
            q == IF k <= p THEN p - 1 ELSE p
<1>1. s \in Seq(LinkVersion) /\ L \in Nat /\ DOMAIN s = 1..L /\ k \in 1..L /\ p \in 0..L
  BY LinkSeq DEF Numbered
<1>2. t = SubSeq(s, 1, k - 1) \o SubSeq(s, k + 1, L)
  BY DEF Link!RemoveAt
<1>3. /\ SubSeq(s, 1, k - 1) \in Seq(LinkVersion) /\ Len(SubSeq(s, 1, k - 1)) = k - 1
      /\ \A i \in 1..(k - 1) : SubSeq(s, 1, k - 1)[i] = s[i]
  <2>1. k - 1 \in Nat /\ 1 \in Nat /\ (1..(k - 1)) \subseteq 1..L
    BY <1>1
  <2>. QED BY <1>1, <2>1, SubSeqProperties
<1>4. /\ SubSeq(s, k + 1, L) \in Seq(LinkVersion) /\ Len(SubSeq(s, k + 1, L)) = L - k
      /\ \A i \in 1..(L - k) : SubSeq(s, k + 1, L)[i] = s[k + i]
  <2>1. k + 1 \in Nat /\ ((k + 1)..L) \subseteq 1..L
    BY <1>1
  <2>2. SubSeq(s, k + 1, L) \in Seq(LinkVersion)
    BY <1>1, <2>1, SubSeqProperties
  <2>3. Len(SubSeq(s, k + 1, L)) = L - k
    BY <1>1, <2>1, SubSeqProperties
  <2>4. ASSUME NEW i \in 1..(L - k) PROVE SubSeq(s, k + 1, L)[i] = s[k + i]
    <3>1. SubSeq(s, k + 1, L)[i] = s[k + 1 + i - 1]
      BY <1>1, <2>1, SubSeqProperties
    <3>. QED BY <1>1, <3>1
  <2>. QED BY <2>2, <2>3, <2>4
<1>5. t \in Seq(LinkVersion) /\ Len(t) = L - 1 /\ \A i \in 1..(L - 1) : t[i] = IF i < k THEN s[i] ELSE s[i + 1]
  <2>. DEFINE a == SubSeq(s, 1, k - 1)
              b == SubSeq(s, k + 1, L)
  <2>0. t = a \o b /\ a \in Seq(LinkVersion) /\ b \in Seq(LinkVersion) /\ Len(a) = k - 1 /\ Len(b) = L - k
        /\ (\A i \in 1..(k - 1) : a[i] = s[i]) /\ (\A i \in 1..(L - k) : b[i] = s[k + i])
    BY <1>2, <1>3, <1>4
  <2>. HIDE DEF a, b, t
  <2>1. t \in Seq(LinkVersion) /\ Len(t) = L - 1
    <3>1. a \o b \in Seq(LinkVersion) /\ Len(a \o b) = Len(a) + Len(b)
      BY <2>0, ConcatProperties
    <3>. QED BY <1>1, <2>0, <3>1
  <2>2. ASSUME NEW i \in 1..(L - 1) PROVE t[i] = IF i < k THEN s[i] ELSE s[i + 1]
    <3>1. t[i] = IF i <= Len(a) THEN a[i] ELSE b[i - Len(a)]
      <4>1. i \in 1..(Len(a) + Len(b))
        BY <1>1, <2>0
      <4>. QED BY <2>0, <4>1, ConcatProperties
    <3>2. CASE i < k
      BY <1>1, <2>0, <3>1, <3>2
    <3>3. CASE ~(i < k)
      <4>1. i - (k - 1) \in 1..(L - k) /\ k + (i - (k - 1)) = i + 1 /\ ~(i <= k - 1)
        BY <1>1, <3>3
      <4>. QED BY <2>0, <3>1, <3>3, <4>1
    <3>. QED BY <3>2, <3>3
  <2>. QED BY <2>1, <2>2
<1>. HIDE DEF t
<1>. DEFINE From(i) == IF i < k THEN i ELSE i + 1
<1>6. \A i \in 1..(L - 1) : From(i) \in 1..L /\ t[i] = s[From(i)]
  BY <1>1, <1>5
<1>7. /\ q \in 0..(L - 1) /\ n - (L - 1 - q) >= n - (L - p) /\ n - (L - p) \in Int /\ n - (L - 1 - q) \in Int
      /\ \A i \in 1..q : i \in 1..(L - 1) /\ From(i) \in 1..p
      /\ \A i \in (q + 1)..(L - 1) : i \in 1..(L - 1) /\ From(i) \in (p + 1)..L
      /\ \A i, j \in 1..q : From(i) = From(j) => i = j
  BY <1>1
<1>. HIDE DEF From, q
<1>8. \A i \in 1..q : t[i].hash \in 1..(n - (L - 1 - q))
  <2>1. ASSUME NEW i \in 1..q PROVE t[i].hash \in 1..(n - (L - 1 - q))
    <3>1. t[i] = s[From(i)] /\ s[From(i)].hash \in 1..(n - (L - p))
      BY <1>6, <1>7 DEF Numbered
    <3>. QED BY <1>7, <3>1
  <2>. QED BY <2>1
<1>9. \A i \in (q + 1)..(L - 1) : t[i].hash = Link!None
  BY <1>6, <1>7 DEF Numbered
<1>10. \A i, j \in 1..q : t[i].hash = t[j].hash => i = j
  BY <1>6, <1>7 DEF Numbered
<1>11. Numbered(t, q, n)
  <2>1. q \in 0..Len(t) /\ Len(t) <= n
    <3>1. Len(s) <= n
      BY DEF Numbered
    <3>. QED BY <1>1, <1>5, <1>7, <3>1
  <2>. QED BY <1>5, <1>8, <1>9, <1>10, <2>1 DEF Numbered
<1>. QED BY <1>5, <1>11 DEF t, q

\* what the versions without a hash get: the next numbers, one after the other
Filled(s, p, t, n) ==
    [i \in 1..Len(s) |-> IF p < i /\ i <= n THEN [s[i] EXCEPT !.hash = t + (i - p)] ELSE s[i]]

\* the highest hash after n of them
LEMMA FilledHighest ==
    ASSUME NEW s, NEW p, NEW m \in Nat, Numbered(s, p, m), NEW t \in Nat, Highest(Link!HashesOf(s), t),
           NEW n \in 0..Len(s)
    PROVE  LET now == IF n <= p THEN t ELSE t + (n - p) IN
             /\ Link!HashesOf(Filled(s, p, t, n)) \subseteq Nat
             /\ Highest(Link!HashesOf(Filled(s, p, t, n)), now)
<1>. DEFINE L == Len(s)
            f == Filled(s, p, t, n)
            H == Link!HashesOf(s)
            now == IF n <= p THEN t ELSE t + (n - p)
<1>1. L \in Nat /\ DOMAIN s = 1..L /\ p \in 0..L /\ n \in 0..L /\ s \in Seq(LinkVersion)
  BY LinkSeq DEF Numbered
<1>2. \A i \in 1..L : s[i] = [hash |-> s[i].hash, dest |-> s[i].dest]
  BY <1>1, LinkSeq
<1>3. \A i \in 1..L : f[i].hash = IF p < i /\ i <= n THEN t + (i - p) ELSE s[i].hash
  BY <1>1, <1>2 DEF Filled
<1>4. DOMAIN f = 1..L
  BY DEF Filled
<1>. HIDE DEF f
<1>5. \A i \in 1..p : i \in 1..L /\ s[i].hash \in Nat /\ s[i].hash # 0
  BY <1>1 DEF Numbered
<1>6. \A i \in (p + 1)..L : s[i].hash = 0
  BY DEF Numbered, Link!None
<1>7. H = {s[i].hash : i \in 1..p}
  <2>1. \A i \in 1..L : i \in 1..p \/ i \in (p + 1)..L
    BY <1>1
  <2>. QED BY <1>1, <1>5, <1>6, <2>1 DEF Link!HashesOf, Link!None
<1>8. \A h \in H : h \in Nat /\ h <= t
  BY <1>5, <1>7 DEF Highest
<1>9. Link!HashesOf(f) = {s[i].hash : i \in 1..p} \union {t + (i - p) : i \in (p + 1)..n}
  <2>1. \A i \in 1..L : i \in 1..p \/ i \in (p + 1)..n \/ (i \in (p + 1)..L /\ ~(i <= n))
    BY <1>1
  <2>2. \A i \in 1..p : f[i].hash = s[i].hash /\ s[i].hash # 0 /\ i \in 1..L
    BY <1>1, <1>3, <1>5
  <2>3. \A i \in (p + 1)..n : f[i].hash = t + (i - p) /\ f[i].hash # 0 /\ i \in 1..L
    BY <1>1, <1>3
  <2>4. \A i \in (p + 1)..L : ~(i <= n) => f[i].hash = 0
    <3>1. \A i \in (p + 1)..L : i \in 1..L
      BY <1>1
    <3>. QED BY <1>3, <1>6, <3>1
  <2>5. Link!HashesOf(f) \subseteq {s[i].hash : i \in 1..p} \union {t + (i - p) : i \in (p + 1)..n}
    BY <1>4, <2>1, <2>2, <2>3, <2>4 DEF Link!HashesOf, Link!None
  <2>6. {s[i].hash : i \in 1..p} \subseteq Link!HashesOf(f)
    BY <1>4, <2>2 DEF Link!HashesOf, Link!None
  <2>7. {t + (i - p) : i \in (p + 1)..n} \subseteq Link!HashesOf(f)
    BY <1>4, <2>3 DEF Link!HashesOf, Link!None
  <2>. QED BY <2>5, <2>6, <2>7
<1>10. Link!HashesOf(f) \subseteq Nat
  BY <1>1, <1>5, <1>9
<1>11. CASE n <= p
  <2>1. {t + (i - p) : i \in (p + 1)..n} = {}
    BY <1>1, <1>11
  <2>. QED BY <1>7, <1>9, <1>10, <1>11, <2>1 DEF f
<1>12. CASE ~(n <= p)
  <2>1. n \in (p + 1)..n /\ now = t + (n - p) /\ now \in Nat /\ t <= now
    BY <1>1, <1>12
  <2>2. \A i \in (p + 1)..n : t + (i - p) <= t + (n - p)
    BY <1>1
  <2>3. now \in Link!HashesOf(f)
    BY <1>9, <2>1
  <2>4. \A h \in Link!HashesOf(f) : h <= now
    <3>1. \A h \in H : h <= now
      BY <1>8, <2>1
    <3>. QED BY <1>7, <1>9, <2>1, <2>2, <3>1
  <2>. QED BY <1>10, <2>3, <2>4 DEF f, Highest
<1>. QED BY <1>11, <1>12

\* the versions without a hash get the next ones
LEMMA HashedFilled ==
    ASSUME NEW s, NEW p, NEW m \in Nat, Numbered(s, p, m), NEW t \in Nat, Highest(Link!HashesOf(s), t)
    PROVE  Link!Hashed(s) = Filled(s, p, t, Len(s))
<1>. DEFINE L == Len(s)
            Step(f) == [n \in 0..L |->
                           IF n = 0 THEN s
                           ELSE IF f[n - 1][n].hash # Link!None THEN f[n - 1]
                                ELSE [f[n - 1] EXCEPT ![n].hash = Link!NestHash(f[n - 1])]]
            g == [n \in 0..L |-> Filled(s, p, t, n)]
            f == CHOOSE h : h = Step(h)
<1>1. L \in Nat /\ DOMAIN s = 1..L /\ p \in 0..L /\ s \in Seq(LinkVersion)
  BY LinkSeq DEF Numbered
<1>2. \A i \in 1..L : s[i] = [hash |-> s[i].hash, dest |-> s[i].dest]
  BY <1>1, LinkSeq
<1>3. g[0] = s
  <2>1. \A i \in 1..L : ~(p < i /\ i <= 0)
    BY <1>1
  <2>2. Filled(s, p, t, 0) = [i \in 1..L |-> s[i]]
    BY <2>1 DEF Filled
  <2>3. s = [i \in 1..L |-> s[i]]
    BY <1>1
  <2>. QED BY <1>1, <2>2, <2>3
<1>4. ASSUME NEW n \in 1..L
      PROVE  g[n] = IF g[n - 1][n].hash # Link!None THEN g[n - 1]
                    ELSE [g[n - 1] EXCEPT ![n].hash = Link!NestHash(g[n - 1])]
  <2>. DEFINE a == Filled(s, p, t, n - 1)
  <2>1. n \in 0..L /\ n - 1 \in 0..L /\ ~(n <= n - 1) /\ g[n - 1] = a /\ g[n] = Filled(s, p, t, n)
    BY <1>1
  <2>2. a[n] = s[n] /\ DOMAIN a = 1..L
    BY <1>1, <2>1 DEF Filled
  <2>3. CASE n <= p
    <3>1. n \in 1..p
      BY <1>1, <2>3
    <3>2. s[n].hash # Link!None
      BY <3>1 DEF Numbered, Link!None
    <3>3. \A i \in 1..L : ~(p < i /\ i <= n) /\ ~(p < i /\ i <= n - 1)
      BY <1>1, <2>3
    <3>4. Filled(s, p, t, n) = a
      BY <3>3 DEF Filled
    <3>. QED BY <2>1, <2>2, <3>2, <3>4
  <2>4. CASE ~(n <= p)
    <3>1. n \in (p + 1)..L
      BY <1>1, <2>4
    <3>2. s[n].hash = Link!None
      BY <3>1 DEF Numbered
    <3>3. Link!NestHash(a) = t + (n - p)
      <4>. DEFINE now == IF n - 1 <= p THEN t ELSE t + (n - 1 - p)
      <4>1. Link!HashesOf(a) \subseteq Nat /\ Highest(Link!HashesOf(a), now)
        BY <2>1, FilledHighest
      <4>2. now = t + (n - 1 - p) /\ now \in Nat /\ now + 1 = t + (n - p)
        BY <1>1, <2>4
      <4>. HIDE DEF now, a
      <4>. QED BY <4>1, <4>2, NestAbove
    <3>4. Filled(s, p, t, n) = [a EXCEPT ![n].hash = t + (n - p)]
      <4>1. \A i \in 1..L : i # n => ((p < i /\ i <= n) <=> (p < i /\ i <= n - 1))
        BY <1>1
      <4>2. p < n /\ n <= n
        BY <1>1, <2>4
      <4>3. [a EXCEPT ![n].hash = t + (n - p)] = [i \in 1..L |-> IF i = n THEN [s[n] EXCEPT !.hash = t + (n - p)] ELSE a[i]]
        BY <2>2
      <4>4. \A i \in 1..L : Filled(s, p, t, n)[i] = IF i = n THEN [s[n] EXCEPT !.hash = t + (n - p)] ELSE a[i]
        BY <4>1, <4>2 DEF Filled
      <4>5. Filled(s, p, t, n) = [i \in 1..L |-> Filled(s, p, t, n)[i]]
        BY DEF Filled
      <4>. HIDE DEF a
      <4>. QED BY <4>3, <4>4, <4>5
    <3>. HIDE DEF a, g
    <3>. QED BY <2>1, <2>2, <3>2, <3>3, <3>4
  <2>. QED BY <2>3, <2>4
<1>5. g = Step(g)
  <2>. HIDE DEF g
  <2>1. \A n \in 0..L : n = 0 \/ n \in 1..L
    BY <1>1
  <2>2. \A n \in 0..L : Step(g)[n] = g[n]
    BY <1>3, <1>4, <2>1
  <2>3. g = [n \in 0..L |-> g[n]]
    BY DEF g
  <2>4. Step(g) = [n \in 0..L |-> Step(g)[n]]
    OBVIOUS
  <2>. HIDE DEF Step
  <2>. QED BY <2>2, <2>3, <2>4
<1>6. f = Step(f)
  <2>. HIDE DEF g
  <2>. QED BY <1>5
<1>7. \A n \in 0..L : f[n] = g[n]
  <2>. DEFINE bad == {n \in 0..L : f[n] # g[n]}
  <2>. HIDE DEF f, g
  <2>1. SUFFICES ASSUME bad # {} PROVE FALSE
    OBVIOUS
  <2>2. PICK n \in bad : \A k \in bad : n <= k
    <3>1. bad \in SUBSET Nat
      BY <1>1
    <3>. HIDE DEF bad
    <3>. QED BY <2>1, <3>1, Smallest
  <2>3. n = 0 \/ (n \in 1..L /\ n - 1 \in 0..L /\ n - 1 \notin bad)
    BY <1>1, <2>2
  <2>4. f[n] = Step(f)[n] /\ g[n] = Step(g)[n]
    BY <1>5, <1>6
  <2>. QED BY <1>1, <2>2, <2>3, <2>4
<1>8. Link!Hashed(s) = f[L]
  BY DEF Link!Hashed
<1>9. f[L] = Filled(s, p, t, L)
  <2>. HIDE DEF f
  <2>. QED BY <1>1, <1>7
<1>. QED BY <1>8, <1>9

\* then all versions have a hash, those which are new are above all there were, and none is when all had one
LEMMA HashedWhole ==
    ASSUME NEW s, NEW p, NEW m \in Nat, Numbered(s, p, m), m <= MaxEdits + 2
    PROVE  /\ Whole(Link!Hashed(s), m)
           /\ \A h \in Link!HashesOf(Link!Hashed(s)) \ Link!HashesOf(s) :
                 h \in Nat /\ \A k \in Link!HashesOf(s) : k < h
           /\ p = Len(s) => Link!HashesOf(Link!Hashed(s)) \subseteq Link!HashesOf(s)
<1>. DEFINE L == Len(s)
            H == Link!HashesOf(s)
<1>1. L \in Nat /\ DOMAIN s = 1..L /\ p \in 0..L /\ s \in Seq(LinkVersion) /\ L <= m
  BY LinkSeq DEF Numbered
<1>2. \A i \in 1..L : s[i] = [hash |-> s[i].hash, dest |-> s[i].dest] /\ s[i].dest \in Link!Dests
  BY <1>1, LinkSeq
<1>3. \A i \in 1..L : i \in 1..p \/ i \in (p + 1)..L
  BY <1>1
<1>4. \A i \in 1..p : i \in 1..L /\ s[i].hash \in Nat /\ s[i].hash # 0 /\ s[i].hash <= m - (L - p) /\ ~(p < i)
  BY <1>1 DEF Numbered
<1>5. \A i \in (p + 1)..L : s[i].hash = 0 /\ i \in 1..L /\ p < i
  BY <1>1 DEF Numbered, Link!None
<1>6. H = {s[i].hash : i \in 1..p}
  BY <1>1, <1>3, <1>4, <1>5 DEF Link!HashesOf, Link!None
<1>7. PICK t \in Nat : Highest(H, t) /\ t <= m - (L - p)
  <2>1. H \in SUBSET Nat /\ m - (L - p) \in Nat /\ \A h \in H : h <= m - (L - p)
    BY <1>1, <1>4, <1>6
  <2>. HIDE DEF H, L
  <2>. QED BY <2>1, SomeHighest
<1>. DEFINE f == Filled(s, p, t, L)
<1>8. Link!Hashed(s) = f
  BY <1>7, HashedFilled
<1>9. DOMAIN f = 1..L /\ \A i \in 1..L : /\ f[i] = [hash |-> f[i].hash, dest |-> s[i].dest]
                                        /\ f[i].hash = IF p < i THEN t + (i - p) ELSE s[i].hash
  <2>1. \A i \in 1..L : i <= L
    BY <1>1
  <2>2. DOMAIN f = 1..L /\ \A i \in 1..L : f[i] = IF p < i THEN [s[i] EXCEPT !.hash = t + (i - p)] ELSE s[i]
    BY <2>1 DEF Filled
  <2>. HIDE DEF f
  <2>3. ASSUME NEW i \in 1..L
        PROVE  /\ f[i] = [hash |-> f[i].hash, dest |-> s[i].dest]
               /\ f[i].hash = IF p < i THEN t + (i - p) ELSE s[i].hash
    <3>1. s[i] = [hash |-> s[i].hash, dest |-> s[i].dest]
      BY <1>2
    <3>2. [s[i] EXCEPT !.hash = t + (i - p)] = [hash |-> t + (i - p), dest |-> s[i].dest]
      BY <3>1
    <3>3. CASE p < i
      <4>1. f[i] = [hash |-> t + (i - p), dest |-> s[i].dest]
        BY <2>2, <3>2, <3>3
      <4>. QED BY <3>3, <4>1
    <3>4. CASE ~(p < i)
      <4>1. f[i] = s[i]
        BY <2>2, <3>4
      <4>. QED BY <3>1, <3>4, <4>1
    <3>. QED BY <3>3, <3>4
  <2>. QED BY <2>2, <2>3
<1>10. \A h \in H : h \in Nat /\ h <= t
  BY <1>4, <1>6, <1>7 DEF Highest
<1>. HIDE DEF f
<1>11. \A i \in 1..L : f[i].hash \in 1..m
  <2>1. ASSUME NEW i \in 1..p PROVE f[i].hash \in 1..m
    <3>1. f[i].hash = s[i].hash /\ s[i].hash \in Nat /\ s[i].hash # 0 /\ s[i].hash <= m - (L - p)
      BY <1>4, <1>9
    <3>. QED BY <1>1, <3>1
  <2>2. ASSUME NEW i \in (p + 1)..L PROVE f[i].hash \in 1..m
    <3>1. f[i].hash = t + (i - p)
      BY <1>5, <1>9
    <3>. QED BY <1>1, <1>7, <3>1
  <2>. QED BY <1>3, <2>1, <2>2
<1>12. f \in Seq(LinkVersion) /\ Len(f) = L
  <2>1. ASSUME NEW i \in 1..L PROVE f[i] \in LinkVersion
    <3>1. f[i].hash \in Link!Hashes
      <4>1. m <= MaxEdits + 2 /\ MaxEdits \in Nat
        BY BoundsAssumption
      <4>. QED BY <1>11, <4>1 DEF Link!Hashes
    <3>2. f[i] = [hash |-> f[i].hash, dest |-> s[i].dest] /\ s[i].dest \in Link!Dests
      BY <1>2, <1>9
    <3>3. [hash |-> f[i].hash, dest |-> s[i].dest] \in LinkVersion
      BY <3>1, <3>2 DEF LinkVersion
    <3>. QED BY <3>2, <3>3
  <2>2. f \in [1..L -> LinkVersion]
    <3>1. f = [i \in 1..L |-> f[i]]
      BY <1>9 DEF f, Filled
    <3>. QED BY <2>1, <3>1
  <2>. QED BY <1>1, <2>2, SeqDef, LenProperties
<1>13. \A i, j \in 1..L : f[i].hash = f[j].hash => i = j
  <2>1. \A i \in 1..p : f[i].hash = s[i].hash /\ f[i].hash \in H
    BY <1>4, <1>6, <1>9
  <2>2. \A i \in (p + 1)..L : f[i].hash = t + (i - p) /\ t < t + (i - p)
    BY <1>1, <1>5, <1>9
  <2>3. \A i, j \in 1..p : f[i].hash = f[j].hash => i = j
    BY <2>1 DEF Numbered
  <2>4. \A i, j \in (p + 1)..L : f[i].hash = f[j].hash => i = j
    <3>1. \A i, j \in (p + 1)..L : t + (i - p) = t + (j - p) => i = j
      BY <1>1
    <3>. QED BY <2>2, <3>1
  <2>5. \A i \in 1..p, j \in (p + 1)..L : f[i].hash # f[j].hash
    <3>1. \A j \in (p + 1)..L : t + (j - p) \in Nat
      BY <1>1
    <3>2. ASSUME NEW i \in 1..p, NEW j \in (p + 1)..L PROVE f[i].hash # f[j].hash
      BY <1>10, <2>1, <2>2, <3>1
    <3>. QED BY <3>2
  <2>. QED BY <1>3, <2>3, <2>4, <2>5
<1>14. Whole(f, m)
  <2>1. \A i \in (L + 1)..L : FALSE
    BY <1>1
  <2>2. m - (L - L) = m /\ L \in 0..L
    BY <1>1
  <2>. QED BY <1>1, <1>11, <1>12, <1>13, <2>1, <2>2 DEF Whole, Numbered
<1>15. ASSUME NEW h \in Link!HashesOf(f) PROVE h \in H \/ (p < L /\ h \in Nat /\ \A k \in H : k < h)
  <2>1. PICK i \in 1..L : h = f[i].hash
    BY <1>9 DEF Link!HashesOf
  <2>2. CASE i \in 1..p
    BY <1>4, <1>6, <1>9, <2>1, <2>2
  <2>3. CASE i \in (p + 1)..L
    <3>1. h = t + (i - p) /\ t + (i - p) \in Nat /\ t < t + (i - p) /\ p < L
      BY <1>1, <1>5, <1>9, <2>1, <2>3
    <3>. QED BY <1>10, <3>1
  <2>. QED BY <1>3, <2>2, <2>3
<1>16. \A h \in Link!HashesOf(f) \ H : h \in Nat /\ \A k \in H : k < h
  BY <1>15
<1>17. p = L => Link!HashesOf(f) \subseteq H
  BY <1>1, <1>15
<1>. HIDE DEF H
<1>. QED BY <1>8, <1>14, <1>16, <1>17 DEF H

-----------------------------------------------------------------------------
(* The invariant of the links *)

LinkActs == Slots \union {Link!Setup}
LinkRoom == linkLog.edits + 2

LinkTypes ==
    /\ cache \in [Link!Hashes -> Link!Dests \union {Link!None}]
    /\ linkPc \in [LinkActs -> {"idle", "update", "find", "cache"}]
    /\ linkReq \in [LinkActs -> [user : Users, versions : Seq(LinkVersion)]]
    /\ pages \in [Users -> Seq(LinkVersion)]
    /\ linkLog \in [edits : 0..MaxEdits, handed : SUBSET Link!Hashes, reused : BOOLEAN, topped : BOOLEAN,
                    stale : BOOLEAN, raced : BOOLEAN]

\* all versions have hashes, but those which pages have added and not yet seen again
LinkNumbers ==
    /\ Whole(links, LinkRoom)
    /\ \A u \in Users : \E p \in Nat : Numbered(pages[u], p, LinkRoom)
    /\ \A r \in LinkActs : Whole(linkReq[r].versions, LinkRoom)

\* a hash comes twice only when the highest was removed, or a page did not know of it
LinkKept == linkLog.reused => linkLog.topped \/ linkLog.stale

\* the highest hash which was handed out is that of a version
LinkTop ==
    /\ ~linkLog.topped => \E h \in Link!HashesOf(links) : \A k \in linkLog.handed : k <= h
    /\ linkLog.handed # {}
    /\ LinkKept

LinkCached == \A i \in DOMAIN links : cache[links[i].hash] = links[i].dest

\* a request at a time: what it sends to the cache is what is stored
LinkAlone ==
    ~linkLog.raced =>
        /\ \A q, r \in LinkActs : linkPc[q] # "idle" /\ linkPc[r] # "idle" => q = r
        /\ \A r \in LinkActs : linkPc[r] = "cache" => linkReq[r].versions = links
        /\ (\A r \in LinkActs : linkPc[r] = "idle") => LinkCached

LinkInv == LinkTypes /\ LinkNumbers /\ LinkTop /\ LinkAlone

\* there is room for as many versions as there are hashes
LEMMA LinkRooms == ASSUME LinkTypes PROVE LinkRoom \in Nat /\ LinkRoom <= MaxEdits + 2 /\ MaxEdits \in Nat
BY BoundsAssumption DEF LinkTypes, LinkRoom

\* whatever moves keeps its numbers when more room is made
LEMMA WholeMore == ASSUME NEW s, NEW n \in Nat, Whole(s, n) PROVE Whole(s, n + 1)
BY NumberedMore DEF Whole

LEMMA LinkEmpty == ASSUME NEW n \in Nat PROVE Whole(<< >>, n)
<1>1. << >> \in Seq(LinkVersion) /\ Len(<< >>) = 0 /\ 1..0 = {} /\ (0 + 1)..0 = {}
  OBVIOUS
<1>. QED BY <1>1 DEF Whole, Numbered

LEMMA LinkNoRequest == Link!NoRequest \in [user : Users, versions : Seq(LinkVersion)] /\ Link!NoRequest.versions = << >>
<1>1. (CHOOSE u \in Users : TRUE) \in Users
  BY PlacesAssumption
<1>. QED BY <1>1 DEF Link!NoRequest

\* a link of two versions, which are in the cache
LEMMA LinkInit == ASSUME Link!Init PROVE LinkInv
<1>. DEFINE v1 == [hash |-> 1, dest |-> 1]
            v2 == [hash |-> 2, dest |-> 2]
<1>0. MaxEdits \in Nat /\ 1 \in Link!Hashes /\ 2 \in Link!Hashes /\ Link!Hashes = 1..(MaxEdits + 2)
  BY BoundsAssumption DEF Link!Hashes
<1>1. links = <<v1, v2>> /\ v1 \in LinkVersion /\ v2 \in LinkVersion
  BY <1>0 DEF Link!Init, LinkVersion, Link!Dests, Link!Hashes
<1>2. /\ links \in Seq(LinkVersion) /\ Len(links) = 2 /\ links[1] = v1 /\ links[2] = v2 /\ DOMAIN links = {1, 2}
      /\ 1..2 = {1, 2} /\ (2 + 1)..2 = {}
  <2>. HIDE DEF v1, v2
  <2>. QED BY <1>1
<1>3. linkLog.edits = 0 /\ LinkRoom = 2 /\ linkLog.handed = {1, 2} /\ linkLog.reused = FALSE
      /\ \A r \in LinkActs : linkPc[r] = "idle"
  BY DEF Link!Init, LinkRoom, LinkActs
<1>4. Whole(links, 2)
  <2>1. links[1].hash = 1 /\ links[2].hash = 2
    BY <1>2
  <2>. HIDE DEF v1, v2
  <2>. QED BY <1>2, <2>1 DEF Whole, Numbered
<1>5. LinkTypes
  <2>1. cache \in [Link!Hashes -> Link!Dests \union {Link!None}]
    BY <1>0 DEF Link!Init, Link!Dests, Link!None
  <2>2. linkLog \in [edits : 0..MaxEdits, handed : SUBSET Link!Hashes, reused : BOOLEAN, topped : BOOLEAN,
                    stale : BOOLEAN, raced : BOOLEAN]
    BY <1>0 DEF Link!Init
  <2>. QED BY <1>2, <2>1, <2>2, LinkNoRequest DEF Link!Init, LinkTypes, LinkActs
<1>6. LinkNumbers
  <2>1. \A u \in Users : pages[u] = links
    BY DEF Link!Init
  <2>2. \A r \in LinkActs : linkReq[r].versions = << >>
    BY LinkNoRequest DEF Link!Init, LinkActs
  <2>3. Numbered(links, 2, 2) /\ 2 \in Nat
    BY <1>2, <1>4 DEF Whole
  <2>. QED BY <1>3, <1>4, <2>1, <2>2, <2>3, LinkEmpty DEF LinkNumbers
<1>7. LinkTop
  <2>1. links[2].hash = 2
    BY <1>2
  <2>2. 2 \in Link!HashesOf(links)
    BY <1>2, <2>1 DEF Link!HashesOf, Link!None
  <2>. QED BY <1>3, <2>2 DEF LinkTop, LinkKept
<1>8. LinkAlone
  <2>1. LinkCached
    <3>1. cache = [h \in Link!Hashes |-> IF h <= 2 THEN h ELSE Link!None]
      BY DEF Link!Init
    <3>2. cache[1] = 1 /\ cache[2] = 2
      BY <1>0, <3>1
    <3>. QED BY <1>2, <3>2 DEF LinkCached
  <2>. QED BY <1>3, <2>1 DEF LinkAlone
<1>. QED BY <1>5, <1>6, <1>7, <1>8 DEF LinkInv

\* what a user makes of his page
Changes(s, d) ==
    {Append(s, [hash |-> Link!None, dest |-> d])}
    \union {[s EXCEPT ![i].dest = d] : i \in DOMAIN s}
    \union {Link!RemoveAt(s, i) : i \in DOMAIN s}

\* is numbered again, and as long as all had a hash, all do, or none is gone
LEMMA NumberedChanges ==
    ASSUME NEW s, NEW p, NEW n \in Nat, Numbered(s, p, n), NEW d \in Link!Dests, NEW v \in Changes(s, d)
    PROVE  /\ v \in Seq(LinkVersion)
           /\ \E q \in Nat : /\ Numbered(v, q, n + 1)
                             /\ p = Len(s) => q = Len(v) \/ Link!HashesOf(s) \subseteq Link!HashesOf(v)
<1>1. Len(s) \in Nat /\ DOMAIN s = 1..Len(s) /\ p \in 0..Len(s) /\ s \in Seq(LinkVersion)
  BY LinkSeq DEF Numbered
<1>2. \A w, q : Numbered(w, q, n + 1) => w \in Seq(LinkVersion) /\ q \in Nat
  <2>1. ASSUME NEW w, NEW q, Numbered(w, q, n + 1) PROVE w \in Seq(LinkVersion) /\ q \in Nat
    <3>1. w \in Seq(LinkVersion) /\ q \in 0..Len(w)
      BY <2>1 DEF Numbered
    <3>. QED BY <3>1, LinkSeq
  <2>. QED BY <2>1
<1>4. ASSUME NEW i \in DOMAIN s, v = [s EXCEPT ![i].dest = d]
      PROVE  \E q \in Nat : Numbered(v, q, n + 1) /\ (p = Len(s) => q = Len(v))
  <2>1. Numbered(v, p, n) /\ Len(v) = Len(s)
    <3>1. /\ Numbered([s EXCEPT ![i].dest = d], p, n)
          /\ Len([s EXCEPT ![i].dest = d]) = Len(s)
      BY NumberedChange
    <3>. QED BY <1>4, <3>1
  <2>2. Numbered(v, p, n + 1)
    BY <2>1, NumberedMore
  <2>. QED BY <1>2, <2>1, <2>2
<1>5. ASSUME NEW i \in DOMAIN s, v = Link!RemoveAt(s, i)
      PROVE  \E q \in Nat : Numbered(v, q, n + 1) /\ (p = Len(s) => q = Len(v))
  <2>. DEFINE q == IF i <= p THEN p - 1 ELSE p
  <2>1. Numbered(v, q, n) /\ Len(v) = Len(s) - 1
    BY <1>5, NumberedRemove
  <2>2. p = Len(s) => q = Len(s) - 1
    BY <1>1
  <2>3. Numbered(v, q, n + 1)
    <3>. HIDE DEF q
    <3>. QED BY <2>1, NumberedMore
  <2>. HIDE DEF q
  <2>. QED BY <1>2, <2>1, <2>2, <2>3
<1>6. \E q \in Nat : /\ Numbered(v, q, n + 1)
                     /\ p = Len(s) => q = Len(v) \/ Link!HashesOf(s) \subseteq Link!HashesOf(v)
  <2>1. CASE v = Append(s, [hash |-> Link!None, dest |-> d])
    <3>1. \A q : Numbered(v, q, n + 1) => q \in Nat
      BY <1>2
    <3>2. Numbered(v, p, n + 1) /\ Link!HashesOf(s) \subseteq Link!HashesOf(v)
      <4>1. Numbered(v, p, n + 1)
        BY <2>1, NumberedAppend
      <4>2. Link!HashesOf(s) \subseteq Link!HashesOf(v)
        <5>. DEFINE e == [hash |-> Link!None, dest |-> d]
        <5>1. e \in LinkVersion
          BY DEF LinkVersion
        <5>. HIDE DEF e
        <5>2. \A i \in 1..Len(s) : v[i] = s[i] /\ i \in 1..(Len(s) + 1)
          BY <1>1, <2>1, <5>1, AppendProperties DEF e
        <5>3. DOMAIN v = 1..(Len(s) + 1)
          BY <1>1, <2>1, <5>1, AppendProperties, LenProperties DEF e
        <5>. QED BY <1>1, <5>2, <5>3 DEF Link!HashesOf
      <4>. QED BY <4>1, <4>2
    <3>. QED BY <3>1, <3>2
  <2>. QED BY <1>4, <1>5, <2>1 DEF Changes
<1>. QED BY <1>2, <1>6

\* a version is stored, and sent to the cache by its hash
LEMMA LinkHash ==
    ASSUME NEW s, NEW n \in Nat, Whole(s, n), n <= MaxEdits + 2
    PROVE  /\ s \in Seq(LinkVersion) /\ DOMAIN s = 1..Len(s) /\ Len(s) \in Nat /\ Numbered(s, Len(s), n)
           /\ Link!HashesOf(s) \subseteq Link!Hashes
           /\ \A i \in DOMAIN s : s[i].hash \in Link!HashesOf(s)
           /\ \A i, j \in DOMAIN s : s[i].hash = s[j].hash => i = j
<1>1. s \in Seq(LinkVersion) /\ Numbered(s, Len(s), n)
  BY DEF Whole, Numbered
<1>2. Len(s) \in Nat /\ DOMAIN s = 1..Len(s)
  BY <1>1, LinkSeq
<1>3. n - (Len(s) - Len(s)) = n
  BY <1>2
<1>4. \A i \in DOMAIN s : s[i].hash \in 1..n
  BY <1>1, <1>2, <1>3 DEF Numbered
<1>5. 1..n \subseteq Link!Hashes /\ 0 \notin 1..n
  BY BoundsAssumption DEF Link!Hashes
<1>. QED BY <1>1, <1>2, <1>4, <1>5 DEF Numbered, Link!HashesOf, Link!None

\* pages are changed, opened again, or shown what is stored
LEMMA LinkEdit ==
    ASSUME LinkInv, NEW r \in Slots, NEW u \in Users, Link!Edit(r, u)
    PROVE  LinkInv'
<1>. DEFINE d == linkLog.edits + 3
            m == LinkRoom
<1>1. PICK v \in Changes(pages[u], d) :
         LET new == Link!HashesOf(Link!Hashed(v)) \ Link!HashesOf(v) IN
           /\ pages' = [pages EXCEPT ![u] = v]
           /\ linkReq' = [linkReq EXCEPT ![r] = [user |-> u, versions |-> Link!Hashed(v)]]
           /\ linkLog' = [linkLog EXCEPT !.edits = @ + 1,
                          !.reused = @ \/ new \intersect linkLog.handed # {},
                          !.stale = @ \/ pages[u] # links,
                          !.raced = @ \/ Link!Busy]
  BY DEF Link!Edit, Changes
<1>. DEFINE new == Link!HashesOf(Link!Hashed(v)) \ Link!HashesOf(v)
<1>2. /\ linkPc[r] = "idle" /\ linkLog.edits < MaxEdits /\ links' = links /\ cache' = cache
      /\ linkPc' = [linkPc EXCEPT ![r] = "update"]
  BY DEF Link!Edit, Link!Goto
<1>3. /\ linkLog.edits \in Nat /\ MaxEdits \in Nat /\ m \in Nat /\ m + 1 <= MaxEdits + 2 /\ d \in Link!Dests
      /\ r \in LinkActs /\ linkLog.handed \subseteq Link!Hashes
  BY <1>2, BoundsAssumption DEF LinkInv, LinkTypes, LinkRoom, Link!Dests, LinkActs
<1>4. /\ linkLog'.edits = linkLog.edits + 1 /\ linkLog'.handed = linkLog.handed /\ linkLog'.topped = linkLog.topped
      /\ linkLog'.reused = (linkLog.reused \/ new \intersect linkLog.handed # {})
      /\ linkLog'.stale = (linkLog.stale \/ pages[u] # links)
      /\ linkLog'.raced = (linkLog.raced \/ Link!Busy)
      /\ linkLog' \in [edits : 0..MaxEdits, handed : SUBSET Link!Hashes, reused : BOOLEAN, topped : BOOLEAN,
                       stale : BOOLEAN, raced : BOOLEAN]
  <2>1. PICK a \in BOOLEAN, b \in BOOLEAN, c \in BOOLEAN :
           /\ a = (linkLog.reused \/ new \intersect linkLog.handed # {})
           /\ b = (linkLog.stale \/ pages[u] # links)
           /\ c = (linkLog.raced \/ Link!Busy)
    OBVIOUS
  <2>2. linkLog' = [linkLog EXCEPT !.edits = linkLog.edits + 1, !.reused = a, !.stale = b, !.raced = c]
    <3>. HIDE DEF new
    <3>. QED BY <1>1, <2>1 DEF new
  <2>3. linkLog.edits + 1 \in 0..MaxEdits
    BY <1>2, <1>3
  <2>4. linkLog \in [edits : 0..MaxEdits, handed : SUBSET Link!Hashes, reused : BOOLEAN, topped : BOOLEAN,
                     stale : BOOLEAN, raced : BOOLEAN]
    BY DEF LinkInv, LinkTypes
  <2>. HIDE DEF new
  <2>. QED BY <2>1, <2>2, <2>3, <2>4
<1>. HIDE DEF new, d
<1>5. LinkRoom' = m + 1
  BY <1>3, <1>4 DEF LinkRoom
<1>. HIDE DEF m
<1>6. PICK p \in Nat : Numbered(pages[u], p, m) /\ (pages[u] = links => p = Len(links))
  <2>1. PICK p \in Nat : Numbered(pages[u], p, m)
    BY DEF LinkInv, LinkNumbers, m
  <2>2. Numbered(links, Len(links), m) /\ Len(links) \in Nat
    <3>1. Whole(links, m)
      BY DEF LinkInv, LinkNumbers, m
    <3>2. m <= MaxEdits + 2
      BY <1>3
    <3>. QED BY <1>3, <3>1, <3>2, LinkHash
  <2>. QED BY <2>1, <2>2
<1>7. v \in Seq(LinkVersion)
  BY <1>3, <1>6, NumberedChanges
<1>8. PICK q \in Nat : /\ Numbered(v, q, m + 1)
                       /\ p = Len(pages[u]) => q = Len(v) \/ Link!HashesOf(pages[u]) \subseteq Link!HashesOf(v)
  BY <1>3, <1>6, NumberedChanges
<1>9. /\ Whole(Link!Hashed(v), m + 1)
      /\ \A h \in new : h \in Nat /\ \A k \in Link!HashesOf(v) : k < h
      /\ q = Len(v) => new = {}
  <2>1. m + 1 \in Nat
    BY <1>3
  <2>2. /\ Whole(Link!Hashed(v), m + 1)
        /\ \A h \in Link!HashesOf(Link!Hashed(v)) \ Link!HashesOf(v) :
              h \in Nat /\ \A k \in Link!HashesOf(v) : k < h
        /\ q = Len(v) => Link!HashesOf(Link!Hashed(v)) \subseteq Link!HashesOf(v)
    BY <1>3, <1>8, <2>1, HashedWhole
  <2>. QED BY <2>2 DEF new
<1>10. Link!Hashed(v) \in Seq(LinkVersion)
  BY <1>9 DEF Whole, Numbered
<1>11. LinkTypes'
  <2>1. [user |-> u, versions |-> Link!Hashed(v)] \in [user : Users, versions : Seq(LinkVersion)]
    BY <1>10
  <2>2. linkReq' \in [LinkActs -> [user : Users, versions : Seq(LinkVersion)]]
    BY <1>1, <1>3, <2>1 DEF LinkInv, LinkTypes
  <2>3. pages' \in [Users -> Seq(LinkVersion)]
    BY <1>1, <1>7 DEF LinkInv, LinkTypes
  <2>4. linkPc' \in [LinkActs -> {"idle", "update", "find", "cache"}]
    BY <1>2, <1>3 DEF LinkInv, LinkTypes
  <2>. QED BY <1>2, <1>4, <2>2, <2>3, <2>4 DEF LinkInv, LinkTypes, LinkActs
<1>12. LinkNumbers'
  <2>1. Whole(links', m + 1)
    BY <1>2, <1>3, WholeMore DEF LinkInv, LinkNumbers, m
  <2>2. ASSUME NEW w \in Users PROVE \E o \in Nat : Numbered(pages'[w], o, m + 1)
    <3>1. CASE w = u
      <4>1. pages'[w] = v
        BY <1>1, <3>1 DEF LinkInv, LinkTypes
      <4>. QED BY <1>8, <4>1
    <3>2. CASE w # u
      <4>1. pages'[w] = pages[w]
        BY <1>1, <3>2 DEF LinkInv, LinkTypes
      <4>2. PICK o \in Nat : Numbered(pages[w], o, m)
        BY DEF LinkInv, LinkNumbers, m
      <4>3. Numbered(pages[w], o, m + 1)
        BY <1>3, <4>2, NumberedMore
      <4>. QED BY <4>1, <4>3
    <3>. QED BY <3>1, <3>2
  <2>3. ASSUME NEW a \in LinkActs PROVE Whole(linkReq'[a].versions, m + 1)
    <3>1. CASE a = r
      <4>1. linkReq'[a].versions = Link!Hashed(v)
        BY <1>1, <1>3, <3>1 DEF LinkInv, LinkTypes
      <4>. QED BY <1>9, <4>1
    <3>2. CASE a # r
      <4>1. linkReq'[a].versions = linkReq[a].versions
        BY <1>1, <1>3, <3>2 DEF LinkInv, LinkTypes
      <4>2. Whole(linkReq[a].versions, m)
        BY DEF LinkInv, LinkNumbers, m
      <4>. QED BY <1>3, <4>1, <4>2, WholeMore
    <3>. QED BY <3>1, <3>2
  <2>. QED BY <1>5, <2>1, <2>2, <2>3 DEF LinkNumbers, LinkActs
<1>13. LinkTop'
  <2>1. linkLog'.handed # {} /\ (~linkLog'.topped => \E h \in Link!HashesOf(links') : \A k \in linkLog'.handed : k <= h)
    BY <1>2, <1>4 DEF LinkInv, LinkTop
  <2>2. ASSUME linkLog'.reused, ~linkLog'.topped, ~linkLog'.stale PROVE FALSE
    <3>1. ~linkLog.topped /\ ~linkLog.stale /\ pages[u] = links
      BY <1>4, <2>2
    <3>2. ~linkLog.reused
      BY <3>1 DEF LinkInv, LinkTop, LinkKept
    <3>3. PICK x \in new : x \in linkLog.handed
      BY <1>4, <2>2, <3>2
    <3>4. PICK h \in Link!HashesOf(links) : \A k \in linkLog.handed : k <= h
      BY <3>1 DEF LinkInv, LinkTop
    <3>5. h \in Link!HashesOf(v) /\ x <= h
      BY <1>6, <1>8, <1>9, <3>1, <3>3, <3>4
    <3>6. h < x /\ x \in Nat
      BY <1>9, <3>3, <3>5
    <3>7. h \in Nat
      <4>1. Whole(links, m) /\ m \in Nat /\ m <= MaxEdits + 2
        BY <1>3 DEF LinkInv, LinkNumbers, m
      <4>2. Link!HashesOf(links) \subseteq Link!Hashes
        BY <4>1, LinkHash
      <4>. QED BY <1>3, <3>4, <4>2 DEF Link!Hashes
    <3>. QED BY <3>5, <3>6, <3>7
  <2>. QED BY <2>1, <2>2 DEF LinkTop, LinkKept
<1>14. LinkAlone'
  <2>1. SUFFICES ASSUME ~linkLog'.raced
        PROVE  /\ \A a, b \in LinkActs : linkPc'[a] # "idle" /\ linkPc'[b] # "idle" => a = b
               /\ \A a \in LinkActs : linkPc'[a] # "cache"
               /\ linkPc'[r] # "idle"
    BY <1>3 DEF LinkAlone, LinkActs
  <2>2. \A a \in LinkActs : linkPc[a] = "idle"
    BY <1>4, <2>1 DEF Link!Busy, LinkActs
  <2>3. \A a \in LinkActs : linkPc'[a] = IF a = r THEN "update" ELSE linkPc[a]
    BY <1>2, <1>3 DEF LinkInv, LinkTypes
  <2>. QED BY <1>3, <2>2, <2>3
<1>. QED BY <1>11, <1>12, <1>13, <1>14 DEF LinkInv

\* what makes up the invariant of links at a step which hands out no number
LEMMA LinkRoomStays == ASSUME linkLog'.edits = linkLog.edits PROVE LinkRoom' = LinkRoom
BY DEF LinkRoom

\* the versions of a request are stored
LEMMA LinkUpdate ==
    ASSUME LinkInv, NEW r \in Slots, Link!Update(r)
    PROVE  LinkInv'
<1>. DEFINE m == LinkRoom
            stored == linkReq[r].versions
            given == linkLog.handed
<1>1. /\ linkPc[r] = "update" /\ links' = stored
      /\ linkPc' = [linkPc EXCEPT ![r] = "find"]
      /\ cache' = cache /\ pages' = pages /\ linkReq' = linkReq
      /\ linkLog' = [linkLog EXCEPT !.handed = @ \union Link!HashesOf(links'),
                          !.topped = @ \/ Link!Max(linkLog.handed) \notin Link!HashesOf(links')]
  BY DEF Link!Update, Link!Goto
<1>2. r \in LinkActs /\ m \in Nat /\ m <= MaxEdits + 2 /\ MaxEdits \in Nat
  BY LinkRooms DEF LinkInv, LinkActs
<1>3. Whole(stored, m)
  BY <1>2 DEF LinkInv, LinkNumbers
<1>4. Link!HashesOf(stored) \subseteq Link!Hashes /\ given \subseteq Link!Hashes /\ given # {}
  <2>. HIDE DEF m, stored
  <2>1. Link!HashesOf(stored) \subseteq Link!Hashes
    BY <1>2, <1>3, LinkHash
  <2>. QED BY <2>1 DEF LinkInv, LinkTypes, LinkTop
<1>. DEFINE H == Link!HashesOf(stored)
            top == Link!Max(given)
<1>5. /\ linkLog'.edits = linkLog.edits /\ linkLog'.handed = given \union H
      /\ linkLog'.topped = (linkLog.topped \/ top \notin H)
      /\ linkLog'.reused = linkLog.reused /\ linkLog'.stale = linkLog.stale /\ linkLog'.raced = linkLog.raced
      /\ linkLog' \in [edits : 0..MaxEdits, handed : SUBSET Link!Hashes, reused : BOOLEAN, topped : BOOLEAN,
                       stale : BOOLEAN, raced : BOOLEAN]
  <2>1. PICK a \in BOOLEAN : a = (linkLog.topped \/ top \notin H)
    OBVIOUS
  <2>2. PICK g \in SUBSET Link!Hashes : g = given \union H
    BY <1>4
  <2>3. linkLog' = [linkLog EXCEPT !.handed = g, !.topped = a]
    BY <1>1, <2>1, <2>2
  <2>4. linkLog \in [edits : 0..MaxEdits, handed : SUBSET Link!Hashes, reused : BOOLEAN, topped : BOOLEAN,
                     stale : BOOLEAN, raced : BOOLEAN]
    BY DEF LinkInv, LinkTypes
  <2>. HIDE DEF H, top, given, stored
  <2>. QED BY <2>1, <2>2, <2>3, <2>4
<1>6. LinkRoom' = m
  BY <1>5, LinkRoomStays
<1>7. LinkTypes'
  <2>1. linkPc' \in [LinkActs -> {"idle", "update", "find", "cache"}]
    BY <1>1, <1>2 DEF LinkInv, LinkTypes
  <2>. QED BY <1>1, <1>5, <2>1 DEF LinkInv, LinkTypes, LinkActs
<1>8. LinkNumbers'
  BY <1>1, <1>3, <1>6 DEF LinkInv, LinkNumbers, LinkActs
<1>9. LinkTop'
  <2>1. \A k \in given : k <= top
    <3>. DEFINE is(x) == x \in given /\ \A k \in given : x >= k
    <3>1. given \in SUBSET Nat /\ \A k \in given : k <= MaxEdits + 2
      BY <1>2, <1>4 DEF Link!Hashes
    <3>. HIDE DEF given
    <3>2. PICK t \in Nat : Highest(given, t)
      <4>1. MaxEdits + 2 \in Nat
        BY <1>2
      <4>. QED BY <3>1, <4>1, SomeHighest
    <3>3. is(t)
      BY <1>4, <3>1, <3>2 DEF Highest
    <3>4. top = CHOOSE x : is(x)
      BY DEF Link!Max
    <3>5. top = CHOOSE x \in given : \A k \in given : x >= k
      BY DEF Link!Max
    <3>6. top \in given /\ \A k \in given : top >= k
      <4>. HIDE DEF top
      <4>. QED BY <3>3, <3>5
    <3>. HIDE DEF top
    <3>. QED BY <3>1, <3>6
  <2>2. ~linkLog'.topped => \E h \in Link!HashesOf(links') : \A k \in linkLog'.handed : k <= h
    <3>1. SUFFICES ASSUME ~linkLog'.topped PROVE \E h \in H : \A k \in given \union H : k <= h
      BY <1>1, <1>5
    <3>2. top \in H
      BY <1>5, <3>1
    <3>3. H \in SUBSET Nat /\ \A k \in H : k <= MaxEdits + 2
      BY <1>2, <1>4 DEF Link!Hashes
    <3>4. PICK t \in Nat : Highest(H, t)
      <4>. HIDE DEF H
      <4>1. MaxEdits + 2 \in Nat
        BY <1>2
      <4>. QED BY <3>3, <4>1, SomeHighest
    <3>5. given \in SUBSET Nat
      BY <1>4 DEF Link!Hashes
    <3>. HIDE DEF H, top, given
    <3>6. t \in H /\ (\A k \in H : k <= t) /\ top <= t
      BY <3>2, <3>4 DEF Highest
    <3>7. \A k \in given : k <= t
      BY <2>1, <3>2, <3>3, <3>5, <3>6
    <3>. QED BY <3>6, <3>7
  <2>3. linkLog'.handed # {}
    BY <1>4, <1>5
  <2>4. LinkKept'
    BY <1>5 DEF LinkInv, LinkTop, LinkKept
  <2>. QED BY <2>2, <2>3, <2>4 DEF LinkTop
<1>10. LinkAlone'
  <2>1. SUFFICES ASSUME ~linkLog.raced
        PROVE  /\ \A a, b \in LinkActs : linkPc'[a] # "idle" /\ linkPc'[b] # "idle" => a = b
               /\ \A a \in LinkActs : linkPc'[a] # "cache"
               /\ linkPc'[r] # "idle"
    BY <1>2, <1>5 DEF LinkAlone, LinkActs
  <2>2. \A a \in LinkActs : linkPc'[a] = IF a = r THEN "find" ELSE linkPc[a]
    BY <1>1, <1>2 DEF LinkInv, LinkTypes
  <2>3. \A a \in LinkActs : a # r => linkPc[a] = "idle"
    BY <1>1, <1>2, <2>1 DEF LinkInv, LinkAlone
  <2>. QED BY <1>2, <2>2, <2>3
<1>. QED BY <1>7, <1>8, <1>9, <1>10 DEF LinkInv

\* a page shows what is stored
LEMMA LinkShown ==
    ASSUME LinkInv, NEW u \in Users, pages' = [pages EXCEPT ![u] = links]
    PROVE  /\ pages' \in [Users -> Seq(LinkVersion)]
           /\ \A w \in Users : \E p \in Nat : Numbered(pages'[w], p, LinkRoom)
<1>1. LinkRoom \in Nat /\ LinkRoom <= MaxEdits + 2 /\ Whole(links, LinkRoom)
  BY LinkRooms DEF LinkInv, LinkNumbers
<1>2. Len(links) \in Nat /\ Numbered(links, Len(links), LinkRoom) /\ links \in Seq(LinkVersion)
  BY <1>1, LinkHash
<1>3. \A w \in Users : pages'[w] = links \/ pages'[w] = pages[w]
  BY DEF LinkInv, LinkTypes
<1>4. ASSUME NEW w \in Users PROVE \E p \in Nat : Numbered(pages'[w], p, LinkRoom)
  <2>1. CASE pages'[w] = links
    BY <1>2, <2>1
  <2>2. CASE pages'[w] = pages[w]
    BY <2>2 DEF LinkInv, LinkNumbers
  <2>. QED BY <1>3, <2>1, <2>2
<1>. QED BY <1>2, <1>4 DEF LinkInv, LinkTypes

LEMMA LinkOpen == ASSUME LinkInv, NEW u \in Users, Link!Open(u) PROVE LinkInv'
<1>1. pages' = [pages EXCEPT ![u] = links] /\ UNCHANGED <<links, cache, linkPc, linkReq, linkLog>>
  BY DEF Link!Open
<1>2. /\ pages' \in [Users -> Seq(LinkVersion)]
      /\ \A w \in Users : \E p \in Nat : Numbered(pages'[w], p, LinkRoom)
  BY <1>1, LinkShown
<1>3. LinkRoom' = LinkRoom
  BY <1>1 DEF LinkRoom
<1>4. LinkTypes'
  BY <1>1, <1>2 DEF LinkInv, LinkTypes, LinkActs
<1>5. LinkNumbers'
  BY <1>1, <1>2, <1>3 DEF LinkInv, LinkNumbers, LinkActs
<1>6. LinkTop'
  BY <1>1 DEF LinkInv, LinkTop, LinkKept
<1>7. LinkAlone'
  BY <1>1 DEF LinkInv, LinkAlone, LinkActs, LinkCached
<1>. QED BY <1>4, <1>5, <1>6, <1>7 DEF LinkInv

\* what is stored is read, for the cache
LEMMA LinkRead ==
    ASSUME LinkInv, NEW r \in LinkActs, linkPc[r] = "find", linkReq' = [linkReq EXCEPT ![r].versions = links],
           linkPc' = [linkPc EXCEPT ![r] = "cache"], links' = links, cache' = cache, linkLog' = linkLog,
           pages' \in [Users -> Seq(LinkVersion)],
           \A w \in Users : \E p \in Nat : Numbered(pages'[w], p, LinkRoom)
    PROVE  LinkInv'
<1>1. LinkRoom' = LinkRoom
  BY DEF LinkRoom
<1>2. Whole(links, LinkRoom) /\ links \in Seq(LinkVersion)
  BY DEF LinkInv, LinkNumbers, Whole, Numbered
<1>3. \A a \in LinkActs : linkReq'[a].versions = IF a = r THEN links ELSE linkReq[a].versions
  BY DEF LinkInv, LinkTypes
<1>4. linkReq' \in [LinkActs -> [user : Users, versions : Seq(LinkVersion)]]
  BY <1>2 DEF LinkInv, LinkTypes
<1>5. linkPc' \in [LinkActs -> {"idle", "update", "find", "cache"}]
      /\ \A a \in LinkActs : linkPc'[a] = IF a = r THEN "cache" ELSE linkPc[a]
  BY DEF LinkInv, LinkTypes
<1>6. LinkTypes'
  BY <1>4, <1>5 DEF LinkInv, LinkTypes, LinkActs
<1>7. LinkNumbers'
  BY <1>1, <1>2, <1>3 DEF LinkInv, LinkNumbers, LinkActs
<1>8. LinkTop'
  BY DEF LinkInv, LinkTop, LinkKept
<1>9. LinkAlone'
  <2>1. SUFFICES ASSUME ~linkLog.raced
        PROVE  /\ \A a, b \in LinkActs : linkPc'[a] # "idle" /\ linkPc'[b] # "idle" => a = b
               /\ \A a \in LinkActs : linkPc'[a] = "cache" => linkReq'[a].versions = links
               /\ linkPc'[r] # "idle"
    BY DEF LinkAlone, LinkActs
  <2>2. \A a \in LinkActs : a # r => linkPc[a] = "idle"
    BY <2>1 DEF LinkInv, LinkAlone
  <2>. QED BY <1>3, <1>5, <2>2
<1>. QED BY <1>6, <1>7, <1>8, <1>9 DEF LinkInv

LEMMA LinkFind == ASSUME LinkInv, NEW r \in Slots, Link!Find(r) PROVE LinkInv'
<1>1. /\ linkPc[r] = "find" /\ linkReq' = [linkReq EXCEPT ![r].versions = links] /\ r \in LinkActs
      /\ pages' = [pages EXCEPT ![linkReq[r].user] = links] /\ linkPc' = [linkPc EXCEPT ![r] = "cache"]
      /\ UNCHANGED <<links, cache, linkLog>>
  BY DEF Link!Find, Link!Goto, LinkActs
<1>2. linkReq[r].user \in Users
  BY <1>1 DEF LinkInv, LinkTypes
<1>3. /\ pages' \in [Users -> Seq(LinkVersion)]
      /\ \A w \in Users : \E p \in Nat : Numbered(pages'[w], p, LinkRoom)
  BY <1>1, <1>2, LinkShown
<1>. QED BY <1>1, <1>3, LinkRead

LEMMA LinkSetupFind == ASSUME LinkInv, Link!SetupFind PROVE LinkInv'
<1>. DEFINE r == Link!Setup
<1>1. /\ linkPc[r] = "find" /\ linkReq' = [linkReq EXCEPT ![r].versions = links] /\ r \in LinkActs
      /\ linkPc' = [linkPc EXCEPT ![r] = "cache"] /\ UNCHANGED <<links, cache, pages, linkLog>>
  BY DEF Link!SetupFind, Link!Goto, LinkActs
<1>2. /\ pages' \in [Users -> Seq(LinkVersion)]
      /\ \A w \in Users : \E p \in Nat : Numbered(pages'[w], p, LinkRoom)
  BY <1>1 DEF LinkInv, LinkTypes, LinkNumbers
<1>. HIDE DEF r
<1>. QED BY <1>1, <1>2, LinkRead

\* a request, or the setup, has nothing any more
LEMMA LinkIdle ==
    ASSUME LinkInv, NEW pcs, NEW reqs, linkPc' = pcs, linkReq' = reqs, pages' = pages, links' = links,
           linkLog' = linkLog, pcs \in [LinkActs -> {"idle", "update", "find", "cache"}],
           DOMAIN reqs = LinkActs, \A a \in LinkActs : reqs[a] = linkReq[a] \/ reqs[a] = Link!NoRequest,
           reqs = [a \in LinkActs |-> reqs[a]],
           cache' \in [Link!Hashes -> Link!Dests \union {Link!None}]
    PROVE  LinkTypes' /\ LinkNumbers' /\ LinkTop'
<1>1. LinkRoom' = LinkRoom /\ LinkRoom \in Nat
  BY LinkRooms DEF LinkInv, LinkRoom
<1>2. linkReq' \in [LinkActs -> [user : Users, versions : Seq(LinkVersion)]]
  BY LinkNoRequest DEF LinkInv, LinkTypes
<1>3. Whole(<< >>, LinkRoom)
  BY <1>1, LinkEmpty
<1>4. \A a \in LinkActs : Whole(linkReq'[a].versions, LinkRoom)
  BY <1>3, LinkNoRequest DEF LinkInv, LinkNumbers
<1>5. LinkTypes'
  BY <1>2 DEF LinkInv, LinkTypes, LinkActs
<1>6. LinkNumbers'
  BY <1>1, <1>4 DEF LinkInv, LinkNumbers, LinkActs
<1>7. LinkTop'
  BY DEF LinkInv, LinkTop, LinkKept
<1>. QED BY <1>5, <1>6, <1>7

\* what was read is in the cache
LEMMA LinkCache ==
    ASSUME LinkInv, NEW r \in LinkActs, Link!Cache(r)
    PROVE  LinkInv'
<1>. DEFINE sent == linkReq[r].versions
            of(h) == (CHOOSE v \in Link!ToSet(sent) : v.hash = h).dest
<1>1. /\ linkPc[r] = "cache" /\ linkPc' = [linkPc EXCEPT ![r] = "idle"]
      /\ linkReq' = [linkReq EXCEPT ![r] = Link!NoRequest] /\ UNCHANGED <<links, pages, linkLog>>
      /\ cache' = [h \in Link!Hashes |-> IF h \notin Link!HashesOf(sent) THEN cache[h] ELSE of(h)]
  BY DEF Link!Cache, Link!Done, Link!Goto
<1>2. LinkRoom \in Nat /\ LinkRoom <= MaxEdits + 2 /\ Whole(sent, LinkRoom)
  BY LinkRooms DEF LinkInv, LinkNumbers
<1>. HIDE DEF sent, of
<1>3. /\ sent \in Seq(LinkVersion) /\ DOMAIN sent = 1..Len(sent)
      /\ \A i \in DOMAIN sent : sent[i].hash \in Link!HashesOf(sent) /\ sent[i].hash \in Link!Hashes
      /\ \A i, j \in DOMAIN sent : sent[i].hash = sent[j].hash => i = j
  BY <1>2, LinkHash
<1>4. \A i \in DOMAIN sent : of(sent[i].hash) = sent[i].dest
  <2>1. ASSUME NEW i \in DOMAIN sent PROVE of(sent[i].hash) = sent[i].dest
    <3>. DEFINE v == CHOOSE w \in Link!ToSet(sent) : w.hash = sent[i].hash
    <3>1. v \in Link!ToSet(sent) /\ v.hash = sent[i].hash
      <4>1. sent[i] \in Link!ToSet(sent)
        BY DEF Link!ToSet
      <4>. QED BY <4>1
    <3>. HIDE DEF v
    <3>2. PICK j \in DOMAIN sent : v = sent[j]
      BY <3>1 DEF Link!ToSet
    <3>3. v = sent[i]
      BY <1>3, <3>1, <3>2
    <3>. QED BY <3>3 DEF v, of
  <2>. QED BY <2>1
<1>5. \A h \in Link!HashesOf(sent) : of(h) \in Link!Dests
  <2>1. ASSUME NEW h \in Link!HashesOf(sent) PROVE of(h) \in Link!Dests
    <3>1. PICK i \in DOMAIN sent : h = sent[i].hash
      BY DEF Link!HashesOf
    <3>2. sent[i].dest \in Link!Dests
      BY <1>3, LinkSeq
    <3>. QED BY <1>4, <3>1, <3>2
  <2>. QED BY <2>1
<1>6. cache' \in [Link!Hashes -> Link!Dests \union {Link!None}]
  BY <1>1, <1>5 DEF LinkInv, LinkTypes
<1>7. LinkTypes' /\ LinkNumbers' /\ LinkTop'
  <2>. DEFINE pcs == [linkPc EXCEPT ![r] = "idle"]
              reqs == [linkReq EXCEPT ![r] = Link!NoRequest]
  <2>1. /\ pcs \in [LinkActs -> {"idle", "update", "find", "cache"}]
        /\ DOMAIN reqs = LinkActs /\ (\A a \in LinkActs : reqs[a] = linkReq[a] \/ reqs[a] = Link!NoRequest)
        /\ reqs = [a \in LinkActs |-> reqs[a]]
    BY DEF LinkInv, LinkTypes
  <2>2. linkPc' = pcs /\ linkReq' = reqs
    BY <1>1
  <2>. HIDE DEF pcs, reqs
  <2>. QED BY <1>1, <1>6, <2>1, <2>2, LinkIdle
<1>8. LinkAlone'
  <2>1. SUFFICES ASSUME ~linkLog.raced
        PROVE  (\A a \in LinkActs : linkPc'[a] = "idle") /\ LinkCached'
    BY <1>1 DEF LinkAlone, LinkActs
  <2>2. sent = links /\ \A a \in LinkActs : a # r => linkPc[a] = "idle"
    BY <1>1, <2>1 DEF LinkInv, LinkAlone, sent
  <2>3. \A a \in LinkActs : linkPc'[a] = "idle"
    BY <1>1, <2>2 DEF LinkInv, LinkTypes
  <2>4. LinkCached'
    BY <1>1, <1>3, <1>4, <2>2 DEF LinkCached
  <2>. QED BY <2>3, <2>4
<1>. QED BY <1>7, <1>8 DEF LinkInv

\* nothing is in flight after a restart but the setup
LEMMA LinkRestart == ASSUME LinkInv, Link!Restart PROVE LinkInv'
<1>. DEFINE pcs == [r \in LinkActs |-> IF r = Link!Setup THEN "find" ELSE "idle"]
            reqs == [r \in LinkActs |-> Link!NoRequest]
<1>1. /\ linkPc' = pcs /\ linkReq' = reqs /\ UNCHANGED <<links, pages, linkLog>>
      /\ cache' = [h \in Link!Hashes |-> Link!None]
  BY DEF Link!Restart, LinkActs
<1>2. /\ pcs \in [LinkActs -> {"idle", "update", "find", "cache"}]
      /\ DOMAIN reqs = LinkActs /\ (\A a \in LinkActs : reqs[a] = linkReq[a] \/ reqs[a] = Link!NoRequest)
      /\ reqs = [a \in LinkActs |-> reqs[a]] /\ cache' \in [Link!Hashes -> Link!Dests \union {Link!None}]
  BY <1>1
<1>3. \A a, b \in LinkActs : pcs[a] # "idle" /\ pcs[b] # "idle" => a = b
  OBVIOUS
<1>4. Link!Setup \in LinkActs /\ pcs[Link!Setup] = "find" /\ \A a \in LinkActs : pcs[a] # "cache"
  BY DEF LinkActs
<1>. HIDE DEF pcs, reqs
<1>5. LinkTypes' /\ LinkNumbers' /\ LinkTop'
  BY <1>1, <1>2, LinkIdle
<1>6. LinkAlone'
  <2>1. LinkActs' = LinkActs
    BY DEF LinkActs
  <2>. QED BY <1>1, <1>3, <1>4, <2>1 DEF LinkAlone
<1>. QED BY <1>5, <1>6 DEF LinkInv

LEMMA LinkStep == ASSUME LinkInv, Link!Next PROVE LinkInv'
<1>1. ASSUME NEW u \in Users, Link!Open(u) PROVE LinkInv'
  BY <1>1, LinkOpen
<1>2. ASSUME NEW r \in Slots, NEW u \in Users, Link!Edit(r, u) PROVE LinkInv'
  BY <1>2, LinkEdit
<1>3. ASSUME NEW r \in Slots, Link!Update(r) PROVE LinkInv'
  BY <1>3, LinkUpdate
<1>4. ASSUME NEW r \in Slots, Link!Find(r) PROVE LinkInv'
  BY <1>4, LinkFind
<1>5. ASSUME NEW r \in LinkActs, Link!Cache(r) PROVE LinkInv'
  BY <1>5, LinkCache
<1>. QED BY <1>1, <1>2, <1>3, <1>4, <1>5, LinkRestart, LinkSetupFind DEF Link!Next, LinkActs

LEMMA LinkStays == ASSUME LinkInv, UNCHANGED ponglinks PROVE LinkInv'
<1>1. UNCHANGED <<links, cache, pages, linkPc, linkReq, linkLog>>
  BY DEF ponglinks
<1>2. LinkTypes' /\ LinkTop'
  BY <1>1 DEF LinkInv, LinkTypes, LinkTop, LinkKept, LinkActs
<1>3. LinkNumbers'
  BY <1>1 DEF LinkInv, LinkNumbers, LinkRoom, LinkActs
<1>4. LinkAlone'
  BY <1>1 DEF LinkInv, LinkAlone, LinkCached, LinkActs
<1>. QED BY <1>2, <1>3, <1>4 DEF LinkInv

\* what the invariant says of versions
LEMMA LinkGood == ASSUME LinkInv PROVE VersionsKept
<1>1. LinkRoom \in Nat /\ LinkRoom <= MaxEdits + 2 /\ Whole(links, LinkRoom)
  BY LinkRooms DEF LinkInv, LinkNumbers
<1>2. Link!HashesUnique
  <2>1. \A i, j \in DOMAIN links : links[i].hash = links[j].hash => i = j
    BY <1>1, LinkHash
  <2>. QED BY <2>1 DEF Link!HashesUnique
<1>3. Link!HashesKept
  BY DEF LinkInv, LinkTop, LinkKept, Link!HashesKept
<1>4. Link!Redirected
  <2>1. ~Link!Busy => \A a \in LinkActs : linkPc[a] = "idle"
    BY DEF Link!Busy, LinkActs
  <2>. QED BY <2>1 DEF LinkInv, LinkAlone, LinkCached, Link!Redirected
<1>. QED BY <1>2, <1>3, <1>4 DEF VersionsKept

\* and of types
LEMMA LinkTyped == ASSUME LinkInv PROVE Link!TypeOK
<1>1. LinkRoom \in Nat /\ LinkRoom <= MaxEdits + 2 /\ MaxEdits \in Nat
  BY LinkRooms DEF LinkInv
<1>2. ASSUME NEW s, NEW p, Numbered(s, p, LinkRoom) PROVE Link!IsVersions(s)
  <2>1. s \in Seq(LinkVersion) /\ Len(s) <= LinkRoom
    BY <1>2 DEF Numbered
  <2>2. Len(s) \in Nat /\ DOMAIN s = 1..Len(s)
        /\ \A i \in 1..Len(s) : s[i].hash \in Link!Hashes \union {Link!None} /\ s[i].dest \in Link!Dests
    BY <2>1, LinkSeq
  <2>3. Len(s) <= MaxEdits + 2
    BY <1>1, <2>1, <2>2
  <2>. QED BY <2>2, <2>3 DEF Link!IsVersions
<1>3. Link!IsVersions(links) /\ \A u \in Users : Link!IsVersions(pages[u])
  BY <1>2 DEF LinkInv, LinkNumbers, Whole
<1>4. \A r \in Slots \union {Link!Setup} : linkReq[r].user \in Users /\ Link!IsVersions(linkReq[r].versions)
  <2>1. \A r \in LinkActs : linkReq[r].user \in Users /\ Whole(linkReq[r].versions, LinkRoom)
    BY DEF LinkInv, LinkTypes, LinkNumbers
  <2>. QED BY <1>2, <2>1 DEF LinkActs, Whole
<1>5. cache \in [Link!Hashes -> Link!Dests \union {Link!None}]
      /\ linkPc \in [Slots \union {Link!Setup} -> {"idle", "update", "find", "cache"}]
      /\ linkLog \in [edits : 0..MaxEdits, handed : SUBSET Link!Hashes, reused : BOOLEAN, topped : BOOLEAN,
                      stale : BOOLEAN, raced : BOOLEAN]
  BY DEF LinkInv, LinkTypes, LinkActs
<1>. QED BY <1>3, <1>4, <1>5 DEF Link!TypeOK

-----------------------------------------------------------------------------
(* Types of the office *)

PageUpdating == {r \in Slots : rowPc[r] = "update"}

\* a version for each save which has updated the page: versions, and what is counted, are bounded
PageBounds ==
    /\ IsFiniteSet(PageUpdating) /\ row.ver + Cardinality(PageUpdating) <= rowLog.saves + 1
    /\ rowLog.saves <= MaxSaves /\ rowLog.visits <= MaxVisits
    /\ files \in [Page!Path -> Page!File]
    /\ rowReq \in [Slots -> Page!Request]

PageActs(r) ==
    \/ Page!Visit(r) \/ Page!Look(r) \/ Page!Find(r) \/ Page!Pipe(r)
    \/ Page!Save(r) \/ Page!Update(r) \/ Page!Read(r)
    \/ Page!Open(r) \/ Page!Fill(r) \/ Page!Crash(r)

LEMMA PageSomeRequest == Page!NoRequest \in Page!Request
<1>1. PICK s \in Slugs : TRUE
  BY PlacesAssumption
<1>2. 1 \in Page!Versions
  BY BoundsAssumption DEF Page!Versions
<1>3. [kind |-> "visit", path |-> <<s, TRUE>>, key |-> TRUE, page |-> [slug |-> s, status |-> "public", ver |-> 1]]
         \in Page!Request
  BY <1>1, <1>2 DEF Page!Request, Page!Path, Page!Row, Page!Statuses
<1>. QED BY <1>3 DEF Page!NoRequest

\* the page, and the saves which have not updated it yet
LEMMA PageCounted ==
    ASSUME PageTypes, PageBounds
    PROVE  /\ row \in Page!Row /\ Cardinality(PageUpdating) \in Nat
           /\ row.ver \in Nat /\ rowLog.saves \in Nat /\ rowLog.visits \in Nat /\ MaxSaves \in Nat
<1>1. Cardinality(PageUpdating) \in Nat
  BY FS_CardinalityType DEF PageBounds
<1>2. row \in PageRow /\ row.ver \in Nat \ {0} /\ rowLog.saves \in Nat /\ rowLog.visits \in Nat /\ MaxSaves \in Nat
  BY BoundsAssumption DEF PageTypes, PageRow
<1>3. row.ver \in 1..(MaxSaves + 1)
  BY <1>1, <1>2 DEF PageBounds
<1>. QED BY <1>1, <1>2, <1>3 DEF PageRow, Page!Row, Page!Versions

LEMMA PageBoundsInit == ASSUME Page!Init PROVE PageBounds
<1>1. PageUpdating = {} /\ IsFiniteSet(PageUpdating) /\ Cardinality(PageUpdating) = 0
  BY FS_EmptySet DEF Page!Init, PageUpdating
<1>2. row.ver = 1 /\ rowLog.saves = 0 /\ rowLog.visits = 0 /\ MaxSaves \in Nat /\ MaxVisits \in Nat
  BY BoundsAssumption DEF Page!Init
<1>3. files \in [Page!Path -> Page!File]
  BY <1>2 DEF Page!Init, Page!Absent, Page!File
<1>4. rowReq \in [Slots -> Page!Request]
  BY PageSomeRequest DEF Page!Init
<1>. QED BY <1>1, <1>2, <1>3, <1>4 DEF PageBounds

\* a save begins, updates the page, or dies
LEMMA PageUpdates ==
    ASSUME PageTypes, PageBounds, NEW r \in Slots, PageActs(r)
    PROVE  /\ IsFiniteSet(PageUpdating')
           /\ row'.ver + Cardinality(PageUpdating') <= rowLog'.saves + 1
           /\ rowLog'.saves <= MaxSaves /\ rowLog'.visits <= MaxVisits
<1>1. /\ IsFiniteSet(PageUpdating) /\ Cardinality(PageUpdating) \in Nat
      /\ row.ver \in Nat /\ rowLog.saves \in Nat /\ rowLog.visits \in Nat /\ MaxSaves \in Nat /\ MaxVisits \in Nat
  BY PageCounted, BoundsAssumption DEF PageBounds
<1>2. /\ IsFiniteSet(PageUpdating \union {r})
      /\ r \notin PageUpdating => Cardinality(PageUpdating \union {r}) = Cardinality(PageUpdating) + 1
  BY <1>1, FS_AddElement
<1>3. /\ IsFiniteSet(PageUpdating \ {r}) /\ Cardinality(PageUpdating \ {r}) \in Nat
      /\ Cardinality(PageUpdating \ {r}) <= Cardinality(PageUpdating)
      /\ r \in PageUpdating => Cardinality(PageUpdating \ {r}) = Cardinality(PageUpdating) - 1
  <2>1. /\ IsFiniteSet(PageUpdating \ {r})
        /\ Cardinality(PageUpdating \ {r}) = IF r \in PageUpdating THEN Cardinality(PageUpdating) - 1
                                             ELSE Cardinality(PageUpdating)
    BY <1>1, FS_RemoveElement
  <2>2. Cardinality(PageUpdating \ {r}) \in Nat
    BY <2>1, FS_CardinalityType
  <2>. QED BY <1>1, <2>1, <2>2
<1>4. rowLog \in [saves : Nat, visits : Nat, torn : BOOLEAN, overlapped : BOOLEAN, raced : BOOLEAN,
                  crashed : BOOLEAN]
  BY DEF PageTypes
<1>5. CASE Page!Save(r)
  <2>1. PageUpdating' = PageUpdating \union {r} /\ r \notin PageUpdating
    <3>1. \A q \in Slots : rowPc'[q] = IF q = r THEN "update" ELSE rowPc[q]
      BY <1>5, PageStep
    <3>2. rowPc[r] = "idle"
      BY <1>5 DEF Page!Save, Page!Busy
    <3>. QED BY <3>1, <3>2 DEF PageUpdating
  <2>2. row' = row /\ rowLog.saves < MaxSaves /\ rowLog'.saves = rowLog.saves + 1 /\ rowLog'.visits = rowLog.visits
    BY <1>4, <1>5 DEF Page!Save
  <2>. QED BY <1>1, <1>2, <2>1, <2>2 DEF PageBounds
<1>6. CASE Page!Update(r)
  <2>1. PageUpdating' = PageUpdating \ {r} /\ r \in PageUpdating
    BY <1>6, PageStep DEF PageUpdating, Page!Update
  <2>2. row'.ver = row.ver + 1 /\ rowLog' = rowLog
    BY <1>6 DEF Page!Update
  <2>. QED BY <1>1, <1>3, <2>1, <2>2 DEF PageBounds
<1>7. CASE Page!Crash(r)
  <2>1. PageUpdating' = PageUpdating \ {r}
    BY <1>7, PageStep DEF PageUpdating
  <2>2. row' = row /\ rowLog'.saves = rowLog.saves /\ rowLog'.visits = rowLog.visits
    BY <1>4, <1>7 DEF Page!Crash
  <2>. QED BY <1>1, <1>3, <2>1, <2>2 DEF PageBounds
<1>8. CASE Page!Visit(r) \/ Page!Look(r) \/ Page!Find(r) \/ Page!Pipe(r) \/ Page!Read(r) \/ Page!Open(r) \/ Page!Fill(r)
  <2>1. rowPc[r] # "update" /\ rowPc'[r] # "update" /\ \A q \in Slots : q # r => rowPc'[q] = rowPc[q]
    <3>1. rowPc[r] # "update"
      BY <1>8 DEF Page!Visit, Page!Look, Page!Find, Page!Pipe, Page!Read, Page!Open, Page!Fill, Page!Busy
    <3>. QED BY <1>8, <3>1, PageStep
  <2>2. PageUpdating' = PageUpdating
    BY <2>1 DEF PageUpdating
  <2>3. row' = row
    BY <1>8 DEF Page!Visit, Page!Look, Page!Find, Page!Pipe, Page!Read, Page!Open, Page!Fill
  <2>4. rowLog'.saves = rowLog.saves /\ rowLog'.visits <= MaxVisits
    <3>1. CASE Page!Visit(r)
      BY <1>1, <1>4, <3>1 DEF Page!Visit
    <3>2. CASE Page!Pipe(r)
      BY <1>4, <3>2 DEF Page!Pipe, PageBounds
    <3>3. CASE Page!Look(r) \/ Page!Find(r) \/ Page!Read(r) \/ Page!Open(r) \/ Page!Fill(r)
      BY <3>3 DEF Page!Look, Page!Find, Page!Read, Page!Open, Page!Fill, PageBounds
    <3>. QED BY <1>8, <3>1, <3>2, <3>3
  <2>. QED BY <1>1, <2>2, <2>3, <2>4 DEF PageBounds
<1>. QED BY <1>5, <1>6, <1>7, <1>8 DEF PageActs

\* what is written is a version of the page, and so is what was read
LEMMA PageBoundsKept ==
    ASSUME PageTypes, PageBounds, NEW r \in Slots, PageActs(r)
    PROVE  PageBounds'
<1>1. /\ IsFiniteSet(PageUpdating') /\ row'.ver + Cardinality(PageUpdating') <= rowLog'.saves + 1
      /\ rowLog'.saves <= MaxSaves /\ rowLog'.visits <= MaxVisits
  BY PageUpdates
<1>2. rowReq[r] \in Page!Request /\ rowReq[r].page \in Page!Row /\ rowReq[r].page.ver \in 1..(MaxSaves + 1)
      /\ MaxSaves \in Nat
  BY BoundsAssumption DEF PageBounds, Page!Request, Page!Row, Page!Versions
<1>3. row \in Page!Row
  BY PageCounted
<1>4. Page!Landing(rowReq[r].page) \in Page!Path
  BY <1>2 DEF Page!Row, Page!Landing, Page!Path
<1>5. \A w \in BOOLEAN : [ver |-> rowReq[r].page.ver, whole |-> w] \in Page!File
  BY <1>2 DEF Page!File
<1>6. files' \in [Page!Path -> Page!File]
  <2>1. CASE Page!Open(r)
    BY <1>4, <1>5, <2>1 DEF Page!Open, PageBounds
  <2>2. CASE Page!Fill(r)
    <3>1. PICK w \in BOOLEAN :
             files' = [files EXCEPT ![Page!Landing(rowReq[r].page)] = [ver |-> rowReq[r].page.ver, whole |-> w]]
      BY <2>2 DEF Page!Fill
    <3>. QED BY <1>4, <1>5, <3>1 DEF PageBounds
  <2>3. CASE ~Page!Open(r) /\ ~Page!Fill(r)
    <3>1. files' = files
      BY <2>3 DEF PageActs, Page!Visit, Page!Look, Page!Find, Page!Pipe, Page!Save, Page!Update, Page!Read, Page!Crash
    <3>. QED BY <3>1 DEF PageBounds, Page!Path, Page!File
  <2>. QED BY <2>1, <2>2, <2>3
<1>7. rowReq' \in [Slots -> Page!Request]
  <2>1. \/ rowReq' = rowReq
        \/ \E v \in Page!Request : rowReq' = [rowReq EXCEPT ![r] = v]
    <3>1. CASE Page!Visit(r)
      <4>1. PICK p \in Page!Path, k \in BOOLEAN :
               rowReq' = [rowReq EXCEPT ![r] = [@ EXCEPT !.kind = "visit", !.path = p, !.key = k]]
        BY <3>1 DEF Page!Visit
      <4>2. [rowReq[r] EXCEPT !.kind = "visit", !.path = p, !.key = k] \in Page!Request
        BY <1>2 DEF Page!Request
      <4>. QED BY <4>1, <4>2
    <3>2. CASE Page!Find(r)
      <4>1. [rowReq[r] EXCEPT !.page = row] \in Page!Request
        BY <1>2, <1>3 DEF Page!Request
      <4>. QED BY <3>2, <4>1, PageSomeRequest DEF Page!Find, Page!Done
    <3>3. CASE Page!Save(r)
      <4>1. [rowReq[r] EXCEPT !.kind = "save", !.page = row] \in Page!Request
        BY <1>2, <1>3 DEF Page!Request
      <4>2. rowReq' = [rowReq EXCEPT ![r] = [rowReq[r] EXCEPT !.kind = "save", !.page = row]]
        BY <3>3 DEF Page!Save, PageBounds
      <4>. QED BY <4>1, <4>2
    <3>4. CASE Page!Read(r)
      <4>1. [rowReq[r] EXCEPT !.page = row] \in Page!Request
        BY <1>2, <1>3 DEF Page!Request
      <4>. QED BY <3>4, <4>1 DEF Page!Read
    <3>5. CASE Page!Fill(r)
      <4>1. [rowReq[r] EXCEPT !.path = Page!Landing(rowReq[r].page)] \in Page!Request
        BY <1>2, <1>4 DEF Page!Request
      <4>. QED BY <3>5, <4>1, PageSomeRequest DEF Page!Fill, Page!Written, Page!Done
    <3>6. CASE Page!Look(r) \/ Page!Pipe(r) \/ Page!Update(r) \/ Page!Open(r) \/ Page!Crash(r)
      BY <3>6, PageSomeRequest DEF Page!Look, Page!Pipe, Page!Update, Page!Open, Page!Crash, Page!Done
    <3>. QED BY <3>1, <3>2, <3>3, <3>4, <3>5, <3>6 DEF PageActs
  <2>. QED BY <2>1 DEF PageBounds
<1>. QED BY <1>1, <1>6, <1>7 DEF PageBounds, Page!Path, Page!File, Page!Request, Page!Row, Page!Versions, Page!Statuses

LEMMA PageTyped == ASSUME PageInv, PageBounds PROVE Page!TypeOK
<1>1. row \in Page!Row /\ rowLog.saves \in 0..MaxSaves /\ rowLog.visits \in 0..MaxVisits
  BY PageCounted, BoundsAssumption DEF PageInv, PageBounds
<1>2. rowLog \in [saves : Nat, visits : Nat, torn : BOOLEAN, overlapped : BOOLEAN, raced : BOOLEAN, crashed : BOOLEAN]
      /\ rowPc \in [Slots -> PagePCs]
  BY DEF PageInv, PageTypes
<1>. QED BY <1>1, <1>2 DEF PageBounds, PagePCs, Page!TypeOK

EdBounded == edLog.jobs <= MaxMerges

\* a job begins, or none does
LEMMA EdBoundedKept == ASSUME Levels # {}, EdTypes, EdBounded, Filing!Next PROVE EdBounded'
<1>1. PICK r \in Slots : EdActs(r)
  BY DEF Filing!Next, EdActs
<1>2. CASE EdStarts(r)
  <2>1. PICK first \in Filing!PCs, job \in EdJob : Filing!Begin(r, first, job)
    BY <1>2, EdBegins
  <2>2. edLog.jobs < MaxMerges /\ edLog'.jobs = edLog.jobs + 1
    BY <2>1 DEF Filing!Begin
  <2>3. edLog.jobs \in Nat /\ MaxMerges \in Nat
    BY BoundsAssumption DEF EdTypes
  <2>. QED BY <2>2, <2>3 DEF EdBounded
<1>3. CASE ~EdStarts(r)
  <2>1. edLog' = edLog
    BY <1>1, <1>3 DEF EdActs, EdStarts, Filing!MergeCheck, Filing!MergeMark, Filing!MergeFind, Filing!MergeWrite,
       Filing!ReplaceMark, Filing!ReplacePosts, Filing!MoveGroups, Filing!MoveCommit, Filing!MoveMark, Filing!MovePosts
  <2>. QED BY <2>1 DEF EdBounded
<1>. QED BY <1>2, <1>3

LEMMA EdTyped == ASSUME EdInv, EdBounded PROVE Filing!TypeOK
<1>1. EdTypes
  BY DEF EdInv
<1>2. edLog.jobs \in 0..MaxMerges
  BY <1>1, BoundsAssumption DEF EdTypes, EdBounded
<1>3. \A r \in Slots : edReq[r] \in EdJob
  BY <1>1 DEF EdTypes
<1>4. ASSUME NEW r \in Slots
      PROVE  /\ edReq[r].from \subseteq Eds /\ edReq[r].to \in Eds \union {Filing!None} /\ edReq[r].level \in Levels
             /\ edReq[r].rest \subseteq Eds /\ edReq[r].groups \subseteq Filing!Filing
             /\ DOMAIN edReq[r].read \subseteq Posts
  BY <1>3 DEF EdJob, EdReads
<1>. QED BY <1>1, <1>2, <1>4 DEF EdTypes, Filing!TypeOK

LEMMA TextWellTyped == ASSUME TextInv PROVE Edit!TypeOK
BY DEF TextInv, TextTypes, TextPage, TextSave, TextLog, Edit!TypeOK

-----------------------------------------------------------------------------
(* The office *)

\* A visitor is served a whole page when requests do not overlap, and the file of a page is the page in
\* the database when saves do not, for any slugs, requests and versions (lib/styledpages.js).
THEOREM PagesAreKept == OfficeSpec => []PagesKept
<1>a. Slugs # {} /\ MaxSaves \in Nat
  BY PlacesAssumption, BoundsAssumption
<1>1. OfficeInit => PageInv
  BY <1>a, PageInit DEF OfficeInit
<1>2. PageInv /\ [OfficeNext]_officeVars => PageInv'
  <2> SUFFICES ASSUME PageInv, [OfficeNext]_officeVars PROVE PageInv'
    OBVIOUS
  <2>1. Page!Next \/ UNCHANGED styled
    BY DEF OfficeNext, officeVars
  <2>2. QED
    BY <2>1, <1>a, PageStepKept, PageStays
<1>3. PageInv => PagesKept
  BY PageGood
<1>4. QED
  BY <1>1, <1>2, <1>3, PTL DEF OfficeSpec

\* No article is left under an edition which was merged or replaced when jobs do not overlap, and each is
\* filed under editions of their level when no move overlaps another job, for any editions, levels,
\* articles and jobs (lib/editions.js).
THEOREM EditionsAreKept == OfficeSpec => []EditionsKept
<1>a. Levels # {}
  BY PlacesAssumption
<1>1. OfficeInit => EdInv
  BY <1>a, EdInit DEF OfficeInit
<1>2. EdInv /\ [OfficeNext]_officeVars => EdInv'
  <2> SUFFICES ASSUME EdInv, [OfficeNext]_officeVars PROVE EdInv'
    OBVIOUS
  <2>1. Filing!Next \/ UNCHANGED editions
    BY DEF OfficeNext, officeVars
  <2>2. QED
    BY <2>1, <1>a, EdStepKept, EdStays
<1>3. EdInv => EditionsKept
  BY EdGood
<1>4. QED
  BY <1>1, <1>2, <1>3, PTL DEF OfficeSpec

\* What was typed last is in the database, or kept to be sent; it is saved into no other article; and an
\* update publishes what the screen showed; unless requests overlapped, or articles took each other's
\* place while there were edits, for any articles and any number of requests
\* (apps/lilium/pages/publishing/edit.js).
THEOREM EditsAreKept == OfficeSpec => []EditsKept
<1>1. OfficeInit => TextInv
  BY TextInit DEF OfficeInit
<1>2. TextInv /\ [OfficeNext]_officeVars => TextInv'
  <2> SUFFICES ASSUME TextInv, [OfficeNext]_officeVars PROVE TextInv'
    OBVIOUS
  <2>1. Edit!Next \/ UNCHANGED editor
    BY DEF OfficeNext, officeVars
  <2>2. QED
    BY <2>1, TextStepKept, TextStays
<1>3. TextInv => EditsKept
  BY TextGood
<1>4. QED
  BY <1>1, <1>2, <1>3, PTL DEF OfficeSpec

\* No two versions of a link have one hash; one which was handed out is given to no other version, unless
\* the highest was removed or a page did not know of it; and each is redirected to where it should, a
\* restart of the cache included, unless requests overlapped; for any users, requests and changes
\* (lib/ponglinks.js, controllers/ponglinks.js).
THEOREM VersionsAreKept == OfficeSpec => []VersionsKept
<1>1. OfficeInit => LinkInv
  BY LinkInit DEF OfficeInit
<1>2. LinkInv /\ [OfficeNext]_officeVars => LinkInv'
  <2> SUFFICES ASSUME LinkInv, [OfficeNext]_officeVars PROVE LinkInv'
    OBVIOUS
  <2>1. Link!Next \/ UNCHANGED ponglinks
    BY DEF OfficeNext, officeVars
  <2>2. QED
    BY <2>1, LinkStep, LinkStays
<1>3. LinkInv => VersionsKept
  BY LinkGood
<1>4. QED
  BY <1>1, <1>2, <1>3, PTL DEF OfficeSpec

\* all the components at once
OfficeInv == part \in Parts /\ TextInv /\ EdInv /\ EdBounded /\ PageInv /\ PageBounds /\ LinkInv /\ TypeOK

\* Every variable of the five components has its type, the bounds of what is counted included, for any
\* articles, editions, slugs, users, cards and requests (apps/lilium, lib/editions.js, lib/styledpages.js,
\* lib/ponglinks.js, lib/creditcards.js).
THEOREM TypesOfTheOffice == OfficeSpec => []OfficeTypeOK
<1>a. Slugs # {} /\ MaxSaves \in Nat /\ MaxMerges \in Nat /\ Levels # {} /\ Cards # {} /\ Currencies # {}
  BY PlacesAssumption, BoundsAssumption, CardsAssumption
<1>1. OfficeInit => OfficeInv
  <2>1. Filing!Init => EdBounded
    BY <1>a DEF Filing!Init, EdBounded
  <2>. QED BY <1>a, <2>1, TextInit, EdInit, PageInit, PageBoundsInit, LinkInit, InitType DEF OfficeInit, OfficeInv
<1>2. OfficeInv /\ [OfficeNext]_officeVars => OfficeInv'
  <2> SUFFICES ASSUME OfficeInv, [OfficeNext]_officeVars PROVE OfficeInv'
    OBVIOUS
  <2>1. part' = part
    BY DEF OfficeNext, officeVars
  <2>2. TextInv'
    <3>1. Edit!Next \/ UNCHANGED editor
      BY DEF OfficeNext, officeVars
    <3>. QED BY <3>1, TextStepKept, TextStays DEF OfficeInv
  <2>3. EdInv' /\ EdBounded'
    <3>1. Filing!Next \/ UNCHANGED editions
      BY DEF OfficeNext, officeVars
    <3>2. CASE Filing!Next
      BY <1>a, <3>2, EdStepKept, EdBoundedKept DEF OfficeInv, EdInv
    <3>3. CASE UNCHANGED editions
      BY <3>3, EdStays DEF OfficeInv, EdBounded, editions
    <3>. QED BY <3>1, <3>2, <3>3
  <2>4. PageInv' /\ PageBounds'
    <3>1. Page!Next \/ UNCHANGED styled
      BY DEF OfficeNext, officeVars
    <3>2. CASE Page!Next
      <4>1. PICK r \in Slots : PageActs(r)
        BY <3>2 DEF Page!Next, PageActs
      <4>. QED BY <1>a, <3>2, <4>1, PageStepKept, PageBoundsKept DEF OfficeInv, PageInv
    <3>3. CASE UNCHANGED styled
      <4>1. PageInv'
        BY <3>3, PageStays DEF OfficeInv
      <4>2. UNCHANGED <<row, files, rowPc, rowReq, rowLog>>
        BY <3>3 DEF styled
      <4>3. PageUpdating' = PageUpdating
        BY <4>2 DEF PageUpdating
      <4>4. PageBounds'
        BY <4>2, <4>3 DEF OfficeInv, PageBounds, Page!Path, Page!File, Page!Request, Page!Row, Page!Versions,
                          Page!Statuses
      <4>. QED BY <4>1, <4>4
    <3>. QED BY <3>1, <3>2, <3>3
  <2>5. LinkInv'
    <3>1. Link!Next \/ UNCHANGED ponglinks
      BY DEF OfficeNext, officeVars
    <3>. QED BY <3>1, LinkStep, LinkStays DEF OfficeInv
  <2>6. TypeOK'
    <3>1. [Next]_vars
      BY DEF OfficeNext, officeVars, wallet, vars
    <3>. QED BY <1>a, <3>1, StepType DEF OfficeInv
  <2>. QED BY <2>1, <2>2, <2>3, <2>4, <2>5, <2>6 DEF OfficeInv, Parts
<1>3. OfficeInv => OfficeTypeOK
  BY TextWellTyped, EdTyped, PageTyped, LinkTyped DEF OfficeInv, OfficeTypeOK
<1>4. QED
  BY <1>1, <1>2, <1>3, PTL DEF OfficeSpec
=============================================================================
