---------------------------- MODULE CreditCards ----------------------------
(***************************************************************************)
(* The cards payments are charged to: lib/creditcards.js, as               *)
(* controllers/creditcards.js drives it.  getDefaultCardByCurrency takes   *)
(* the first default card of a currency it finds, and dispatchOne throws   *)
(* when there is none, so there had better be exactly one.                 *)
(***************************************************************************)
EXTENDS Naturals

CONSTANTS
    Cards,       \* identities of cards
    Currencies,
    Managers     \* requests served at the same time

VARIABLES
    cards,  \* the creditcards collection
    pc,     \* next round trip of each request
    form,   \* what the request says of the card
    past    \* what may leave a currency with two defaults

vars == <<cards, pc, form, past>>

-----------------------------------------------------------------------------
(* Types *)

Absent == [stored |-> FALSE, currency |-> CHOOSE c \in Currencies : TRUE, default |-> FALSE]

CardRec == [stored : BOOLEAN, currency : Currencies, default : BOOLEAN]

\* what the form of the dashboard sends; reset is the currency whose cards are about to
\* lose their default
Form == [card : Cards, currency : Currencies, default : BOOLEAN, reset : Currencies]

PCs == {"idle", "create.reset", "create.insert", "update.find", "update.reset", "update.write"}

\* crossed: requests which reset their currency, in which another default was stored since;
\* spoilt: currencies a request stored a default in which had been crossed, or had reset another currency
TypeOK ==
    /\ cards \in [Cards -> CardRec]
    /\ pc \in [Managers -> PCs]
    /\ form \in [Managers -> Form]
    /\ past \in [crossed : SUBSET Managers, spoilt : SUBSET Currencies]

NoForm == CHOOSE f \in Form : TRUE

Default(cur) == {c \in Cards : cards[c].stored /\ cards[c].default /\ cards[c].currency = cur}

Init ==
    /\ cards = [c \in Cards |-> Absent]
    /\ pc = [m \in Managers |-> "idle"]
    /\ form = [m \in Managers |-> NoForm]
    /\ past = [crossed |-> {}, spoilt |-> {}]

-----------------------------------------------------------------------------
(* resetCurrencyDefaults() *)

\* requests which are about to store a default in a currency
Storing(cur) ==
    {m \in Managers : pc[m] \in {"create.insert", "update.write"} /\ form[m].default /\ form[m].currency = cur}

\* whatever was stored before is repaired
Reset(cur) ==
    /\ cards' = [c \in Cards |->
           IF cards[c].currency = cur THEN [cards[c] EXCEPT !.default = FALSE] ELSE cards[c]]
    /\ past' = [crossed |-> past.crossed \ Storing(cur), spoilt |-> past.spoilt \ {cur}]

\* the card is stored, and its request is over
Stored(m) ==
    /\ past' = IF ~form[m].default THEN [past EXCEPT !.crossed = @ \ {m}]
               ELSE [crossed |-> (past.crossed \union Storing(form[m].currency)) \ {m},
                     spoilt |-> IF m \in past.crossed \/ form[m].reset # form[m].currency
                                THEN past.spoilt \union {form[m].currency} ELSE past.spoilt]
    /\ pc' = [pc EXCEPT ![m] = "idle"]
    /\ form' = [form EXCEPT ![m] = NoForm]

-----------------------------------------------------------------------------
(* POST: createCreditCard() *)

\* a new card has an identity of its own
StartCreate(m) ==
    /\ pc[m] = "idle"
    /\ \E c \in Cards, cur \in Currencies, def \in BOOLEAN :
          /\ ~cards[c].stored
          /\ \A n \in Managers : pc[n] # "idle" => form[n].card # c
          /\ form' = [form EXCEPT ![m] = [card |-> c, currency |-> cur, default |-> def,
                                          reset |-> cur]]
          /\ pc' = [pc EXCEPT ![m] = IF def THEN "create.reset" ELSE "create.insert"]
    /\ UNCHANGED <<cards, past>>

CreateReset(m) ==
    /\ pc[m] = "create.reset"
    /\ Reset(form[m].reset)
    /\ pc' = [pc EXCEPT ![m] = "create.insert"]
    /\ UNCHANGED form

CreateInsert(m) ==
    /\ pc[m] = "create.insert"
    /\ cards' = [cards EXCEPT ![form[m].card] =
                    [stored |-> TRUE, currency |-> form[m].currency, default |-> form[m].default]]
    /\ Stored(m)

-----------------------------------------------------------------------------
(* PUT: updateCreditCard() *)

\* the form sends the whole card, so there is always something to cipher and the
\* card is looked up for its iv
StartUpdate(m) ==
    /\ pc[m] = "idle"
    /\ \E c \in Cards, cur \in Currencies, def \in BOOLEAN :
          /\ cards[c].stored
          /\ form' = [form EXCEPT ![m] = [card |-> c, currency |-> cur,
                                          default |-> def, reset |-> cur]]
    /\ pc' = [pc EXCEPT ![m] = "update.find"]
    /\ UNCHANGED <<cards, past>>

\* A mutant of UpdateFind: the card is read, the other defaults are not reset.
UpdateFindOnly(m) ==
    /\ pc[m] = "update.find"
    /\ pc' = [pc EXCEPT ![m] = IF cards[form[m].card].stored THEN "update.write" ELSE "idle"]
    /\ UNCHANGED <<cards, form, past>>

\* the card is read for its iv; the currency which is reset is the one it has, not the
\* one of the form; a card which is gone is answered with no error
UpdateFind(m) ==
    /\ pc[m] = "update.find"
    /\ LET card == cards[form[m].card] IN
         IF ~card.stored
         THEN pc' = [pc EXCEPT ![m] = "idle"] /\ form' = [form EXCEPT ![m] = NoForm]
         ELSE /\ form' = [form EXCEPT ![m].reset = card.currency]
              /\ pc' = [pc EXCEPT ![m] = IF form[m].default THEN "update.reset" ELSE "update.write"]
    /\ UNCHANGED <<cards, past>>

UpdateReset(m) ==
    /\ pc[m] = "update.reset"
    /\ Reset(form[m].reset)
    /\ pc' = [pc EXCEPT ![m] = "update.write"]
    /\ UNCHANGED form

\* A mutant of UpdateWrite: the form replaces the card, where $set keeps its other fields.
UpdateReplaces(m) ==
    /\ pc[m] = "update.write"
    /\ cards' = [cards EXCEPT ![form[m].card] =
                    [currency |-> form[m].currency, default |-> form[m].default]]
    /\ Stored(m)

UpdateWrite(m) ==
    /\ pc[m] = "update.write"
    /\ cards' = IF cards[form[m].card].stored
                THEN [cards EXCEPT ![form[m].card].currency = form[m].currency,
                                   ![form[m].card].default = form[m].default]
                ELSE cards
    /\ Stored(m)

-----------------------------------------------------------------------------
(* DELETE: deleteCreditCard() *)

Delete(c) ==
    /\ cards[c].stored
    /\ cards' = [cards EXCEPT ![c] = Absent]
    /\ UNCHANGED <<pc, form, past>>

-----------------------------------------------------------------------------

Next ==
    \/ \E m \in Managers :
          \/ StartCreate(m) \/ CreateReset(m) \/ CreateInsert(m)
          \/ StartUpdate(m) \/ UpdateFind(m) \/ UpdateReset(m) \/ UpdateWrite(m)
    \/ \E c \in Cards : Delete(c)

Spec == Init /\ [][Next]_vars

-----------------------------------------------------------------------------
(* Properties *)

\* A currency has at most one default card, "the default credit card for the given currency"
\* (getDefaultCardByCurrency, lib/creditcards.js:107), whatever requests overlap and cards change currency:
\* only a request which reset its currency before another default was stored in it, or one which reset the
\* currency the card had and stores it in another, leaves two, until the currency is reset again.
OneDefault ==
    \A cur \in Currencies \ past.spoilt : \A c, d \in Default(cur) : c = d
=============================================================================
