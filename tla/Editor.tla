------------------------------- MODULE Editor -------------------------------
(***************************************************************************)
(* The page where an article is edited (apps/lilium/pages/publishing/      *)
(* edit.js), its text editor (widgets/texteditor.js), and the requests     *)
(* which save: what is edited is kept aside, sent when the text editor     *)
(* is left, once a minute or on demand, and forgotten when any of          *)
(* these requests is answered.                                             *)
(***************************************************************************)
EXTENDS Integers, FiniteSets

CONSTANTS
    Posts,      \* the articles
    MaxTyped,   \* bound on what the user types
    MaxSaves,   \* bound on the requests to save
    MaxOpened   \* bound on the articles opened from the page of another

VARIABLES
    db,       \* the articles, field by field
    page,     \* the article on the page, the text and old value of the text editor, the articles asked for
    edits,    \* fields edited
    flight,   \* requests in flight
    log       \* what was typed where, and what may excuse a loss

vars == <<db, page, edits, flight, log>>

Fields == {"title", "content"}
None == 0
Blank == -1

\* the value of a field is what it was at first, or the number of what was typed
Values == Posts \union 1..MaxTyped
Docs == [Fields -> Values]
Edits == [Fields -> Values \union {None}]
Nothing == [f \in Fields |-> None]

\* an article which was asked for, and what the server read of it
Loads == [id : 1..MaxOpened, post : Posts, read : BOOLEAN, got : Docs]

Merge(doc, e) == [f \in Fields |-> IF e[f] = None THEN doc[f] ELSE e[f]]

Original(p) == [f \in Fields |-> p]

TypeOK ==
    /\ db \in [Posts -> Docs]
    /\ page \in [post : Posts, shown : Docs, text : Values, old : Values \union {Blank},
                 loads : SUBSET Loads]
    /\ edits \in Edits
    /\ \A q \in flight :
          q \in [id : 1..MaxSaves, post : Posts, edits : Edits, next : {"none", "commit"}, snap : Docs,
                 step : {"read", "write", "answer", "commit"}, ok : BOOLEAN, wanted : Docs]
    /\ log \in [where : [1..MaxTyped -> Posts \union {None}], typed : 0..MaxTyped, sent : 0..MaxSaves,
                opened : 0..MaxOpened, raced : BOOLEAN, failed : BOOLEAN, carried : BOOLEAN,
                meant : Docs, live : [got : Docs, wanted : Docs]]

Init ==
    \E p \in Posts :
        /\ db = [q \in Posts |-> Original(q)]
        /\ page = [post |-> p, shown |-> Original(p), text |-> p, old |-> Blank, loads |-> {}]
        /\ edits = Nothing
        /\ flight = {}
        /\ log = [where |-> [n \in 1..MaxTyped |-> None], typed |-> 0, sent |-> 0, opened |-> 0,
                  raced |-> FALSE, failed |-> FALSE, carried |-> FALSE,
                  meant |-> Original(p), live |-> [got |-> Original(p), wanted |-> Original(p)]]

-----------------------------------------------------------------------------
(* The page *)

\* the text editor takes the text it is given when the page is drawn again
Drawn(shown) == IF shown["content"] = page.text
                THEN [page EXCEPT !.shown = shown]
                ELSE [page EXCEPT !.shown = shown, !.text = shown["content"], !.old = shown["content"]]

Typed(f) == [log EXCEPT !.typed = @ + 1, !.where[log.typed + 1] = page.post,
                        !.meant[f] = log.typed + 1, !.raced = @ \/ flight # {}]

\* the text on the screen; the title on the screen is the page's
Screen == [page.shown EXCEPT !["content"] = page.text]

\* fieldChanged(), which writes into the page's article; the text editor was left before
TypeTitle ==
    /\ page.loads = {} /\ page.text = page.old
    /\ log.typed < MaxTyped
    /\ edits' = [edits EXCEPT !["title"] = log.typed + 1]
    /\ page' = Drawn([page.shown EXCEPT !["title"] = log.typed + 1])
    /\ log' = Typed("title")
    /\ UNCHANGED <<db, flight>>

TypeText ==
    /\ page.loads = {}
    /\ log.typed < MaxTyped
    /\ page' = [page EXCEPT !.text = log.typed + 1]
    /\ log' = Typed("content")
    /\ UNCHANGED <<db, edits, flight>>

\* savePost(): the edits are sent as they are, for the article of the page
Request(e, next) == [id |-> log.sent + 1, post |-> page.post, edits |-> e, next |-> next,
                     snap |-> Original(page.post), step |-> "read", ok |-> FALSE, wanted |-> Screen]

Sent == [log EXCEPT !.sent = @ + 1, !.raced = @ \/ flight # {} \/ \E l \in page.loads : l.read]

\* A mutant of Blur: contentChanged() does not save.
BlurKept ==
    /\ page.loads = {} /\ page.text # page.old
    /\ edits' = [edits EXCEPT !["content"] = page.text]
    /\ page' = [page EXCEPT !.old = page.text]
    /\ UNCHANGED <<db, flight, log>>

\* handleBlur(), on leaving or once a minute, contentChanged() and autosave()
Blur ==
    /\ page.loads = {} /\ page.text # page.old
    /\ log.sent < MaxSaves
    /\ edits' = [edits EXCEPT !["content"] = page.text]
    /\ page' = [page EXCEPT !.old = page.text]
    /\ flight' = flight \union {Request(edits', "none")}
    /\ log' = Sent
    /\ UNCHANGED db

\* done(): commitchanges() asks for the page to be generated, whether or not it was saved
Continue(q) == IF q.next = "commit" THEN {[q EXCEPT !.step = "commit"]} ELSE {}

\* save(), alone or before commitchanges(); validate(), preview() and submitForApproval() begin alike.
\* The text editor was left before; save() is a command of the page too, while it loads.
Click(next) ==
    /\ IF page.loads = {} THEN page.text = page.old ELSE next = "none"
    /\ \A q \in flight : q.next # next
    /\ log.sent < MaxSaves
    /\ flight' = flight \union (IF edits = Nothing THEN Continue(Request(edits, next))
                                ELSE {Request(edits, next)})
    /\ log' = Sent
    /\ UNCHANGED <<db, page, edits>>

\* requestArticle(), for the page stays when another article is asked for; the edits stay too, and a text
\* which was not left is not one of them yet
Open(p) ==
    /\ log.opened < MaxOpened
    /\ page' = [page EXCEPT !.loads = @ \union {[id |-> log.opened + 1, post |-> p, read |-> FALSE,
                                               got |-> Original(p)]}]
    /\ log' = [log EXCEPT !.opened = @ + 1,
                          !.carried = @ \/ page.text \notin {page.old, page.shown["content"]}]
    /\ UNCHANGED <<db, edits, flight>>

\* getFull() reads the article; its answer waits for the history, and for its way to the page
Fetched(l) ==
    /\ ~l.read
    /\ page' = [page EXCEPT !.loads = (@ \ {l}) \union {[l EXCEPT !.read = TRUE, !.got = db[l.post]]}]
    /\ log' = [log EXCEPT !.raced = @ \/ flight # {}]
    /\ UNCHANGED <<db, edits, flight>>

\* the spinner makes room for the page as it was read, with a new text editor
Loaded(l) ==
    /\ l.read
    /\ page' = [post |-> l.post, shown |-> l.got, text |-> l.got["content"], old |-> Blank,
                loads |-> page.loads \ {l}]
    /\ log' = [log EXCEPT !.meant = l.got, !.carried = @ \/ edits # Nothing]
    /\ UNCHANGED <<db, edits, flight>>

\* A mutant of Answer: the edits are forgotten whatever the answer.
AnswerForgets(q) ==
    /\ q.step = "answer"
    /\ flight' = (flight \ {q}) \union Continue(q)
    /\ edits' = Nothing
    /\ page' = IF q.ok THEN Drawn(Merge(page.shown, edits)) ELSE page
    /\ UNCHANGED <<db, log>>

\* the answer has an entry of the history if anything was saved: the page takes the edits there are
\* now, and forgets them; if not they stay
Answer(q) ==
    /\ q.step = "answer"
    /\ flight' = (flight \ {q}) \union Continue(q)
    /\ IF q.ok THEN page' = Drawn(Merge(page.shown, edits)) /\ edits' = Nothing
               ELSE UNCHANGED <<page, edits>>
    /\ UNCHANGED <<db, log>>

-----------------------------------------------------------------------------
(* The worker, and what may fail *)

Becomes(q, r) == flight' = (flight \ {q}) \union {r}

\* update(): the article is read, and nothing written when it would not change
Read(q) ==
    /\ q.step = "read"
    /\ Becomes(q, IF Merge(db[q.post], q.edits) = db[q.post] THEN [q EXCEPT !.step = "answer"]
                  ELSE [q EXCEPT !.step = "write", !.snap = db[q.post]])
    /\ UNCHANGED <<db, page, edits, log>>

\* the whole of it is written
Write(q) ==
    /\ q.step = "write"
    /\ db' = [db EXCEPT ![q.post] = Merge(q.snap, q.edits)]
    /\ Becomes(q, [q EXCEPT !.step = "answer", !.ok = TRUE])
    /\ UNCHANGED <<page, edits, log>>

\* refreshPost(), with what is in the database
Commit(q) ==
    /\ q.step = "commit"
    /\ log' = [log EXCEPT !.live = [got |-> db[q.post], wanted |-> q.wanted]]
    /\ flight' = flight \ {q}
    /\ UNCHANGED <<db, page, edits>>

Refuse(q) ==
    /\ q.step = "read"
    /\ Becomes(q, [q EXCEPT !.step = "answer"])
    /\ log' = [log EXCEPT !.failed = TRUE]
    /\ UNCHANGED <<db, page, edits>>

\* the connection breaks, before the worker hears or before it is heard: nobody listens to that, and
\* done is never called
Lose(q) ==
    /\ q.step # "write"
    /\ flight' = flight \ {q}
    /\ log' = [log EXCEPT !.failed = TRUE]
    /\ UNCHANGED <<db, page, edits>>

Next ==
    \/ TypeTitle
    \/ TypeText
    \/ Blur
    \/ \E next \in {"none", "commit"} : Click(next)
    \/ \E p \in Posts : Open(p)
    \/ \E l \in page.loads : Fetched(l) \/ Loaded(l)
    \/ \E q \in flight : Answer(q) \/ Read(q) \/ Write(q) \/ Commit(q) \/ Refuse(q) \/ Lose(q)

Load == \E l \in page.loads : Fetched(l) \/ Loaded(l)

Serve == \E q \in flight : Answer(q) \/ Read(q) \/ Write(q) \/ Commit(q)

Fairness ==
    /\ WF_vars(Blur)
    /\ WF_vars(Serve)
    /\ WF_vars(Load)

Spec == Init /\ [][Next]_vars /\ Fairness

-----------------------------------------------------------------------------
(* Properties *)

\* What the user typed last is in the database, or kept to be sent, be saves refused or lost, as long as
\* nobody types or saves while a save is in flight, and no article is read before a save which it does not
\* have and shown after it (edit.js:537, 819, texteditor.js:277).
EditsKept ==
    ~log.raced /\ ~log.carried /\ page.loads = {} =>
        \A f \in Fields :
            \/ log.meant[f] \in {db[page.post][f], edits[f]}
            \/ f = "content" /\ log.meant[f] = page.text /\ page.text # page.old

\* What is typed into an article is saved into no other, unless another took its place while there were
\* edits, which nobody forgets (edit.js:824).
OwnArticle ==
    ~log.carried => \A p \in Posts, f \in Fields :
        db[p][f] # p => db[p][f] \in 1..MaxTyped /\ log.where[db[p][f]] = p

\* An update puts on the website what was on the screen when it was asked for, unless requests overlapped
\* or failed (edit.js:784).
LiveAsShown ==
    ~log.raced /\ ~log.failed /\ ~log.carried => log.live.got = log.live.wanted

\* What is typed as text reaches the database, or a save failed, or overlapped with another
\* (edit.js:857).
TextSaved ==
    page.text # db[page.post]["content"] ~>
        \/ page.text = db[page.post]["content"]
        \/ log.raced \/ log.failed \/ log.carried \/ log.sent = MaxSaves
=============================================================================
