------------------------------ MODULE MCOffice ------------------------------
(***************************************************************************)
(* What is done from the dashboard, for TLC: articles are edited, and      *)
(* cards, editions, pages and short links are kept.  They share no state:  *)
(* part says which of them moves in a behaviour, and the others stay where *)
(* they are.                                                               *)
(***************************************************************************)
EXTENDS CreditCards

CONSTANTS
    Posts, MaxTyped, MaxSaves, MaxOpened,
    Eds, Levels, Slots, MaxMerges,
    Slugs, MaxVisits,
    Users, MaxEdits

ASSUME BoundsAssumption == MaxTyped \in Nat /\ MaxSaves \in Nat \ {0} /\ {MaxOpened, MaxMerges, MaxVisits, MaxEdits} \subseteq Nat
ASSUME PlacesAssumption == Levels # {} /\ Slugs # {} /\ Users # {}
ASSUME CardsAssumption == Cards # {} /\ Currencies # {}
\* what is typed is a number, and the number of no article
ASSUME PostsAssumption == Posts \intersect 0..MaxTyped = {}

VARIABLES
    part,
    db, page, edits, flight, log,
    eds, posts, edPc, edReq, edLog,
    row, files, rowPc, rowReq, rowLog,
    links, cache, pages, linkPc, linkReq, linkLog

Edit == INSTANCE Editor
Filing == INSTANCE Editions WITH pc <- edPc, req <- edReq, log <- edLog, MaxJobs <- MaxMerges
Page == INSTANCE Pages WITH pc <- rowPc, req <- rowReq, log <- rowLog, Requests <- Slots
Link == INSTANCE Ponglinks WITH db <- links, pc <- linkPc, req <- linkReq, log <- linkLog

Parts == {"editor", "editions", "pages", "links", "cards"}

editor == <<db, page, edits, flight, log>>
editions == <<eds, posts, edPc, edReq, edLog>>
styled == <<row, files, rowPc, rowReq, rowLog>>
ponglinks == <<links, cache, pages, linkPc, linkReq, linkLog>>
wallet == <<cards, pc, form, past>>

officeVars == <<part, editor, editions, styled, ponglinks, wallet>>

OfficeTypeOK ==
    /\ part \in Parts
    /\ Edit!TypeOK /\ Filing!TypeOK /\ Page!TypeOK /\ Link!TypeOK /\ TypeOK

\* a component which does not move has one initial state; editions, and slugs, are interchangeable
OfficeInit ==
    /\ part \in Parts
    /\ Edit!Init /\ Filing!Init /\ Page!Init /\ Link!Init /\ Init
    /\ part # "editor" => page.post = CHOOSE p \in Posts : TRUE
    /\ eds[CHOOSE e \in Eds : TRUE].level = CHOOSE l \in Levels : TRUE
    /\ row.slug = CHOOSE s \in Slugs : TRUE
    /\ part # "editions" =>
          /\ eds = [e \in Eds |-> [level |-> CHOOSE l \in Levels : TRUE, active |-> TRUE]]
          /\ posts = CHOOSE f \in [Posts -> Filing!Filing] : \A p \in Posts : Filing!Filed(f[p])

OfficeNext ==
    \/ part = "editor" /\ Edit!Next
       /\ UNCHANGED <<part, editions, styled, ponglinks, wallet>>
    \/ part = "editions" /\ Filing!Next
       /\ UNCHANGED <<part, editor, styled, ponglinks, wallet>>
    \/ part = "pages" /\ Page!Next
       /\ UNCHANGED <<part, editor, editions, ponglinks, wallet>>
    \/ part = "links" /\ Link!Next
       /\ UNCHANGED <<part, editor, editions, styled, wallet>>
    \/ part = "cards" /\ Next
       /\ UNCHANGED <<part, editor, editions, styled, ponglinks>>

OfficeSpec ==
    /\ OfficeInit /\ [][OfficeNext]_officeVars
    /\ WF_editor(part = "editor" /\ Edit!Blur)
    /\ WF_editor(part = "editor" /\ Edit!Serve)
    /\ WF_editor(part = "editor" /\ Edit!Load)
    /\ \A r \in Slots : WF_editions(part = "editions" /\ Filing!Merging(r))

-----------------------------------------------------------------------------
(* The properties of the components, stated where they are *)

\* pages/publishing/edit.js: what was typed last is in the database, or kept to be sent; it is saved
\* into no other article; and an update publishes what was on the screen
EditsKept == Edit!EditsKept /\ Edit!OwnArticle /\ Edit!LiveAsShown

\* lib/editions.js: no article is left under an edition which was merged, and each stays filed under
\* editions of their level
EditionsKept == Filing!NoneLeftBehind /\ Filing!LevelsKept

\* lib/styledpages.js: a visitor is served a whole page, and the file of a page is the page in the database
PagesKept == Page!ServedWhole /\ Page!FileIsPage

\* lib/ponglinks.js: no two versions of a link have one hash, one which was handed out is given to no
\* other version, and each is redirected to where it should
VersionsKept == Link!HashesUnique /\ Link!HashesKept /\ Link!Redirected

\* widgets/texteditor.js, lib/editions.js: what is typed reaches the database, and a merge comes to its end
Ends == Edit!TextSaved /\ Filing!MergeEnds
=============================================================================
