------------------------------ MODULE DataScreen ------------------------------
(***************************************************************************)
(* The data screen of the web page (frontend/app.js) over the mock-data    *)
(* collections: clicks on tabs, saves, deletes and refreshes start         *)
(* functions that run on, interleaved at every await, also when the cards  *)
(* that they write to have been taken off the page.                        *)
(***************************************************************************)
EXTENDS MockData, Sequences

CONSTANTS
    Slow,        \* tabs whose form awaits the options of a select
    Calls,       \* running selectDataTab, submit, delete and refresh functions
    NoTab,
    NoCall,
    NoWrite

ASSUME DataScreenAssumption ==
    /\ Slow \subseteq Collections /\ NoTab \notin Collections
    /\ NoCall \notin Calls /\ NoWrite \notin Writes

VARIABLES
    form,      \* the click whose form is in #data-tab-content
    cards,     \* the list cards in #data-tab-content, in document order
    shown,     \* shown[i]: what the list that call i made shows, in the document or not
    call,      \* call[i]: where the function is
    seen       \* history: seen[c]: every content that docs[c] has had

screenVars == <<docs, write, removes, form, cards, shown, call, seen>>

(* What a list shows: "LOADING", nothing after a load that failed, or rows.*)
Content == [state : {"loading", "empty", "listed"}, items : SUBSET Documents]
Loading == [state |-> "loading", items |-> {}]
Empty == [state |-> "empty", items |-> {}]
Listing(items) == [state |-> "listed", items |-> items]

(* "list" is the element that a call renders into, "answer" what it is to  *)
(* show there, "write" the POST and "form" the form that it submits.          *)
Call == [at : {"unused", "options", "post", "delete", "fetch", "render", "ended"},
         tab : Collections \cup {NoTab}, list : Calls \cup {NoCall}, answer : Content,
         write : Writes \cup {NoWrite}, form : Calls \cup {NoCall}]
Unused == [at |-> "unused", tab |-> NoTab, list |-> NoCall, answer |-> Empty,
           write |-> NoWrite, form |-> NoCall]

ScreenTypeOK ==
    /\ DataTypeOK
    /\ form \in Calls \cup {NoCall}
    /\ cards \in Seq([tab : Collections, list : Calls])
    /\ shown \in [Calls -> Content]
    /\ call \in [Calls -> Call]
    /\ \A i \in Calls :
           /\ call[i].at = "unused" <=> call[i] = Unused
           /\ call[i].at \in {"fetch", "render"} => call[i].list # NoCall
           /\ call[i].at = "post" => call[i].write # NoWrite
    /\ seen \in [Collections -> SUBSET SUBSET Documents]

ScreenInit ==
    /\ DataInit
    /\ form = NoCall
    /\ cards = <<>>
    /\ shown = [i \in Calls |-> Loading]
    /\ call = [i \in Calls |-> Unused]
    /\ seen = [c \in Collections |-> {{}}]

(* The tab that is marked active. *)
Active == IF form = NoCall THEN NoTab ELSE call[form].tab

(* The lists on a page that have the id of a tab, and the one of them that *)
(* getElementById takes.                                                   *)
ListsOf(page, c) == {k \in DOMAIN page : page[k].tab = c}
FirstList(page, c) == page[Min(ListsOf(page, c))].list

Ended(i) == [Unused EXCEPT !.at = "ended", !.tab = call[i].tab]

-----------------------------------------------------------------------------
(* Mutant: it does not look whether there is a list.                       *)
FetchUnguarded(i, started, page) ==
    /\ call' = [call EXCEPT ![i] = [started EXCEPT !.at = "fetch",
                   !.list = IF ListsOf(page, started.tab) = {} THEN NoCall
                            ELSE FirstList(page, started.tab)]]
    /\ UNCHANGED shown

(* fetchAndRenderDataList up to its await: it takes the first list that    *)
(* has the id of the tab, if there is one.                                 *)
FetchInto(i, started, page) ==
    IF ListsOf(page, started.tab) = {} THEN
        /\ call' = [call EXCEPT ![i] = Ended(i)]
        /\ UNCHANGED shown
    ELSE LET list == FirstList(page, started.tab) IN
        /\ call' = [call EXCEPT ![i] = [started EXCEPT !.at = "fetch", !.list = list]]
        /\ shown' = [shown EXCEPT ![list] = Loading]

(* loadDataList: the card, then the list.                                  *)
LoadDataList(i, started, page) ==
    /\ cards' = Append(page, [tab |-> started.tab, list |-> i])
    /\ FetchInto(i, started, cards')

(* A click on a tab. (The form's card is in the document at once; whatever *)
(* it still awaits, selectDataTab awaits too.)                             *)
SelectDataTab(i, c) ==
    LET started == [Unused EXCEPT !.at = "options", !.tab = c] IN
    /\ call[i].at = "unused"
    /\ form' = i
    /\ IF c \in Slow
       THEN /\ cards' = <<>>
            /\ call' = [call EXCEPT ![i] = started]
            /\ UNCHANGED shown
       ELSE LoadDataList(i, started, <<>>)
    /\ UNCHANGED <<dataVars, seen>>

OptionsLoaded(i) ==
    /\ call[i].at = "options"
    /\ LoadDataList(i, call[i], cards)
    /\ UNCHANGED <<dataVars, form, seen>>

(* The refresh button of a list card.                                      *)
Refresh(i, c) ==
    /\ call[i].at = "unused"
    /\ ListsOf(cards, c) # {}
    /\ FetchInto(i, [Unused EXCEPT !.tab = c], cards)
    /\ UNCHANGED <<dataVars, form, cards, seen>>

(* The answer of a GET is made ...                                         *)
Fetch(i) ==
    /\ call[i].at = "fetch"
    /\ \E answer \in {Listing(docs[call[i].tab]), Empty} :
           call' = [call EXCEPT ![i].at = "render", ![i].answer = answer]
    /\ UNCHANGED <<dataVars, form, cards, shown, seen>>

(* Mutant: rows are appended to what the list shows.                       *)
RenderAppending(i) ==
    /\ call[i].at = "render"
    /\ shown' = [shown EXCEPT ![call[i].list] =
                   IF @.state # "listed" \/ call[i].answer = Empty THEN call[i].answer
                   ELSE Listing(@.items \cup call[i].answer.items)]
    /\ call' = [call EXCEPT ![i] = Ended(i)]
    /\ UNCHANGED <<dataVars, form, cards, seen>>

(* Mutant: a load that fails leaves the list as it was.                    *)
RenderItemsOnly(i) ==
    /\ call[i].at = "render"
    /\ shown' = IF call[i].answer = Empty THEN shown
                ELSE [shown EXCEPT ![call[i].list] = call[i].answer]
    /\ call' = [call EXCEPT ![i] = Ended(i)]
    /\ UNCHANGED <<dataVars, form, cards, seen>>

(* ... and arrives: the list is cleared and filled without an await.       *)
Render(i) ==
    /\ call[i].at = "render"
    /\ shown' = [shown EXCEPT ![call[i].list] = call[i].answer]
    /\ call' = [call EXCEPT ![i] = Ended(i)]
    /\ UNCHANGED <<dataVars, form, cards, seen>>

-----------------------------------------------------------------------------
(* The submit handler of a form: attached when its options are loaded, and *)
(* its button is disabled until it ends.                                   *)
Save(i, w) ==
    /\ call[i].at = "unused"
    /\ Active = Into[w] /\ call[form].at # "options"
    /\ \A j \in Calls : call[j].form # form
    /\ Post(w)
    /\ call' = [call EXCEPT ![i] = [Unused EXCEPT !.at = "post", !.tab = Into[w], !.write = w,
                                                  !.form = form]]
    /\ UNCHANGED <<form, cards, shown, seen>>

(* Mutant: the list is fetched without waiting for the POST.               *)
SavedEarly(i) ==
    /\ call[i].at = "post"
    /\ FetchInto(i, call[i], cards)
    /\ UNCHANGED <<dataVars, form, cards, seen>>

Saved(i) ==
    /\ call[i].at = "post"
    /\ \/ write[call[i].write] = "done" /\ FetchInto(i, call[i], cards)
       \/ write[call[i].write] = "failed" /\ call' = [call EXCEPT ![i] = Ended(i)] /\ UNCHANGED shown
    /\ UNCHANGED <<dataVars, form, cards, seen>>

(* The button of a row: the DELETE, then the list; or, if the document is  *)
(* gone already, a message.                                                *)
Delete(i, c, d) ==
    /\ call[i].at = "unused"
    /\ c \notin Adding
    /\ \E k \in DOMAIN cards :
           cards[k].tab = c /\ d \in shown[cards[k].list].items
    /\ Remove(c, d.id)
    /\ call' = [call EXCEPT ![i] =
                  [Unused EXCEPT !.at = IF \E e \in docs[c] : e.id = d.id THEN "delete" ELSE "ended",
                                 !.tab = c]]
    /\ UNCHANGED <<form, cards, shown>>

Deleted(i) ==
    /\ call[i].at = "delete"
    /\ FetchInto(i, call[i], cards)
    /\ UNCHANGED <<dataVars, form, cards, seen>>

Click(i) ==
    \/ \E c \in Collections : SelectDataTab(i, c) \/ Refresh(i, c)
    \/ \E w \in Writes : Save(i, w)

Continue(i) == OptionsLoaded(i) \/ Fetch(i) \/ Render(i) \/ Saved(i) \/ Deleted(i)

(* The rest of the server, other clients of the API included.              *)
DataStep(w) ==
    /\ Post(w) \/ CountDocuments(w) \/ WriteStep(w) \/ WriteFails(w)
    /\ UNCHANGED <<form, cards, shown, call>>

Remembered == [c \in Collections |-> seen[c] \cup {docs'[c]}]

ScreenNext ==
    \/ \E i \in Calls : Click(i) \/ Continue(i)
    \/ \E i \in Calls, c \in Collections : \E d \in UNION seen[c] :
           Delete(i, c, d) /\ seen' = Remembered
    \/ \E w \in Writes : DataStep(w) /\ seen' = Remembered

ScreenSpec == ScreenInit /\ [][ScreenNext]_screenVars

-----------------------------------------------------------------------------
(***************************************************************************)
(* Properties.                                                             *)
(***************************************************************************)

(* addStock: every top-up that was applied counts, and counts once, also   *)
(* when several make the row at once. The unique index on the pair keeps   *)
(* one row, which the reservations rely on.                                *)
TopUpsCount ==
    \A c \in Adding :
        /\ \A d, e \in docs[c] : d.name = e.name => d = e
        /\ \A d \in docs[c] :
               d.value = SumFunctionOnSet(Value,
                             {w \in Writes : Into[w] = c /\ Name[w] = d.name /\ write[w] = "done"})

(* Every list on the page shows what the server held at one moment, never  *)
(* a mixture of two answers, however many loads write to it.               *)
ListsAreSnapshots ==
    \A k \in DOMAIN cards :
        shown[cards[k].list] \in {Listing(items) : items \in seen[cards[k].tab]} \cup {Loading, Empty}

(* When everything has come to an end, the page lists the tab that was     *)
(* clicked last, however the clicks overtook each other. (Other lists may  *)
(* have strayed behind it.)                                                *)
ActiveTabIsListed ==
    (form # NoCall /\ \A i \in Calls : call[i].at \in {"unused", "ended"})
        => ListsOf(cards, Active) # {} /\ shown[FirstList(cards, Active)] # Loading

(* The list that a submission loads shows what it has saved, unless that   *)
(* was deleted.                                                            *)
SavesAreShown ==
    [][\A i \in Calls :
           Render(i) /\ call[i].write # NoWrite /\ call[i].answer # Empty
               => \/ \E d \in call[i].answer.items :
                         /\ d.name = Name[call[i].write]
                         /\ Into[call[i].write] \in Adding => d.value >= Value[call[i].write]
                  \/ Into[call[i].write] \notin Adding /\ removes > 0]_screenVars
=============================================================================
