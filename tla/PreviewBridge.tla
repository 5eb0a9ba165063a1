---------------------------- MODULE PreviewBridge ----------------------------
(***************************************************************************)
(* The guest's side of the preview bridge (preview-host-bridge.ts): the     *)
(* host's address bar, and its Back and Forward, over the session history   *)
(* of the frame.  The browser and the host are external; the history has    *)
(* the entries of the page around the frame before the frame's own, and     *)
(* history.length counts them all.                                         *)
(***************************************************************************)
EXTENDS Naturals, Sequences

CONSTANTS
  Paths,        \* paths of the app
  HostEntries,  \* numbers of entries that the page around the frame may have before the first of the frame
  MaxEntries,   \* bound: entries of the frame
  MaxGoing      \* bound: traversals that have been asked for

VARIABLES
  before,     \* entries of the page around the frame
  entries,    \* the frame's entries: path, document, and whether history.state has __grokPreviewBridgeRoot set
  pos,        \* the current entry, 0 when the frame is gone
  installed,  \* the bridge of the current document listens
  going,      \* history.go() calls under way
  hashed,     \* a hashchange event is under way
  asked,      \* a hello of the host is under way
  bar         \* the location that the host was told last

vars == <<before, entries, pos, installed, going, hashed, asked, bar>>

NoPath == "none"
Entry(path, doc, root) == [path |-> path, doc |-> doc, root |-> root]
Here == entries[pos]
Inside == pos > 0
HistoryLength == before + Len(entries)

\* A number for a document that no entry has.
NewDoc == CHOOSE d \in 1..(Len(entries) + 1) : \A i \in DOMAIN entries : entries[i].doc # d

Init ==
  /\ before \in HostEntries
  /\ \E path \in Paths : entries = <<Entry(path, 1, FALSE)>>
  /\ pos = 1 /\ installed = FALSE /\ going = << >> /\ hashed = FALSE /\ asked = FALSE /\ bar = NoPath

----------------------------------------------------------------------------
\* installPreviewHostBridge(), after the document has loaded: an entry without a tag is marked, and the host is told.
Install ==
  /\ Inside /\ ~installed
  /\ installed' = TRUE
  /\ entries' = IF HistoryLength <= 1 THEN [entries EXCEPT ![pos].root = TRUE] ELSE entries
  /\ bar' = Here.path
  /\ UNCHANGED <<before, pos, going, hashed, asked>>

\* The host mounts anew, knows nothing and says hello; a document that is not up yet does not hear it.
HostMounts ==
  /\ Inside /\ ~asked
  /\ asked' = TRUE /\ bar' = NoPath
  /\ UNCHANGED <<before, entries, pos, installed, going, hashed>>
Hello ==
  /\ Inside /\ asked
  /\ asked' = FALSE /\ bar' = IF installed THEN Here.path ELSE bar
  /\ UNCHANGED <<before, entries, pos, installed, going, hashed>>

\* The entries behind the current one are dropped, and a new one is current.
Pushed(entry) == entries' = Append(SubSeq(entries, 1, pos), entry) /\ pos' = pos + 1 /\ pos < MaxEntries

\* Mutant: the new entry takes over the state of the current one.
StateCopied == Here.root
\* The patched pushState().
PushedRoot == FALSE

\* A navigation of the app's router, or of the host by way of the router.
Push ==
  /\ Inside /\ installed
  /\ \E path \in Paths : Pushed(Entry(path, Here.doc, PushedRoot)) /\ bar' = path
  /\ UNCHANGED <<before, installed, going, hashed, asked>>

\* The patched replaceState(): the first entry keeps its mark.
Replace ==
  /\ Inside /\ installed
  /\ \E path \in Paths : entries' = [entries EXCEPT ![pos].path = path] /\ bar' = path
  /\ UNCHANGED <<before, pos, installed, going, hashed, asked>>

\* A link to a fragment of this document.
HashLink ==
  /\ Inside /\ installed
  /\ \E path \in Paths \ {Here.path} : Pushed(Entry(path, Here.doc, FALSE))
  /\ hashed' = TRUE
  /\ UNCHANGED <<before, installed, going, asked, bar>>

\* Mutant: only popstate is listened to.
Unheard == bar
\* reportLocation()
Reported == Here.path

HashChange ==
  /\ Inside /\ installed /\ hashed
  /\ hashed' = FALSE /\ bar' = Reported
  /\ UNCHANGED <<before, entries, pos, installed, going, asked>>

\* A link to another document; a reload, which keeps history.state.
Link ==
  /\ Inside
  /\ \E path \in Paths : Pushed(Entry(path, NewDoc, FALSE))
  /\ installed' = FALSE /\ hashed' = FALSE
  /\ UNCHANGED <<before, going, asked, bar>>
Reload ==
  /\ Inside /\ installed
  /\ installed' = FALSE /\ hashed' = FALSE
  /\ UNCHANGED <<before, entries, pos, going, asked, bar>>

----------------------------------------------------------------------------
(* The host's Back and Forward: history.go() returns before it traverses.   *)

Goes(delta) == Len(going) < MaxGoing /\ going' = Append(going, delta) /\ UNCHANGED <<before, entries, pos, installed, hashed, asked, bar>>

\* onHistory(): Back is refused on the entry that is marked.
HostBack == Inside /\ installed /\ ~Here.root /\ Goes("back")
HostForward == Inside /\ installed /\ Goes("forward")

\* A step past the end does nothing; one before the frame's first entry takes the page around it along.
\* Within a document popstate follows; another document is loaded.
Traverse ==
  /\ Inside /\ going # << >>
  /\ going' = Tail(going)
  /\ LET to == IF Head(going) = "back" THEN pos - 1 ELSE pos + 1
     IN IF to > Len(entries) \/ (to = 0 /\ before = 0) THEN UNCHANGED <<pos, installed, hashed, bar>>
        ELSE /\ pos' = to
             /\ IF to > 0 /\ entries[to].doc = Here.doc
                THEN bar' = (IF installed THEN entries[to].path ELSE bar) /\ UNCHANGED <<installed, hashed>>
                ELSE installed' = FALSE /\ hashed' = FALSE /\ UNCHANGED bar
  /\ UNCHANGED <<before, entries, asked>>

Next == Install \/ HostMounts \/ Hello \/ Push \/ Replace \/ HashLink \/ HashChange \/ Link \/ Reload \/ HostBack \/ HostForward \/ Traverse

Spec == Init /\ [][Next]_vars

----------------------------------------------------------------------------
(* Properties                                                               *)

\* Back is refused on the first entry only: no later one inherits its mark, by whatever way it came about.
RefusedOnlyAtRoot == \A i \in DOMAIN entries : entries[i].root => i = 1

\* Once the bridge is up and no event is under way, the host's address bar shows where the frame is.
AddressInStep == Inside /\ installed /\ ~hashed /\ ~asked => bar = Here.path

----------------------------------------------------------------------------
(* The inductive invariant of both.                                         *)

Entries == [path : Paths, doc : Nat, root : BOOLEAN]
TypeOK ==
  /\ before \in Nat /\ entries \in Seq(Entries) /\ pos \in 0..Len(entries)
  /\ installed \in BOOLEAN /\ hashed \in BOOLEAN /\ asked \in BOOLEAN
  /\ going \in Seq({"back", "forward"})
BridgeInv == TypeOK /\ RefusedOnlyAtRoot /\ AddressInStep
=============================================================================
