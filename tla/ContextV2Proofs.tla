--------------------------- MODULE ContextV2Proofs ---------------------------
(***************************************************************************)
(* Whose evidence a V2 context holds, for every set of requests,           *)
(* conversations, users, devices and topics, and for every reader of       *)
(* topics.                                                                 *)
(***************************************************************************)
EXTENDS ContextV2, TLAPS

\* The sanitiser has nothing to remove.
Clean(x) == \A item \in x.execs : DeviceMatch(x, item) /\ TopicMatch(x, item)

From(items, convs) == \A item \in items : item.conv \in convs

Own(x, c) == x.conv = c /\ From(x.execs, {c})

Busy == {"asked", "execute", "load", "conv", "user"}

\* The conversations a request without an id may see evidence of.
Mine(r) == used[FileOf[req[r].user]]

Quotable(r) == IF req[r].conv # None THEN {req[r].conv} ELSE Mine(r)

\* What a request holds, by its place in the code.
Staged(r) ==
  /\ pc[r] \in Busy => req[r].conv \in Mine(r)
  /\ pc[r] = "load" => cid[r] \in Mine(r) /\ From(op[r].execs, {cid[r]})
  /\ pc[r] = "conv" => cid[r] \in Conversations /\ Own(draft[r], cid[r])
  /\ pc[r] \in {"conv", "user"} => Clean(draft[r]) /\ From(draft[r].execs, Mine(r))
  /\ pc[r] = "free" => cited[r] = None
  /\ cited[r] # None => Clean(cited[r]) /\ From(cited[r].execs, Quotable(r))

\* A conversation's file holds its own evidence, a user's file that of the
\* conversations the users of the file have asked in.
Stored ==
  /\ \A p \in Paths : disk[p] \in Contexts => Clean(disk[p])
  /\ \A c \in Conversations : disk[c] \in Contexts => Own(disk[c], c)
  /\ \A f \in Files : disk[f] \in Contexts => From(disk[f].execs, used[f])

\* Who writes a conversation alone has read what its file still holds, or
\* nothing.
Serial(c) ==
  /\ disk[c] = promised[c]
  /\ \A p, q \in Drafting(c) : p = q
  /\ \A q \in Drafting(c) :
       draft[q] = Saved(IF q \in misread THEN None ELSE promised[c], op[q], c)

Inv ==
  /\ TypeOK
  /\ Stored
  /\ \A r \in Requests : Staged(r)
  /\ \A c \in Conversations \ overlapped : Serial(c)

-----------------------------------------------------------------------------
(* Contexts and updates                                                     *)

LEMMA SanitizedFacts ==
  ASSUME NEW x \in Contexts
  PROVE  /\ Sanitized(x) \in Contexts
         /\ Clean(Sanitized(x))
         /\ Sanitized(x).execs \subseteq x.execs
         /\ Sanitized(x).conv = x.conv
         /\ Sanitized(x).name = x.name
         /\ Sanitized(x).intent = x.intent
         /\ Clean(x) => Sanitized(x) = x
<1> DEFINE y == Sanitized(x)
<1>1. y = [x EXCEPT !.execs = {item \in x.execs : DeviceMatch(x, item) /\ TopicMatch(x, item)}]
  BY DEF Sanitized
<1>2. /\ y.execs = {item \in x.execs : DeviceMatch(x, item) /\ TopicMatch(x, item)}
      /\ y.conv = x.conv /\ y.name = x.name /\ y.ip = x.ip /\ y.intent = x.intent
      /\ y \in Contexts
  BY <1>1 DEF Contexts
<1>3. Clean(y)
  BY <1>2 DEF Clean, DeviceMatch, TopicMatch
<1>4. ASSUME Clean(x) PROVE y = x
  <2>1. y.execs = x.execs
    BY <1>2, <1>4 DEF Clean
  <2> QED BY <1>1, <1>2, <2>1 DEF Contexts
<1> QED BY <1>2, <1>3, <1>4

LEMMA OpFacts ==
  /\ Nothing \in Ops /\ Nothing.execs = {}
  /\ \A d \in Devices, i \in Intents : Suggestion(d, i) \in Ops /\ Suggestion(d, i).execs = {}
  /\ \A c \in Conversations \cup {None} : NewContext(c) \in Contexts
BY HasIpAssumption DEF Nothing, Suggestion, Ops, NewContext, Contexts, Topics

LEMMA ExecutedFacts ==
  ASSUME NEW d \in Devices, NEW s \in SUBSET Commands, NEW c \in Conversations \cup {None}
  PROVE  Executed(d, s, c) \in SUBSET Items /\ From(Executed(d, s, c), {c})
BY DEF Executed, Items, From

LEMMA InlineFacts ==
  ASSUME NEW x \in Contexts, NEW k \in Commands
  PROVE  InlineChange(x, k) \in Ops /\ InlineChange(x, k).execs = {}
BY TopicsAssumption DEF InlineChange, Nothing, Or, Ops, Contexts, Topics

LEMMA UpdatedFacts ==
  ASSUME NEW x \in Contexts, NEW o \in Ops, NEW c \in Conversations \cup {None}
  PROVE  /\ Updated(x, o, c) \in Contexts
         /\ Updated(x, o, c).execs \subseteq x.execs \cup o.execs
         /\ c # None => Updated(x, o, c).conv = c
         /\ ~o.clears /\ o.execs = {} => Updated(x, o, c).execs = x.execs
BY DEF Updated, Or, Contexts, Ops

\* What is saved after what was read: the read one or a new one.
Base(x, c) == IF x = None THEN NewContext(c) ELSE x

LEMMA SavedFacts ==
  ASSUME NEW x \in Contexts \cup {None}, NEW o \in Ops, NEW c \in Conversations \cup {None}
  PROVE  /\ Saved(x, o, c) \in Contexts
         /\ Clean(Saved(x, o, c))
         /\ Saved(x, o, c).execs \subseteq Base(x, c).execs \cup o.execs
         /\ c # None => Saved(x, o, c).conv = c
<1>1. Base(x, c) \in Contexts
  BY OpFacts DEF Base
<1>2. Saved(x, o, c) = Sanitized(Updated(Base(x, c), o, c))
  BY DEF Saved, Base
<1> QED BY <1>1, <1>2, UpdatedFacts, SanitizedFacts

\* An update without evidence, device or topic of its own keeps the evidence.
LEMMA SavedKeeps ==
  ASSUME NEW x \in Contexts, NEW o \in Ops, NEW c \in Conversations \cup {None},
         Clean(x), ~o.clears, o.execs = {},
         Saved(x, o, c).name = x.name, Saved(x, o, c).intent = x.intent
  PROVE  x.execs \subseteq Saved(x, o, c).execs
<1> DEFINE y == Updated(x, o, c)
<1>1. Saved(x, o, c) = Sanitized(y)
  BY ContentAssumption DEF Saved
<1>2. y \in Contexts /\ y.execs = x.execs
  BY UpdatedFacts
<1>3. y.name = x.name /\ y.intent = x.intent
  BY <1>1, <1>2, SanitizedFacts
<1>4. Clean(y)
  BY <1>2, <1>3 DEF Clean, DeviceMatch, TopicMatch
<1> QED BY <1>1, <1>2, <1>4, SanitizedFacts

LEMMA EarlierFacts ==
  ASSUME NEW c \in Conversations, NEW d \in Devices, NEW i \in Intents
  PROVE  /\ Earlier(c, d, i) \in Contexts
         /\ Clean(Earlier(c, d, i))
         /\ Own(Earlier(c, d, i), c)
<1> DEFINE o == [Suggestion(d, i) EXCEPT !.execs = Executed(d, Template[i], c)]
<1>1. Executed(d, Template[i], c) \in SUBSET Items /\ From(Executed(d, Template[i], c), {c})
  BY ExecutedFacts, TopicsAssumption
<1>2. o \in Ops /\ o.execs = Executed(d, Template[i], c)
  BY OpFacts, <1>1 DEF Ops
<1>3. Earlier(c, d, i) = Saved(None, o, c) /\ c # None
  BY PathsAssumption DEF Earlier
<1>4. Base(None, c).execs = {}
  BY DEF Base, NewContext
<1>7. None \in Contexts \cup {None} /\ c \in Conversations \cup {None}
  OBVIOUS
<1> HIDE DEF o
<1>5. /\ Saved(None, o, c) \in Contexts /\ Clean(Saved(None, o, c))
      /\ Saved(None, o, c).execs \subseteq Base(None, c).execs \cup o.execs
      /\ Saved(None, o, c).conv = c
  BY <1>2, <1>3, <1>7, SavedFacts
<1>6. Saved(None, o, c).execs \subseteq Executed(d, Template[i], c)
  BY <1>2, <1>4, <1>5
<1> QED BY <1>1, <1>3, <1>5, <1>6 DEF Own, From

\* A context that can be read is the one of its file, as it stands there.
LEMMA ShownFacts ==
  ASSUME TypeOK, Stored, NEW c \in Conversations \cup {None}, NEW u \in Users,
         NEW convs, c # None => c \in convs, used[FileOf[u]] \subseteq convs
  PROVE  /\ Shown(c, u) \in Contexts \cup {None}
         /\ Shown(c, u) # None => Clean(Shown(c, u))
         /\ c # None /\ Shown(c, u) # None => Shown(c, u) = disk[c] /\ Own(Shown(c, u), c)
         /\ c # None /\ disk[c] \in Contexts => Shown(c, u) = disk[c]
         /\ c # None /\ disk[c] = None => Shown(c, u) = None
         /\ Shown(c, u) # None => From(Shown(c, u).execs, IF c # None THEN {c} ELSE used[FileOf[u]])
         /\ Shown(c, u) # None => From(Shown(c, u).execs, convs)
<1> DEFINE p == IF c # None THEN c ELSE FileOf[u]
<1>1. p \in Paths /\ disk[p] \in Contexts \cup {None, Garbage} /\ FileOf[u] \in Files
  BY FilesAssumption DEF Paths, TypeOK
<1>2. Shown(c, u) = IF disk[p] \in {None, Garbage} THEN None ELSE Sanitized(disk[p])
  BY DEF Shown
<1>3. disk[p] \in Contexts => Shown(c, u) = disk[p]
  BY <1>1, <1>2, ContentAssumption, SanitizedFacts DEF Stored
<1>4. disk[p] \notin Contexts => Shown(c, u) = None
  BY <1>1, <1>2
<1>5. Shown(c, u) # None => disk[p] \in Contexts /\ Shown(c, u) = disk[p]
  BY <1>3, <1>4
<1>6. ASSUME c # None
      PROVE  /\ Shown(c, u) # None => Shown(c, u) = disk[c] /\ Own(Shown(c, u), c)
             /\ disk[c] \in Contexts => Shown(c, u) = disk[c]
             /\ disk[c] = None => Shown(c, u) = None
             /\ Shown(c, u) # None => From(Shown(c, u).execs, {c}) /\ From(Shown(c, u).execs, convs)
  BY <1>6, <1>3, <1>4, <1>5, ContentAssumption DEF Stored, Own, From
<1>7. ASSUME c = None, Shown(c, u) # None
      PROVE  From(Shown(c, u).execs, used[FileOf[u]]) /\ From(Shown(c, u).execs, convs)
  <2>1. p = FileOf[u]
    BY <1>7
  <2> QED BY <2>1, <1>1, <1>5, <1>7 DEF Stored, From
<1>8. Shown(c, u) \in Contexts \cup {None} /\ (Shown(c, u) # None => Clean(Shown(c, u)))
  BY <1>1, <1>5 DEF Stored
<1> QED BY <1>6, <1>7, <1>8

\* A context that has been read is that one or none.
LEMMA LoadFacts ==
  ASSUME TypeOK, Stored, NEW c \in Conversations \cup {None}, NEW u \in Users,
         NEW convs, c # None => c \in convs, used[FileOf[u]] \subseteq convs,
         NEW x \in Load(c, u)
  PROVE  /\ x \in Contexts \cup {None}
         /\ x # None => /\ x = Shown(c, u) /\ Clean(x)
                       /\ From(x.execs, IF c # None THEN {c} ELSE used[FileOf[u]])
                       /\ From(x.execs, convs)
<1>1. x \in {None, Shown(c, u)}
  BY DEF Load
<1>2. CASE x = None
  BY <1>2
<1>3. CASE x # None
  <2>1. x = Shown(c, u)
    BY <1>1, <1>3
  <2> QED BY <1>3, <2>1, ShownFacts
<1> QED BY <1>2, <1>3

-----------------------------------------------------------------------------
(* Frames                                                                   *)

LocalOK ==
  /\ pc \in [Requests -> Labels]
  /\ req \in [Requests -> [kind : Kinds, conv : Conversations \cup {None}, user : Users]]
  /\ cid \in [Requests -> Conversations \cup {None}]
  /\ op \in [Requests -> Ops]
  /\ draft \in [Requests -> Contexts]
  /\ cited \in [Requests -> Contexts \cup {None}]
  /\ misread \in SUBSET Requests

StoresOK ==
  /\ disk \in [Paths -> Contexts \cup {None, Garbage}]
  /\ lists \in [Paths -> [device : Devices, commands : SUBSET Commands] \cup {None}]
  /\ used \in [Files -> SUBSET (Conversations \cup {None})]
  /\ promised \in [Conversations -> Contexts \cup {None}]
  /\ overlapped \in SUBSET Paths

LEMMA TypeParts == TypeOK <=> LocalOK /\ StoresOK
BY DEF TypeOK, LocalOK, StoresOK

LEMMA TypePartsNext == (TypeOK <=> LocalOK /\ StoresOK)'
BY DEF TypeOK, LocalOK, StoresOK

LEMMA InitInv == Init => Inv
<1> SUFFICES ASSUME Init PROVE Inv
  OBVIOUS
<1>1. PICK c \in Conversations, u \in Users, d \in Devices, i \in Intents :
        \E mine \in {{}, {c, FileOf[u]}} :
          /\ disk = [p \in Paths |-> IF p \in mine THEN Earlier(c, d, i) ELSE None]
          /\ lists = [p \in Paths |->
                       IF p \in mine THEN [device |-> d, commands |-> Template[i]]
                       ELSE None]
          /\ used = [f \in Files |-> IF f \in mine THEN {c} ELSE {}]
          /\ promised = [x \in Conversations |-> disk[x]]
  BY DEF Init
<1>2. PICK mine \in {{}, {c, FileOf[u]}} :
          /\ disk = [p \in Paths |-> IF p \in mine THEN Earlier(c, d, i) ELSE None]
          /\ lists = [p \in Paths |->
                       IF p \in mine THEN [device |-> d, commands |-> Template[i]]
                       ELSE None]
          /\ used = [f \in Files |-> IF f \in mine THEN {c} ELSE {}]
          /\ promised = [x \in Conversations |-> disk[x]]
  BY <1>1
<1>3. /\ Earlier(c, d, i) \in Contexts /\ Clean(Earlier(c, d, i))
      /\ Own(Earlier(c, d, i), c)
  BY EarlierFacts
<1>4. FileOf[u] \in Files /\ Template[i] \in SUBSET Commands
  BY FilesAssumption, TopicsAssumption
<1>5. NoReq \in [kind : Kinds, conv : Conversations \cup {None}, user : Users]
  BY DEF NoReq, Kinds
<1>6. LocalOK
  BY <1>5, OpFacts DEF Init, LocalOK, Labels
<1>7. StoresOK
  BY <1>2, <1>3, <1>4 DEF Init, StoresOK, Paths
<1>8. Stored
  <2>1. \A p \in Paths : disk[p] \in Contexts => p \in mine /\ disk[p] = Earlier(c, d, i)
    BY <1>2, ContentAssumption
  <2>2. \A x \in Conversations : x \in mine => x = c
    BY <1>4, PathsAssumption
  <2>3. \A f \in Files : f \in mine => used[f] = {c}
    BY <1>2
  <2> QED BY <1>3, <2>1, <2>2, <2>3 DEF Stored, Paths, Own
<1>9. \A r \in Requests : Staged(r)
  BY DEF Init, Staged, Busy
<1>10. \A x \in Conversations : Serial(x)
  BY <1>2, PathsAssumption DEF Init, Serial, Drafting, Paths
<1> QED BY <1>6, <1>7, <1>8, <1>9, <1>10, TypeParts DEF Inv

\* A step leaves request q alone.
Same(q) ==
  /\ pc'[q] = pc[q] /\ req'[q] = req[q] /\ cid'[q] = cid[q]
  /\ op'[q] = op[q] /\ draft'[q] = draft[q] /\ cited'[q] = cited[q]
  /\ q \in misread' <=> q \in misread

OthersSame(r) == \A q \in Requests \ {r} : Same(q)

UsedGrows == \A f \in Files : used[f] \subseteq used'[f]

LEMMA DraftingOf ==
  TypeOK => \A c \in Conversations :
              Drafting(c) = {q \in Requests : pc[q] = "conv" /\ cid[q] = c}
BY FilesAssumption, PathsAssumption DEF TypeOK, Drafting

LEMMA DraftingOfNext ==
  TypeOK' => \A c \in Conversations :
               Drafting(c)' = {q \in Requests : pc'[q] = "conv" /\ cid'[q] = c}
BY FilesAssumption, PathsAssumption DEF TypeOK, Drafting

LEMMA StagedFrame ==
  ASSUME TypeOK, UsedGrows, NEW q \in Requests, Same(q), Staged(q)
  PROVE  Staged(q)'
<1>1. FileOf[req[q].user] \in Files
  BY FilesAssumption DEF TypeOK
<1>2. Mine(q) \subseteq Mine(q)' /\ Quotable(q) \subseteq Quotable(q)'
  BY <1>1 DEF UsedGrows, Same, Mine, Quotable
<1>3. \A x : From(x, Mine(q)) => From(x, Mine(q)')
  BY <1>2 DEF From
<1>4. \A x : From(x, Quotable(q)) => From(x, Quotable(q)')
  BY <1>2 DEF From
<1> QED BY <1>2, <1>3, <1>4 DEF Same, Staged

LEMMA StoredFrame ==
  ASSUME Stored, UsedGrows, disk' = disk
  PROVE  Stored'
<1>1. \A f \in Files : \A x : From(x, used[f]) => From(x, used'[f])
  BY DEF UsedGrows, From
<1> QED BY <1>1 DEF Stored

LEMMA SerialFrame ==
  ASSUME TypeOK, TypeOK', NEW c \in Conversations, Serial(c),
         disk'[c] = disk[c], promised'[c] = promised[c],
         \A q \in Requests : pc'[q] = "conv" /\ cid'[q] = c => Same(q)
  PROVE  Serial(c)'
<1>1. \A q \in Drafting(c)' : q \in Drafting(c) /\ Same(q)
  BY DraftingOf, DraftingOfNext DEF Same
<1>2. (disk[c] = promised[c])'
  BY DEF Serial
<1>3. \A p, q \in Drafting(c)' : p = q
  BY <1>1 DEF Serial
<1>4. ASSUME NEW q \in Drafting(c)'
      PROVE  draft'[q] = Saved(IF q \in misread' THEN None ELSE promised'[c], op'[q], c)
  BY <1>1 DEF Serial, Same
<1> QED BY <1>2, <1>3, <1>4 DEF Serial

\* A step of one request that writes no context.
LEMMA FrameInv ==
  ASSUME Inv, NEW r \in Requests, LocalOK', StoresOK', UsedGrows, OthersSame(r),
         Staged(r)', pc'[r] # "conv",
         UNCHANGED <<disk, promised, overlapped>>
  PROVE  Inv'
<1>1. TypeOK'
  BY TypePartsNext
<1>2. \A q \in Requests : Staged(q)'
  BY StagedFrame DEF Inv, OthersSame
<1>3. \A c \in Conversations \ overlapped' : Serial(c)'
  BY <1>1, SerialFrame DEF Inv, OthersSame
<1> QED BY <1>1, <1>2, <1>3, StoredFrame DEF Inv

-----------------------------------------------------------------------------
(* Kinds of steps                                                           *)

LEMMA MineFacts ==
  ASSUME TypeOK, NEW r \in Requests
  PROVE  /\ FileOf[req[r].user] \in Files
         /\ Mine(r) \subseteq Conversations \cup {None}
         /\ pc[r] \in Labels /\ cid[r] \in Conversations \cup {None}
         /\ req[r].conv \in Conversations \cup {None} /\ req[r].user \in Users
         /\ op[r] \in Ops /\ draft[r] \in Contexts
BY FilesAssumption DEF TypeOK, Mine

\* What a request reads for its own conversation.
LEMMA MyContextFacts ==
  ASSUME Inv, NEW r \in Requests, pc[r] \in Busy, NEW x \in MyContexts(r)
  PROVE  /\ x \in Contexts \cup {None}
         /\ x # None => Clean(x) /\ From(x.execs, Quotable(r)) /\ From(x.execs, Mine(r))
         /\ DeviceIn(x) # None => x # None /\ DeviceIn(x) \in Devices
<1>1. /\ req[r].conv \in Conversations \cup {None} /\ req[r].user \in Users
      /\ req[r].conv \in Mine(r)
  BY MineFacts DEF Inv, Staged
<1>2. used[FileOf[req[r].user]] = Mine(r)
  BY DEF Mine
<1>3. /\ x \in Contexts \cup {None}
      /\ x # None => Clean(x) /\ From(x.execs, Quotable(r)) /\ From(x.execs, Mine(r))
  BY <1>1, <1>2, LoadFacts DEF Inv, MyContexts, Quotable
<1>4. DeviceIn(x) # None => x # None /\ DeviceIn(x) \in Devices
  BY <1>3 DEF DeviceIn, Contexts
<1> QED BY <1>3, <1>4

LEMMA PendingFacts ==
  ASSUME TypeOK, NEW r \in Requests
  PROVE  Pending(r) \in [device : Devices, commands : SUBSET Commands] \cup {None}
<1>1. FileOf[req[r].user] \in Paths /\ (req[r].conv # None => req[r].conv \in Paths)
  BY MineFacts DEF Paths
<1> QED BY <1>1 DEF TypeOK, Pending

LEMMA LeavesInv ==
  ASSUME Inv, NEW r \in Requests, Leaves(r, "done"),
         UNCHANGED <<disk, used, promised, overlapped>>, UNCHANGED lists
  PROVE  Inv'
<1>1. NoReq \in [kind : Kinds, conv : Conversations \cup {None}, user : Users]
  BY MineFacts DEF NoReq, Kinds, Inv
<1>2. LocalOK'
  BY <1>1, OpFacts DEF Inv, TypeOK, Leaves, LocalOK, Labels
<1>3. StoresOK' /\ UsedGrows
  BY DEF Inv, TypeOK, StoresOK, UsedGrows
<1>4. OthersSame(r) /\ pc'[r] = "done" /\ cited'[r] = None
  BY DEF Inv, TypeOK, Leaves, OthersSame, Same
<1>5. Staged(r)'
  BY <1>4 DEF Staged, Busy
<1> QED BY <1>2, <1>3, <1>4, <1>5, FrameInv

\* The reply is made, its update will be saved for conversation conv.
LEMMA SavesInv ==
  ASSUME Inv, NEW r \in Requests, pc[r] \in Busy,
         NEW conv \in Conversations \cup {None}, NEW change \in Ops,
         From(change.execs, {conv}), SavesAs(r, conv, change),
         \/ cited' = cited
         \/ \E x \in MyContexts(r) : cited' = [cited EXCEPT ![r] = x],
         lists' \in [Paths -> [device : Devices, commands : SUBSET Commands] \cup {None}],
         UNCHANGED <<disk, promised, overlapped>>
  PROVE  Inv'
<1>1. \A x \in MyContexts(r) :
        /\ x \in Contexts \cup {None}
        /\ x # None => Clean(x) /\ From(x.execs, Quotable(r))
  BY MyContextFacts
<1>2. FileOf[req[r].user] \in Files
  BY MineFacts DEF Inv
<1>3. LocalOK'
  BY <1>1 DEF Inv, TypeOK, SavesAs, LocalOK, Labels
<1>4. StoresOK'
  BY <1>2 DEF Inv, TypeOK, SavesAs, StoresOK
<1>5. UsedGrows /\ conv \in Mine(r)' /\ Mine(r) \subseteq Mine(r)'
  BY <1>2 DEF Inv, TypeOK, SavesAs, UsedGrows, Mine
<1>6. OthersSame(r)
  BY DEF Inv, TypeOK, SavesAs, OthersSame, Same
<1>7. /\ pc'[r] = "load" /\ cid'[r] = conv /\ op'[r] = change /\ req'[r] = req[r]
      /\ cited'[r] \in {cited[r]} \cup MyContexts(r)
  BY DEF Inv, TypeOK, SavesAs
<1>8. req'[r].conv \in Mine(r)'
  BY <1>5, <1>7 DEF Inv, Staged
<1>9. Quotable(r) \subseteq Quotable(r)'
  BY <1>5, <1>7 DEF Quotable
<1>10. cited'[r] # None => Clean(cited'[r]) /\ From(cited'[r].execs, Quotable(r)')
  BY <1>1, <1>7, <1>9 DEF Inv, Staged, From
<1>11. Staged(r)'
  BY <1>5, <1>7, <1>8, <1>10 DEF Staged
<1> QED BY <1>3, <1>4, <1>5, <1>6, <1>7, <1>11, FrameInv

\* A context is read and updated, to be written for conversation conv.
LEMMA DraftsInv ==
  ASSUME Inv, NEW r \in Requests, pc[r] \in Busy,
         NEW conv \in Conversations \cup {None}, conv \in Mine(r),
         NEW change \in Ops, From(change.execs, {conv}),
         op' = [op EXCEPT ![r] = change],
         NEW read \in Load(conv, req[r].user), Drafts(r, read, change, conv),
         lists' \in [Paths -> [device : Devices, commands : SUBSET Commands] \cup {None}],
         UNCHANGED <<req, cited, disk, used, promised>>
  PROVE  Inv'
<1> DEFINE new == Saved(read, change, conv)
           shown == Shown(conv, req[r].user)
<1>1. FileOf[req[r].user] \in Files /\ req[r].user \in Users
  BY MineFacts DEF Inv
<1>2. /\ read \in Contexts \cup {None}
      /\ read # None => From(read.execs, IF conv # None THEN {conv} ELSE Mine(r))
      /\ read # None => From(read.execs, Mine(r))
      /\ read \in {None, shown}
      /\ conv # None /\ disk[conv] \in Contexts => shown = disk[conv]
      /\ conv # None /\ disk[conv] = None => shown = None
  <2>1. used[FileOf[req[r].user]] = Mine(r) /\ read \in {None, shown}
    BY DEF Mine, Load
  <2> QED BY <1>1, <2>1, LoadFacts, ShownFacts DEF Inv
<1> HIDE DEF shown
<1>3. From(Base(read, conv).execs, IF conv # None THEN {conv} ELSE Mine(r))
  BY <1>2 DEF Base, NewContext, From
<1>4. /\ new \in Contexts /\ Clean(new)
      /\ new.execs \subseteq Base(read, conv).execs \cup change.execs
      /\ conv # None => new.conv = conv
  BY <1>2, SavedFacts
<1> HIDE DEF new
<1>5. From(new.execs, IF conv # None THEN {conv} ELSE Mine(r)) /\ From(new.execs, Mine(r))
  BY <1>3, <1>4 DEF From
<1>6. /\ pc' = [pc EXCEPT ![r] = IF conv = None THEN "user" ELSE "conv"]
      /\ cid' = [cid EXCEPT ![r] = conv]
      /\ draft' = [draft EXCEPT ![r] = new]
      /\ misread' = IF conv # None /\ read = None /\ shown # None
                    THEN misread \cup {r} ELSE misread \ {r}
      /\ overlapped' = overlapped \cup
           {p \in ({conv} \ {None}) \cup {FileOf[req[r].user]} : Drafting(p) # {}}
  BY DEF Drafts, new, shown
<1>7. LocalOK'
  BY <1>4, <1>6 DEF Inv, TypeOK, LocalOK, Labels
<1>8. StoresOK'
  BY <1>1, <1>6 DEF Inv, TypeOK, StoresOK, Paths
<1>9. UsedGrows /\ TypeOK' /\ OthersSame(r)
  BY <1>6, <1>7, <1>8, TypePartsNext DEF Inv, TypeOK, UsedGrows, OthersSame, Same
<1>10. /\ pc'[r] = IF conv = None THEN "user" ELSE "conv"
       /\ cid'[r] = conv /\ draft'[r] = new /\ op'[r] = change
  BY <1>6 DEF Inv, TypeOK
<1>11. Mine(r)' = Mine(r) /\ Quotable(r)' = Quotable(r)
  BY DEF Mine, Quotable
<1>12. Staged(r)'
  <2>1. pc'[r] = "conv" => cid'[r] \in Conversations /\ Own(draft'[r], cid'[r])
    BY <1>4, <1>5, <1>10 DEF Own
  <2>2. Clean(draft'[r]) /\ From(draft'[r].execs, Mine(r)')
    BY <1>4, <1>5, <1>10, <1>11
  <2>3. req'[r].conv \in Mine(r)'
    BY <1>11 DEF Inv, Staged
  <2>4. pc[r] # "free" /\ pc'[r] \notin {"load", "free"}
    BY <1>10 DEF Busy
  <2>5. cited'[r] # None => Clean(cited'[r]) /\ From(cited'[r].execs, Quotable(r)')
    BY <1>11 DEF Inv, Staged
  <2> QED BY <2>1, <2>2, <2>3, <2>4, <2>5 DEF Staged
<1>13. ASSUME NEW c \in Conversations \ overlapped'
       PROVE  Serial(c)'
  <2>1. Serial(c)
    BY <1>6 DEF Inv
  <2>2. CASE c # conv
    BY <2>1, <2>2, <1>9, <1>10, SerialFrame DEF Inv, OthersSame
  <2>3. CASE c = conv
    <3>1. Drafting(c) = {}
      BY <1>6, <2>3, PathsAssumption
    <3>2. \A q \in Drafting(c)' : q = r
      BY <3>1, <1>9, DraftingOf, DraftingOfNext DEF Inv, OthersSame, Same
    <3>3. promised[c] \in Contexts \cup {None} /\ disk[c] = promised[c] /\ conv # None
      BY <2>1, <2>3, PathsAssumption DEF Inv, TypeOK, Serial
    <3>4. read = IF r \in misread' THEN None ELSE promised[c]
      <4>1. shown = promised[c] /\ (r \in misread' <=> read = None /\ shown # None)
        BY <1>2, <1>6, <2>3, <3>3
      <4> QED BY <1>2, <4>1
    <3>5. draft'[r] = Saved(IF r \in misread' THEN None ELSE promised'[c], op'[r], c)
      BY <1>10, <2>3, <3>4 DEF new
    <3>6. (disk[c] = promised[c])'
      BY <3>3
    <3> QED BY <3>2, <3>5, <3>6 DEF Serial
  <2> QED BY <2>2, <2>3
<1>14. \A q \in Requests : Staged(q)'
  BY <1>9, <1>12, StagedFrame DEF Inv, OthersSame
<1> QED BY <1>9, <1>13, <1>14, StoredFrame DEF Inv

-----------------------------------------------------------------------------
(* Actions                                                                  *)

LEMMA AskInv ==
  ASSUME Inv, NEW r \in Requests, NEW k \in Kinds, NEW c \in Conversations \cup {None},
         NEW u \in Users, Ask(r, k, c, u)
  PROVE  Inv'
<1>1. LocalOK'
  BY DEF Inv, TypeOK, Ask, LocalOK, Labels
<1>2. StoresOK' /\ UsedGrows
  BY FilesAssumption DEF Inv, TypeOK, Ask, StoresOK, UsedGrows
<1>3. OthersSame(r)
  BY DEF Inv, TypeOK, Ask, OthersSame, Same
<1>4. /\ pc'[r] = "asked" /\ cited'[r] = None
      /\ req'[r].conv = c /\ c \in Mine(r)'
  BY FilesAssumption DEF Inv, TypeOK, Ask, Staged, Mine
<1>5. Staged(r)'
  BY <1>4 DEF Staged
<1> QED BY <1>1, <1>2, <1>3, <1>4, <1>5, FrameInv DEF Ask

LEMMA StoresType ==
  ASSUME TypeOK, NEW r \in Requests, NEW conv \in Conversations \cup {None},
         NEW d \in Devices, NEW commands \in SUBSET Commands,
         Stores(r, conv, d, commands) \/ UNCHANGED lists
  PROVE  lists' \in [Paths -> [device : Devices, commands : SUBSET Commands] \cup {None}]
BY DEF TypeOK, Stores

LEMMA RecordedType ==
  ASSUME TypeOK, NEW r \in Requests
  PROVE  Recorded(r) \subseteq Conversations \cup {None}
BY MineFacts DEF Recorded, Fresh

LEMMA SuggestInv ==
  ASSUME Inv, NEW r \in Requests, Suggest(r)
  PROVE  Inv'
<1>1. pc[r] \in Busy /\ TypeOK
  BY DEF Suggest, Busy, Inv
<1>2. PICK conv \in Recorded(r) :
        \/ \E device \in Devices, intent \in Intents :
             /\ SavesAs(r, conv, Suggestion(device, intent))
             /\ Stores(r, conv, device, Template[intent]) \/ UNCHANGED lists
        \/ /\ \E intent \in {None} \cup Intents :
                SavesAs(r, conv, [Nothing EXCEPT !.intent = intent])
           /\ UNCHANGED lists
  BY DEF Suggest
<1>3. conv \in Conversations \cup {None}
  BY <1>1, <1>2, RecordedType
<1> DEFINE saves ==
  \E change \in Ops :
    /\ From(change.execs, {conv}) /\ SavesAs(r, conv, change)
    /\ lists' \in [Paths -> [device : Devices, commands : SUBSET Commands] \cup {None}]
<1>4. saves
  <2>1. ASSUME NEW device \in Devices, NEW intent \in Intents,
               SavesAs(r, conv, Suggestion(device, intent)),
               Stores(r, conv, device, Template[intent]) \/ UNCHANGED lists
        PROVE  saves
    <3>1. Suggestion(device, intent) \in Ops /\ From(Suggestion(device, intent).execs, {conv})
      BY OpFacts DEF From
    <3>2. lists' \in [Paths -> [device : Devices, commands : SUBSET Commands] \cup {None}]
      BY <1>1, <1>3, <2>1, StoresType, TopicsAssumption
    <3> QED BY <2>1, <3>1, <3>2
  <2>2. ASSUME NEW intent \in {None} \cup Intents,
               SavesAs(r, conv, [Nothing EXCEPT !.intent = intent]),
               UNCHANGED lists
        PROVE  saves
    <3>1. /\ [Nothing EXCEPT !.intent = intent] \in Ops
          /\ [Nothing EXCEPT !.intent = intent].execs = {}
      BY OpFacts DEF Ops, Topics
    <3> QED BY <1>1, <2>2, <3>1 DEF From, TypeOK
  <2> QED BY <1>2, <2>1, <2>2
<1> QED BY <1>1, <1>3, <1>4, SavesInv DEF Suggest

LEMMA ConfirmInv ==
  ASSUME Inv, NEW r \in Requests, Confirm(r)
  PROVE  Inv'
<1>1. pc[r] \in Busy /\ TypeOK
  BY DEF Confirm, Busy, Inv
<1>2. PICK conv \in {req[r].conv} \cup Recorded(r) :
        \E report \in Reports(r, conv) : SavesAs(r, conv, report)
  BY DEF Confirm
<1>6. PICK report \in Reports(r, conv) : SavesAs(r, conv, report)
  BY <1>2
<1>3. conv \in Conversations \cup {None}
  BY <1>1, RecordedType, MineFacts
<1>4. report \in Ops /\ From(report.execs, {conv})
  <2>1. CASE report = Nothing
    BY <2>1, OpFacts DEF From
  <2>2. CASE report # Nothing
    <3> DEFINE d == Pending(r).device
    <3>1. /\ d \in Devices /\ Pending(r).commands \subseteq Commands
          /\ \/ report = [Nothing EXCEPT !.execs = Executed(d, Pending(r).commands, conv)]
             \/ \E c \in Pending(r).commands :
                  report = [Nothing EXCEPT !.name = d, !.execs = Executed(d, {c}, conv)]
      BY <1>1, <1>6, <2>2, PendingFacts DEF Reports
    <3> HIDE DEF d
    <3>2. CASE report = [Nothing EXCEPT !.execs = Executed(d, Pending(r).commands, conv)]
      BY <1>3, <3>1, <3>2, ExecutedFacts, OpFacts DEF Ops
    <3>3. ASSUME NEW c \in Pending(r).commands,
                 report = [Nothing EXCEPT !.name = d, !.execs = Executed(d, {c}, conv)]
          PROVE  report \in Ops /\ From(report.execs, {conv})
      <4>1. Executed(d, {c}, conv) \in SUBSET Items /\ From(Executed(d, {c}, conv), {conv})
        BY <1>3, <3>1, ExecutedFacts
      <4> QED BY <3>1, <3>3, <4>1, OpFacts DEF Ops
    <3> QED BY <3>1, <3>2, <3>3
  <2> QED BY <2>1, <2>2
<1>5. lists' \in [Paths -> [device : Devices, commands : SUBSET Commands] \cup {None}]
  BY DEF Inv, TypeOK, Confirm
<1> QED BY <1>1, <1>3, <1>4, <1>5, <1>6, SavesInv DEF Confirm

LEMMA InlineInv ==
  ASSUME Inv, NEW r \in Requests, Inline(r)
  PROVE  Inv'
<1>1. pc[r] \in Busy /\ TypeOK /\ req[r].conv \in Mine(r)
  BY DEF Inline, Busy, Inv, Staged
<1>2. req[r].conv \in Conversations \cup {None}
  BY <1>1, MineFacts
<1>5. PICK read \in MyContexts(r) :
        \/ /\ DeviceIn(read) # None
           /\ \E c \in Commands :
                /\ op' = [op EXCEPT ![r] = InlineChange(read, c)]
                /\ Drafts(r, read, InlineChange(read, c), req[r].conv)
                /\ Stores(r, req[r].conv, DeviceIn(read), {c}) \/ UNCHANGED lists
           /\ UNCHANGED <<req, cited>>
        \/ /\ Leaves(r, "done")
           /\ UNCHANGED <<lists, overlapped>>
  BY DEF Inline
<1>3. CASE Leaves(r, "done") /\ UNCHANGED <<lists, overlapped>>
  BY <1>3, LeavesInv DEF Inline
<1>4. CASE ~(Leaves(r, "done") /\ UNCHANGED <<lists, overlapped>>)
  <2>1. read \in Contexts /\ DeviceIn(read) \in Devices
    BY <1>1, <1>4, <1>5, MyContextFacts
  <2>2. PICK c \in Commands :
          /\ op' = [op EXCEPT ![r] = InlineChange(read, c)]
          /\ Drafts(r, read, InlineChange(read, c), req[r].conv)
          /\ Stores(r, req[r].conv, DeviceIn(read), {c}) \/ UNCHANGED lists
    BY <1>4, <1>5
  <2>3. InlineChange(read, c) \in Ops /\ From(InlineChange(read, c).execs, {req[r].conv})
    BY <2>1, InlineFacts DEF From
  <2>4. lists' \in [Paths -> [device : Devices, commands : SUBSET Commands] \cup {None}]
    BY <1>1, <1>2, <2>1, <2>2, StoresType
  <2>5. UNCHANGED <<req, cited, disk, used, promised>>
    BY <1>4, <1>5 DEF Inline
  <2>6. read \in Load(req[r].conv, req[r].user)
    BY DEF MyContexts
  <2> QED BY <1>1, <1>2, <2>2, <2>3, <2>4, <2>5, <2>6, DraftsInv
<1> QED BY <1>3, <1>4

LEMMA InlineExecutesInv ==
  ASSUME Inv, NEW r \in Requests, InlineExecutes(r)
  PROVE  Inv'
<1>1. pc[r] \in Busy /\ TypeOK /\ req[r].conv \in Conversations \cup {None}
  BY MineFacts DEF InlineExecutes, Busy, Inv
<1>2. CASE Leaves(r, "done") /\ UNCHANGED used
  BY <1>2, LeavesInv DEF InlineExecutes
<1>3. CASE ~(Leaves(r, "done") /\ UNCHANGED used)
  <2> DEFINE s == Executed(Pending(r).device, Pending(r).commands, req[r].conv)
  <2>1. /\ Pending(r) # None
        /\ SavesAs(r, req[r].conv, [Nothing EXCEPT !.execs = s])
        /\ UNCHANGED cited
    BY <1>3 DEF InlineExecutes
  <2>2. Pending(r).device \in Devices /\ Pending(r).commands \in SUBSET Commands
    BY <1>1, <2>1, PendingFacts
  <2>3. s \in SUBSET Items /\ From(s, {req[r].conv})
    BY <1>1, <2>2, ExecutedFacts
  <2> HIDE DEF s
  <2>4. [Nothing EXCEPT !.execs = s] \in Ops /\ From([Nothing EXCEPT !.execs = s].execs, {req[r].conv})
    BY <2>3, OpFacts DEF Ops
  <2>5. lists' \in [Paths -> [device : Devices, commands : SUBSET Commands] \cup {None}]
    BY <1>1 DEF TypeOK, InlineExecutes
  <2> QED BY <1>1, <2>1, <2>4, <2>5, SavesInv DEF InlineExecutes
<1> QED BY <1>2, <1>3

LEMMA FollowInv ==
  ASSUME Inv, NEW r \in Requests, Follow(r)
  PROVE  Inv'
<1>1. pc[r] \in Busy /\ TypeOK
  BY DEF Follow, Busy, Inv
<1>2. CASE Leaves(r, "done") /\ UNCHANGED used
  BY <1>2, LeavesInv DEF Follow
<1>3. CASE ~(Leaves(r, "done") /\ UNCHANGED used)
  <2>7. PICK x \in MyContexts(r) \ {None}, conv \in Recorded(r) :
          /\ cited' = [cited EXCEPT ![r] = x]
          /\ SavesAs(r, conv, [Nothing EXCEPT !.name = x.name, !.ip = x.ip])
    BY <1>3 DEF Follow
  <2> DEFINE o == [Nothing EXCEPT !.name = x.name, !.ip = x.ip]
  <2>1. x \in MyContexts(r) /\ cited' = [cited EXCEPT ![r] = x] /\ SavesAs(r, conv, o)
    BY <2>7
  <2>2. x \in Contexts
    BY <1>1, <2>7, MyContextFacts
  <2>3. o \in Ops /\ o.execs = {}
    BY <2>2, OpFacts DEF Ops, Contexts
  <2> HIDE DEF o
  <2>4. SavesAs(r, conv, o)
    BY <2>1
  <2>5. conv \in Conversations \cup {None} /\ From(o.execs, {conv})
    BY <1>1, <2>3, RecordedType DEF From
  <2>6. lists' \in [Paths -> [device : Devices, commands : SUBSET Commands] \cup {None}]
    BY <1>1 DEF TypeOK, Follow
  <2> QED BY <1>1, <2>1, <2>3, <2>4, <2>5, <2>6, SavesInv DEF Follow
<1> QED BY <1>2, <1>3

LEMMA ReadInv ==
  ASSUME Inv, NEW r \in Requests, Read(r)
  PROVE  Inv'
<1>1. /\ pc[r] \in Busy /\ cid[r] \in Conversations \cup {None} /\ op[r] \in Ops
      /\ cid[r] \in Mine(r) /\ From(op[r].execs, {cid[r]})
  BY MineFacts DEF Read, Busy, Inv, Staged
<1>2. op' = [op EXCEPT ![r] = op[r]]
  BY DEF Read, Inv, TypeOK
<1>3. lists' \in [Paths -> [device : Devices, commands : SUBSET Commands] \cup {None}]
  BY DEF Read, Inv, TypeOK
<1>4. PICK read \in Load(cid[r], req[r].user) : Drafts(r, read, op[r], cid[r])
  BY DEF Read
<1> QED BY <1>1, <1>2, <1>3, <1>4, DraftsInv DEF Read

\* Whatever the writers of a path leave in it is what one of them holds.
LEMMA WrittenFacts ==
  ASSUME TypeOK, NEW r \in Requests, NEW p \in Paths, NEW content \in Written(r, p)
  PROVE  /\ content \in Contexts \cup {Garbage}
         /\ content \in Contexts =>
              \E q \in Requests : content = draft[q] /\ (q = r \/ q \in Drafting(p))
         /\ Drafting(p) \subseteq {r} => content = draft[r]
BY ContentAssumption DEF TypeOK, Written, Drafting

LEMMA WriteConversationInv ==
  ASSUME Inv, NEW r \in Requests, WriteConversation(r)
  PROVE  Inv'
<1> DEFINE x == cid[r]
<1>1. /\ x \in Conversations /\ Own(draft[r], x) /\ x \in Paths
      /\ op[r] \in Ops /\ draft[r] \in Contexts /\ pc[r] = "conv"
  BY MineFacts DEF WriteConversation, Inv, Staged, Paths
<1>2. PICK content \in Written(r, x) : disk' = [disk EXCEPT ![x] = content]
  BY DEF WriteConversation
<1>3. /\ pc' = [pc EXCEPT ![r] = "user"]
      /\ promised' = [promised EXCEPT ![x] = Saved(Seen(r), op[r], x)]
      /\ misread' = misread \ {r}
      /\ UNCHANGED <<req, cid, op, draft, cited, lists, used, overlapped>>
  BY DEF WriteConversation
<1> HIDE DEF x
<1>4. /\ content \in Contexts \cup {Garbage}
      /\ content \in Contexts =>
           \E q \in Requests : content = draft[q] /\ (q = r \/ q \in Drafting(x))
      /\ Drafting(x) \subseteq {r} => content = draft[r]
  BY <1>1, <1>2, WrittenFacts DEF Inv
<1>5. Drafting(x) = {q \in Requests : pc[q] = "conv" /\ cid[q] = x}
  BY <1>1, DraftingOf DEF Inv
<1>6. content \in Contexts => Own(content, x) /\ Clean(content)
  <2>1. \A q \in Drafting(x) : Own(draft[q], x) /\ Clean(draft[q])
    BY <1>5 DEF Inv, Staged
  <2>2. r \in Drafting(x)
    BY <1>1, <1>5 DEF x
  <2> QED BY <1>4, <2>1, <2>2
<1>14. Seen(r) = IF r \in misread THEN None ELSE promised[x]
  BY DEF Seen, x
<1>7. Saved(Seen(r), op[r], x) \in Contexts
  <2>1. Seen(r) \in Contexts \cup {None} /\ x \in Conversations \cup {None}
    BY <1>1, <1>14 DEF Inv, TypeOK
  <2> QED BY <1>1, <2>1, SavedFacts
<1>8. LocalOK' /\ StoresOK'
  BY <1>1, <1>2, <1>3, <1>4, <1>7 DEF Inv, TypeOK, LocalOK, StoresOK, Labels
<1>9. TypeOK' /\ UsedGrows /\ OthersSame(r) /\ pc'[r] = "user"
  BY <1>3, <1>8, TypePartsNext DEF Inv, TypeOK, UsedGrows, OthersSame, Same
<1>10. Staged(r)'
  <2>1. Staged(r) /\ Mine(r)' = Mine(r) /\ Quotable(r)' = Quotable(r)
    BY <1>3 DEF Inv, Mine, Quotable
  <2> QED BY <1>1, <1>3, <1>9, <2>1 DEF Staged, Busy
<1>11. Stored'
  <2>1. \A p \in Paths : disk'[p] = IF p = x THEN content ELSE disk[p]
    BY <1>2 DEF Inv, TypeOK
  <2>2. x \notin Files
    BY <1>1, PathsAssumption
  <2> QED BY <1>3, <1>6, <2>1, <2>2 DEF Inv, Stored, Paths
<1>12. ASSUME NEW c \in Conversations \ overlapped'
       PROVE  Serial(c)'
  <2>1. Serial(c) /\ c \in Paths
    BY <1>3 DEF Inv, Paths
  <2>2. CASE c # x
    <3>1. disk'[c] = disk[c] /\ promised'[c] = promised[c]
      BY <1>2, <1>3, <2>1, <2>2 DEF Inv, TypeOK
    <3> QED BY <1>9, <2>1, <3>1, SerialFrame DEF Inv, OthersSame
  <2>3. CASE c = x
    <3>1. Drafting(c) = {r}
      BY <1>1, <1>5, <2>1, <2>3 DEF Serial, x
    <3>2. Drafting(c)' = {}
      BY <1>5, <1>9, <3>1, <2>3, DraftingOfNext DEF OthersSame, Same
    <3>3. disk'[c] = draft[r] /\ promised'[c] = Saved(Seen(r), op[r], c)
      BY <1>1, <1>2, <1>3, <1>4, <2>3, <3>1 DEF Inv, TypeOK
    <3>4. draft[r] = Saved(Seen(r), op[r], c)
      BY <2>1, <2>3, <3>1, <1>14 DEF Serial
    <3>5. (disk[c] = promised[c])'
      BY <3>3, <3>4
    <3> QED BY <3>2, <3>5 DEF Serial
  <2> QED BY <2>2, <2>3
<1>13. \A q \in Requests : Staged(q)'
  BY <1>9, <1>10, StagedFrame DEF Inv, OthersSame
<1> QED BY <1>9, <1>11, <1>12, <1>13 DEF Inv

LEMMA WriteUserInv ==
  ASSUME Inv, NEW r \in Requests, WriteUser(r)
  PROVE  Inv'
<1> DEFINE f == FileOf[req[r].user]
<1>1. f \in Files /\ f \in Paths /\ pc[r] = "user" /\ f \notin Conversations \cup {None}
  BY MineFacts, PathsAssumption DEF WriteUser, Inv, Paths
<1>2. /\ \/ \E content \in Written(r, f) : disk' = [disk EXCEPT ![f] = content]
         \/ UNCHANGED disk
      /\ UNCHANGED <<lists, used, promised, overlapped>>
  BY DEF WriteUser
<1>3. /\ \A p \in Paths \ {f} : disk'[p] = disk[p]
      /\ disk' \in [Paths -> Contexts \cup {None, Garbage}]
      /\ disk'[f] \in Contexts => Clean(disk'[f]) /\ From(disk'[f].execs, used[f])
  <2>1. CASE UNCHANGED disk
    BY <2>1, <1>1 DEF Inv, TypeOK, Stored
  <2>2. ASSUME NEW content \in Written(r, f), disk' = [disk EXCEPT ![f] = content]
        PROVE  <1>3
    <3>1. /\ content \in Contexts \cup {Garbage}
          /\ content \in Contexts =>
               \E q \in Requests : content = draft[q] /\ (q = r \/ q \in Drafting(f))
      BY <1>1, <2>2, WrittenFacts DEF Inv
    <3>2. \A q \in Requests : q = r \/ q \in Drafting(f) =>
            pc[q] \in {"conv", "user"} /\ Mine(q) = used[f]
      BY <1>1 DEF Drafting, Mine, Inv, TypeOK
    <3>3. content \in Contexts => Clean(content) /\ From(content.execs, used[f])
      BY <3>1, <3>2 DEF Inv, Staged
    <3>4. disk'[f] = content
      BY <1>1, <2>2 DEF Inv, TypeOK
    <3>5. /\ \A p \in Paths \ {f} : disk'[p] = disk[p]
          /\ disk' \in [Paths -> Contexts \cup {None, Garbage}]
      BY <1>1, <2>2, <3>1 DEF Inv, TypeOK
    <3> QED BY <3>3, <3>4, <3>5
  <2> QED BY <1>2, <2>1, <2>2
<1> HIDE DEF f
<1>4. StoresOK' /\ UsedGrows
  BY <1>2, <1>3 DEF Inv, TypeOK, StoresOK, UsedGrows
<1>5. LocalOK' /\ OthersSame(r) /\ pc'[r] \in {"execute", "done"} /\ Staged(r)'
  <2>1. CASE Leaves(r, "done")
    <3>1. NoReq \in [kind : Kinds, conv : Conversations \cup {None}, user : Users]
      BY MineFacts DEF NoReq, Kinds, Inv
    <3>2. LocalOK' /\ OthersSame(r) /\ pc'[r] = "done" /\ cited'[r] = None
      BY <2>1, <3>1, OpFacts DEF Inv, TypeOK, Leaves, LocalOK, Labels, OthersSame, Same
    <3> QED BY <3>2 DEF Staged, Busy
  <2>2. CASE pc' = [pc EXCEPT ![r] = "execute"] /\ UNCHANGED <<req, cid, op, draft, cited, misread>>
    <3>1. LocalOK' /\ OthersSame(r) /\ pc'[r] = "execute"
      BY <2>2 DEF Inv, TypeOK, LocalOK, Labels, OthersSame, Same
    <3>2. Staged(r) /\ Mine(r)' = Mine(r) /\ Quotable(r)' = Quotable(r)
      BY <1>2, <2>2 DEF Inv, Mine, Quotable
    <3> QED BY <1>1, <2>2, <3>1, <3>2 DEF Staged, Busy
  <2> QED BY <2>1, <2>2 DEF WriteUser
<1>6. TypeOK'
  BY <1>4, <1>5, TypePartsNext
<1>7. Stored'
  BY <1>1, <1>2, <1>3 DEF Inv, Stored, Paths
<1>8. ASSUME NEW c \in Conversations \ overlapped'
      PROVE  Serial(c)'
  <2>1. Serial(c) /\ disk'[c] = disk[c] /\ promised'[c] = promised[c]
    BY <1>1, <1>2, <1>3 DEF Inv, Paths
  <2> QED BY <1>5, <1>6, <2>1, SerialFrame DEF Inv, OthersSame
<1>9. \A q \in Requests : Staged(q)'
  BY <1>4, <1>5, StagedFrame DEF Inv, OthersSame
<1> QED BY <1>6, <1>7, <1>8, <1>9 DEF Inv

LEMMA CrashInv ==
  ASSUME Inv, Crash
  PROVE  Inv'
<1>1. NoReq \in [kind : Kinds, conv : Conversations \cup {None}, user : Users]
  BY MineFacts DEF NoReq, Kinds, Inv, Crash
<1>2. LocalOK'
  BY <1>1, OpFacts DEF Inv, TypeOK, Crash, LocalOK, Labels
<1>3. StoresOK' /\ UsedGrows
  BY DEF Inv, TypeOK, Crash, stores, StoresOK, UsedGrows
<1>4. \A q \in Requests : pc'[q] \in {"free", "done", "dead"} /\ cited'[q] = None
  BY DEF Crash
<1>5. \A q \in Requests : Staged(q)'
  BY <1>4 DEF Staged, Busy
<1>6. TypeOK'
  BY <1>2, <1>3, TypePartsNext
<1>7. \A c \in Conversations \ overlapped' : Serial(c)'
  BY <1>4, <1>6, SerialFrame DEF Inv, Crash, stores
<1> QED BY <1>3, <1>5, <1>6, <1>7, StoredFrame DEF Inv, Crash, stores

LEMMA StutterInv ==
  ASSUME Inv, UNCHANGED vars
  PROVE  Inv'
<1>1. LocalOK' /\ StoresOK' /\ UsedGrows
  BY DEF Inv, vars, local, stores, TypeOK, LocalOK, StoresOK, UsedGrows
<1>2. TypeOK' /\ \A q \in Requests : Same(q)
  BY <1>1, TypePartsNext DEF vars, local, Same
<1>3. \A q \in Requests : Staged(q)'
  BY <1>1, <1>2, StagedFrame DEF Inv
<1>4. \A c \in Conversations \ overlapped' : Serial(c)'
  BY <1>2, SerialFrame DEF Inv, vars, stores
<1> QED BY <1>1, <1>2, <1>3, <1>4, StoredFrame DEF Inv, vars, stores

LEMMA NextInv == Inv /\ [Next]_vars => Inv'
<1> SUFFICES ASSUME Inv, [Next]_vars PROVE Inv'
  OBVIOUS
<1>1. ASSUME NEW r \in Requests, Step(r)
      PROVE  Inv'
  <2>1. CASE Leaves(r, "done") /\ UNCHANGED stores
    BY <2>1, LeavesInv DEF stores
  <2> QED BY <1>1, <2>1, SuggestInv, ConfirmInv, InlineInv, InlineExecutesInv, FollowInv,
             ReadInv, WriteConversationInv, WriteUserInv DEF Step, SaveFails, Fails
<1> QED BY <1>1, AskInv, CrashInv, StutterInv DEF Next

LEMMA Invariance == Spec => []Inv
BY InitInv, NextInv, PTL DEF Spec

-----------------------------------------------------------------------------
(* Theorems                                                                 *)

\* Every variable of the V2 context and of its writers keeps its type.
THEOREM ContextTypeCorrect == Spec => []TypeOK
BY Invariance, PTL DEF Inv

\* The file of a conversation is about that conversation and holds evidence
\* gathered in it, whoever writes to it and to the files of users meanwhile,
\* and whatever fails (context.py, save_v2_context).
THEOREM EvidenceAlwaysOwn == Spec => []EvidenceOwn
<1>1. Inv => EvidenceOwn
  BY DEF Inv, Stored, Own, From, EvidenceOwn
<1> QED BY <1>1, Invariance, PTL

\* What a follow-up quotes is of its device, its topic and its conversation,
\* or of one the users of its file have asked in (followup.py).
THEOREM FollowupsJustified == Spec => []FollowupJustified
<1>1. ASSUME Inv PROVE FollowupJustified
  <2> SUFFICES ASSUME NEW r \in Requests, cited[r] # None, NEW item \in cited[r].execs
               PROVE  /\ cited[r].name \in {None, item.device}
                      /\ \/ cited[r].intent \in {None, TopicOf[item.command]}
                         \/ TopicOf[item.command] = "log" /\ cited[r].intent \in LogAided
                      /\ IF req[r].conv # None THEN item.conv = req[r].conv
                         ELSE item.conv \in used[FileOf[req[r].user]]
    BY DEF FollowupJustified
  <2>1. DeviceMatch(cited[r], item) /\ TopicMatch(cited[r], item)
    BY <1>1 DEF Inv, Staged, Clean
  <2>2. item.conv \in Quotable(r)
    BY <1>1 DEF Inv, Staged, From
  <2> QED BY <2>1, <2>2 DEF DeviceMatch, TopicMatch, Quotable, Mine
<1> QED BY <1>1, Invariance, PTL

\* Without overlap of two writers, failures, crashes and writers of other
\* conversations lose no update of a conversation's context, but for those a
\* writer could not read (load_v2_context, save_v2_context_from_response).
THEOREM ContextSerial == Spec => []SerialContext
<1>1. Inv => SerialContext
  BY DEF Inv, Serial, SerialContext
<1> QED BY <1>1, Invariance, PTL

\* Evidence leaves a conversation without overlap only for new evidence, a new
\* device or topic, an inline request, or a writer that could not read it: the
\* sanitiser of a later save or load removes none that the one before kept.
THEOREM EvidenceAlwaysKept == Spec => EvidenceKept
<1> DEFINE kept ==
  \A c \in Conversations \ overlapped :
    disk[c] \in Contexts /\ disk'[c] # disk[c] =>
      \/ disk[c].execs \subseteq disk'[c].execs
      \/ disk'[c].name # disk[c].name
      \/ disk'[c].intent # disk[c].intent
      \/ \E r \in Requests :
           /\ pc[r] = "conv" /\ cid[r] = c
           /\ op[r].clears \/ op[r].execs # {} \/ r \in misread
<1>1. ASSUME Inv, Next PROVE kept
  <2> SUFFICES ASSUME NEW c \in Conversations \ overlapped,
                      disk[c] \in Contexts, disk'[c] # disk[c],
                      disk'[c].name = disk[c].name, disk'[c].intent = disk[c].intent,
                      \A r \in Requests : pc[r] = "conv" /\ cid[r] = c =>
                        ~op[r].clears /\ op[r].execs = {} /\ r \notin misread
               PROVE  disk[c].execs \subseteq disk'[c].execs
    OBVIOUS
  <2>1. disk' # disk /\ c \in Paths
    BY DEF Paths
  <2>2. PICK r \in Requests : WriteConversation(r) \/ WriteUser(r)
    BY <1>1, <2>1 DEF Next, Step, Ask, Suggest, Confirm, Inline, InlineExecutes, Follow,
         Read, SaveFails, Fails, Crash, stores
  <2>3. FileOf[req[r].user] # c
    BY <1>1, MineFacts, PathsAssumption DEF Inv
  <2>4. ~WriteUser(r)
    BY <1>1, <2>1, <2>3 DEF WriteUser, Inv, TypeOK
  <2>5. PICK content \in Written(r, cid[r]) : disk' = [disk EXCEPT ![cid[r]] = content]
    BY <2>2, <2>4 DEF WriteConversation
  <2>6. cid[r] = c /\ disk'[c] = content /\ pc[r] = "conv"
    BY <1>1, <2>1, <2>2, <2>4, <2>5 DEF Inv, TypeOK, WriteConversation
  <2>7. Drafting(c) = {r} /\ draft[r] = Saved(disk[c], op[r], c)
    BY <1>1, <2>6, DraftingOf DEF Inv, Serial
  <2>8. content = Saved(disk[c], op[r], c)
    BY <1>1, <2>1, <2>5, <2>6, <2>7, WrittenFacts DEF Inv
  <2>9. Clean(disk[c]) /\ op[r] \in Ops /\ ~op[r].clears /\ op[r].execs = {}
    BY <1>1, <2>1, <2>6 DEF Inv, Stored, TypeOK
  <2> QED BY <2>6, <2>8, <2>9, SavedKeeps
<1>2. Inv /\ [Next]_vars => [kept]_vars
  BY <1>1
<1> QED BY <1>2, Invariance, PTL DEF Spec, EvidenceKept
=============================================================================
