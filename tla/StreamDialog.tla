---------------------------- MODULE StreamDialog ----------------------------
(* The dialog in which the user edits streams (client/streamconfigdialog.cpp) and the  *)
(* list of protocols it edits (common/protocollistiterator.cpp).  The dialog works   *)
(* on copies of the streams; it shows the protocols of the current one as choices    *)
(* of a button per layer (simple), as a list (advanced) and as widgets that hold     *)
(* the values of their fields, created on demand and found by the address of the     *)
(* protocol.  An address freed may be the next one allocated.                        *)
EXTENDS Integers, FiniteSets, SequencesExt

CONSTANTS
  Protocols,     \* the protocols there are
  Opened,        \* lists of streams the dialog may be opened on
  Modes,         \* transmit modes of the port: "sequential", "interleaved"
  Tracked,       \* per stream statistics are enabled on the port
  Variable,      \* protocols with fields that vary
  PacketsPerBurst,
  TypedLengths, TypedBits, TypedRates, \* what the user may type
  MaxActs        \* things the user does

VARIABLES
  dlg,         \* the protocols and what is shown of them
  meta,      \* of each stream, its other properties
  form,      \* the other properties as shown
  given,     \* the user's streams
  mode,      \* transmitMode of the port
  tab, page, \* twTopLevel, tbSelectProtocols
  row,       \* the current row of lvSelectedProtocols, -1 if none
  state,     \* "open", "accepted", "rejected"
  acts
dialogVars == <<dlg, meta, form, given, mode, tab, page, row, state, acts>>

ProtoL1 == 0
ProtoVlan == 1
ProtoL2 == 2
ProtoL3 == 3
ProtoL4 == 4
ProtoL5 == 5
ProtoPayload == 6
ProtoSign == 7
ProtoTrailer == 8
Layers == ProtoL1..ProtoTrailer
ButtonIdNone == "None"
ButtonIdOther == "Other"
\* setupUiExtra: the protocols that have a button, by layer.
Buttons ==
  [v \in Layers |-> Protocols \intersect
     CASE v = ProtoL1 -> {"mac"}
       [] v = ProtoVlan -> {"vlan", "vlanstack"}
       [] v = ProtoL2 -> {"eth2", "dot3", "dot2llc", "dot2snap"}
       [] v = ProtoL3 -> {"arp", "ip4", "ip6", "ip6over4", "ip4over6", "ip4over4", "ip6over6"}
       [] v = ProtoL4 -> {"tcp", "udp", "icmp", "igmp", "mld"}
       [] v = ProtoL5 -> {"text"}
       [] v = ProtoPayload -> {"payload", "hexdump"}
       [] v = ProtoSign -> {"sign"}
       [] v = ProtoTrailer -> {}]
AllButtons == UNION {Buttons[v] : v \in Layers}

\* protocolIdType: eth2.cpp, snap.cpp, llc.cpp, ip4.cpp, ip6.cpp, gmp.cpp, tcp.cpp and
\* udp.cpp have one of their own; a combo has that of its second protocol.
protocolIdType(p) ==
  CASE p \in {"eth2", "dot2snap"} -> "eth"
    [] p = "dot2llc" -> "llc"
    [] p \in {"ip4", "ip6", "ip4over4", "ip6over4", "ip4over6", "ip6over6", "igmp", "mld"} -> "ip"
    [] p \in {"tcp", "udp"} -> "tcpudp"
    [] OTHER -> "none"

\* The types for which protocolId is not 0, class by class; a combo is known by
\* the numbers of its first protocol.
arpIds == {"eth"}
ip4Ids == {"llc", "eth", "ip"}
ip6Ids == {"eth", "ip"}
tcpIds == {"ip"}
udpIds == {"ip"}
icmpIds == {"ip"}
igmpIds == {"ip"}
mldIds == {"ip"}
textIds == {"tcpudp"}
protocolIds(p) ==
  CASE p = "arp" -> arpIds
    [] p \in {"ip4", "ip4over4", "ip6over4"} -> ip4Ids
    [] p \in {"ip6", "ip4over6", "ip6over6"} -> ip6Ids
    [] p = "tcp" -> tcpIds [] p = "udp" -> udpIds [] p = "icmp" -> icmpIds
    [] p = "igmp" -> igmpIds [] p = "mld" -> mldIds
    [] p = "text" -> textIds
    [] OTHER -> {}
NoPayload == {"arp", "igmp", "mld"}

NoLayers == [v \in Layers |-> ButtonIdNone]

kEthFrameOverHead == 20
Fresh(S) == CHOOSE k \in 1..(Cardinality(S) + 1) : k \notin S /\ 1..(k - 1) \subseteq S

---------------------------------------------------------------------------
(* The protocol list: objects with an address, linked both ways. *)
List(e) == e.lists[e.cur]
IdAt(e, n) == e.heap[List(e)[n]].id
At(s, n) == IF n \in DOMAIN s THEN s[n] ELSE 0

Linked(h, k, p, n) ==
  [j \in DOMAIN h |->
     [h[j] EXCEPT !.prev = CASE j = k -> p [] j = n -> k [] OTHER -> @,
                  !.next = CASE j = k -> n [] j = p -> k [] OTHER -> @]]

\* A protocol k is put after the first n.
insert(e, n, k) ==
  [e EXCEPT !.heap = Linked(@, k, At(List(e), n), At(List(e), n + 1)),
            !.lists[e.cur] = InsertAt(@, n + 1, k)]

\* The nth protocol leaves the list; it keeps its own links.
remove(e, n) ==
  LET x == e.heap[List(e)[n]] IN
  [e EXCEPT !.heap = [j \in DOMAIN @ |->
                        [@[j] EXCEPT !.prev = IF j = x.next THEN x.prev ELSE @,
                                     !.next = IF j = x.prev THEN x.next ELSE @]],
            !.lists[e.cur] = RemoveAt(@, n)]

setValue(e, n, k) ==
  LET x == e.heap[List(e)[n]] IN
  [e EXCEPT !.heap = Linked(@, k, x.prev, x.next),
            !.lists[e.cur] = ReplaceAt(@, n, k)]

createProtocol(e, id_) ==
  [e EXCEPT !.heap = [j \in DOMAIN @ \union {Fresh(DOMAIN @)} |->
                        IF j \in DOMAIN @ THEN @[j]
                        ELSE [id |-> id_, val |-> 0, prev |-> 0, next |-> 0]]]

\* A deleted protocol takes its widget with it.
FreedKeepsWidget(e, k) == [e EXCEPT !.heap = [j \in DOMAIN @ \ {k} |-> @[j]]]
Freed(e, k) ==
  [e EXCEPT !.heap = [j \in DOMAIN @ \ {k} |-> @[j]],
            !.widgets = [j \in DOMAIN @ \ {k} |-> @[j]]]

---------------------------------------------------------------------------
(* The buttons of the layers. *)

\* The protocols of the list up to the layer.
skipProtocols(e, layer) ==
  FoldLeft(LAMBDA n, v : IF n < Len(List(e)) /\ IdAt(e, n + 1) \in Buttons[v] THEN n + 1 ELSE n,
           0, [i \in 1..(layer + 1) |-> i - 1])

RECURSIVE FreedFrom(_, _)
FreedFrom(e, n) ==
  IF n > Len(List(e)) THEN e ELSE FreedFrom(Freed(remove(e, n), List(e)[n]), n)

\* Q_ASSERT(_iter->hasNext()): aborted.
updateProtocol(e, level, newId) ==
  LET n == skipProtocols(e, level - 1)
      old == e.ids[level]
      k == List(e)[n + 1]
      created == createProtocol(e, newId)
      new == Fresh(DOMAIN e.heap)
      changed ==
        CASE old = ButtonIdNone -> insert(created, n, new)
          [] old # ButtonIdNone /\ n = Len(List(e)) -> [e EXCEPT !.aborted = TRUE]
          [] old # ButtonIdNone /\ n < Len(List(e)) ->
               LET one == Freed(IF newId = ButtonIdNone THEN remove(e, n + 1)
                                ELSE setValue(created, n + 1, new), k)
               IN  IF level = ProtoTrailer THEN FreedFrom(one, n + 1) ELSE one
  IN  IF old = newId \/ e.aborted THEN e
      ELSE [changed EXCEPT !.ids[level] = newId,
                           !.othered = @ \/ \E u \in ProtoL1..level : e.ids[u] = ButtonIdOther]

\* None at a layer from L2 to L4 clicks None at the next one, when it is toggled;
\* the list is changed from the innermost click outwards.
NoneFrom(e, v) ==
  LET last == CHOOSE w \in v..ProtoL5 : /\ \A u \in v..(w - 1) : e.ids[u] # ButtonIdNone
                                        /\ w = ProtoL5 \/ e.ids[w] = ButtonIdNone
  IN  FoldLeft(LAMBDA f, i : updateProtocol(f, i, ButtonIdNone), e,
               [i \in 1..(last - v + 1) |-> last + 1 - i])

\* The group of the payload is disabled when L5 is Other.
PayloadNone(e) ==
  IF e.ids[ProtoL5] = ButtonIdOther THEN e ELSE updateProtocol(e, ProtoPayload, ButtonIdNone)

\* L1 None clicks None at the vlan, L2 and payload layers, and disables their protocols.
forceProtocolNone(e) ==
  IF e.ids[ProtoL1] = ButtonIdNone THEN e
  ELSE [PayloadNone(NoneFrom(updateProtocol(e, ProtoVlan, ButtonIdNone), ProtoL2)) EXCEPT !.off = TRUE]

ClickNone(e, v) ==
  CASE v = ProtoL1 -> updateProtocol(forceProtocolNone(e), ProtoL1, ButtonIdNone)
    [] v \in ProtoL2..ProtoL5 -> NoneFrom(e, v)
    [] OTHER -> updateProtocol(e, v, ButtonIdNone)

isValidNeighbour(p, q) == protocolIdType(p) \in protocolIds(q)

\* A protocol that no protocol of the next layer may follow clicks None there, one
\* that has no payload clicks None at the payload layer.
Forced(e, v, id) ==
  LET next == IF v \in ProtoL2..ProtoL4 /\ ~\E q \in Buttons[v + 1] : isValidNeighbour(id, q)
              THEN NoneFrom(e, v + 1) ELSE e
  IN  IF v \in ProtoL2..ProtoL4 /\ id \in NoPayload THEN PayloadNone(next) ELSE next

ClickProtocol(e, v, id) ==
  LET f == updateProtocol(Forced(e, v, id), v, id)
  IN  IF v = ProtoL1 THEN [f EXCEPT !.off = FALSE] ELSE f

\* A layer is disabled when the previous one is Other.
GroupEnabled(e, v) ==
  v \in ProtoL2..ProtoPayload => e.ids[IF v = ProtoL2 THEN ProtoL1 ELSE v - 1] # ButtonIdOther
ButtonEnabled(e, v, id) ==
  /\ GroupEnabled(e, v)
  /\ CASE v \in {ProtoVlan, ProtoL2, ProtoPayload} -> ~e.off
       [] v \in ProtoL3..ProtoL5 -> isValidNeighbour(e.ids[v - 1], id)
       [] OTHER -> TRUE

\* The choices that show the list, from the layer i and after its first n protocols:
\* what no button stands for makes this and the later layers Other.
OtherFrom(ids, i) ==
  [v \in Layers |-> IF v >= i /\ v \notin {ProtoVlan, ProtoSign} THEN ButtonIdOther ELSE ids[v]]
RECURSIVE Shown(_, _, _, _)
Shown(e, i, n, ids) ==
  LET id == IdAt(e, n + 1) IN
  CASE n = Len(List(e)) -> ids
    [] n < Len(List(e)) /\ i > ProtoTrailer -> OtherFrom(ids, ProtoTrailer)
    [] n < Len(List(e)) /\ i <= ProtoTrailer ->
         CASE id \in Buttons[i] -> Shown(e, i + 1, n + 1, [ids EXCEPT ![i] = id])
           [] id \notin Buttons[i] /\ i \in {ProtoVlan, ProtoSign} -> Shown(e, i + 1, n, ids)
           [] /\ id \in Buttons[ProtoPayload] \ Buttons[i] /\ i \notin {ProtoVlan, ProtoSign}
              /\ e.off => ids[ProtoL1] # ButtonIdNone
                -> Shown(e, ProtoSign, n + 1, [ids EXCEPT ![ProtoPayload] = id])
           [] OTHER -> OtherFrom(ids, i)

updateSelectProtocolsSimpleWidget(e) ==
  LET reset == [e EXCEPT !.off = @ \/ e.ids[ProtoL1] # ButtonIdNone]
      ids_ == Shown(reset, ProtoL1, 0, NoLayers)
  IN  [reset EXCEPT !.ids = ids_, !.off = @ /\ ids_[ProtoL1] = ButtonIdNone, !.othered = FALSE]

---------------------------------------------------------------------------
(* The widgets of the protocols of the current stream. *)
Widget(e, k) == [id |-> e.heap[k].id, val |-> e.heap[k].val]
loadProtocolWidgets(e) ==
  [e EXCEPT !.widgets = [k \in DOMAIN @ \union Range(List(e)) |->
                           IF k \in Range(List(e)) THEN Widget(e, k) ELSE @[k]]]
\* Missing widgets are created and loaded.
createWidgets(e) ==
  [e EXCEPT !.widgets = [k \in DOMAIN @ \union Range(List(e)) |->
                           IF k \in DOMAIN @ THEN @[k] ELSE Widget(e, k)]]
storeProtocolWidgets(e) ==
  LET f == createWidgets(e)
  IN  [f EXCEPT !.heap = [k \in DOMAIN @ |->
                            IF k \in Range(List(e)) THEN [@[k] EXCEPT !.val = f.widgets[k].val] ELSE @[k]]]

---------------------------------------------------------------------------
(* The other properties.  A rate is a number of hundred thousandths, shown with four *)
(* decimals.                                                                         *)
Decimals(r) == ((r + 5) \div 10) * 10
UnitBits(len_, unit) ==
  (len_ + kEthFrameOverHead) * 8 * (IF unit = "bursts" THEN PacketsPerBurst ELSE 1)
Rounded(a, b) == (2 * a + b) \div (2 * b)

\* on_rbPacketsPerSec_toggled, on_rbBurstsPerSec_toggled
RateChosen(f, m) ==
  [f EXCEPT !.by = "rate", !.bits = Rounded(f.rate[f.unit] * UnitBits(m.len, f.unit), 100000)]

\* on_lePacketsPerSec_textChanged, on_leBurstsPerSec_textChanged: the bits follow
\* the rate when it is the rate that is typed.
RateChanged(f, m, r) ==
  [f EXCEPT !.rate[f.unit] = r,
            !.bits = IF f.by = "rate" /\ r # f.rate[f.unit]
                     THEN Rounded(r * UnitBits(m.len, f.unit), 100000) ELSE @]

\* on_leBitsPerSec_textEdited
BitsEdited(f, m, b) ==
  [f EXCEPT !.bits = b, !.rate[f.unit] = Decimals((b * 100000) \div UnitBits(m.len, f.unit))]

LoadForm(f, m) ==
  LET g == [f EXCEPT !.len = m.len, !.unit = m.unit, !.mode = m.mode]
      h == RateChanged(g, m, Decimals(m.rate[m.unit]))
  IN  [h EXCEPT !.rate = [u \in DOMAIN @ |-> Decimals(m.rate[u])]]
StoreForm(f) == [len |-> f.len, unit |-> f.unit, mode |-> f.mode, rate |-> f.rate]

---------------------------------------------------------------------------
LoadCurrentStream(e) == loadProtocolWidgets(updateSelectProtocolsSimpleWidget(e))

\* The copies of the user's streams: the protocols of all the streams one after the
\* other, each linked to its neighbours.
Start(g, i) == FoldLeft(LAMBDA n, j : n + Len(g[j].protos), 0, [j \in 1..(i - 1) |-> j])
Copied(g) ==
  LET keys == [i \in DOMAIN g |-> [n \in DOMAIN g[i].protos |-> Start(g, i) + n]]
      Of(k) == CHOOSE i \in DOMAIN g : k \in Range(keys[i])
      Obj(k, i, n) == [id |-> g[i].protos[n].id, val |-> g[i].protos[n].val,
                       prev |-> At(keys[i], n - 1), next |-> At(keys[i], n + 1)]
  IN  [lists |-> keys,
       heap |-> [k \in UNION {Range(keys[i]) : i \in DOMAIN g} |-> Obj(k, Of(k), k - Start(g, Of(k)))],
       cur |-> 1, widgets |-> <<>>, ids |-> NoLayers,
       off |-> FALSE, aborted |-> FALSE, othered |-> FALSE]

\* StreamConfigDialog: the mode of the port is shown whatever the stream's.
DialogInit ==
  \E g \in Opened, m \in Modes :
    /\ given = g /\ mode = m
    /\ dlg = LoadCurrentStream(Copied(g))
    /\ meta = [i \in DOMAIN g |-> g[i].meta]
    /\ LET blank == [len |-> 0, unit |-> g[1].meta.unit, mode |-> m, bits |-> 0, by |-> "rate",
                     rate |-> [u \in {"packets", "bursts"} |-> 0]]
       IN  form = [LoadForm(blank, g[1].meta) EXCEPT
                     !.mode = IF m = "sequential" THEN "fixed" ELSE "continuous"]
    /\ tab = "protocols" /\ page = "simple" /\ row = -1 /\ state = "open" /\ acts = 0

Act == state = "open" /\ ~dlg.aborted /\ acts < MaxActs /\ acts' = acts + 1

StoreCurrentStream(e, m, f) == <<storeProtocolWidgets(e), [m EXCEPT ![e.cur] = StoreForm(f)]>>

\* A click on a button of a layer.
updateProtocolClicked ==
  /\ Act /\ tab = "protocols" /\ page = "simple"
  /\ \E v \in Layers, id \in AllButtons \union {ButtonIdNone} :
       /\ IF id = ButtonIdNone THEN GroupEnabled(dlg, v)
          ELSE id \in Buttons[v] /\ ButtonEnabled(dlg, v, id)
       /\ dlg' = IF id = ButtonIdNone THEN ClickNone(dlg, v) ELSE ClickProtocol(dlg, v, id)
  /\ UNCHANGED <<meta, form, given, mode, tab, page, row, state>>

\* The advanced list is a new one: no row of it is current.
on_tbSelectProtocols_currentChanged ==
  /\ Act /\ tab = "protocols"
  /\ page' = IF page = "simple" THEN "advanced" ELSE "simple"
  /\ dlg' = IF page' = "simple" THEN updateSelectProtocolsSimpleWidget(dlg) ELSE dlg
  /\ row' = IF page' = "advanced" THEN -1 ELSE row
  /\ UNCHANGED <<meta, form, given, mode, tab, state>>

Advanced == Act /\ tab = "protocols" /\ page = "advanced"

when_lvSelectedProtocols_currentChanged ==
  /\ Advanced /\ row' \in (0..(Len(List(dlg)) - 1)) \ {row}
  /\ UNCHANGED <<dlg, meta, form, given, mode, tab, page, state>>

\* Before the current row, or first; a row past the end is the end.
on_tbAdd_clicked ==
  /\ Advanced /\ row <= Len(List(dlg))
  /\ \E id \in Protocols :
       dlg' = insert(createProtocol(dlg, id), IF row = -1 THEN 0 ELSE row, Fresh(DOMAIN dlg.heap))
  /\ UNCHANGED <<meta, form, given, mode, tab, page, row, state>>

on_tbDelete_clicked ==
  /\ Advanced /\ row \in 0..(Len(List(dlg)) - 1)
  /\ dlg' = Freed(remove(dlg, row + 1), List(dlg)[row + 1])
  /\ UNCHANGED <<meta, form, given, mode, tab, page, row, state>>

on_tbUp_clicked ==
  /\ Advanced /\ row \in 1..(Len(List(dlg)) - 1)
  /\ dlg' = insert(remove(dlg, row + 1), row - 1, List(dlg)[row + 1])
  /\ row' = row - 1
  /\ UNCHANGED <<meta, form, given, mode, tab, page, state>>

\* Disabled on the last row.
on_tbDown_clicked ==
  /\ Advanced /\ row \in 0..(Len(List(dlg)) - 2)
  /\ dlg' = insert(remove(dlg, row + 1), row + 1, List(dlg)[row + 1])
  /\ row' = row + 1
  /\ UNCHANGED <<meta, form, given, mode, tab, page, state>>

\* Protocol data shows the widgets; the later tabs store the stream.
Entered(t, e, m, f) ==
  CASE t = "protocols" -> <<e, m>>
    [] t = "data" -> <<createWidgets(e), m>>
    [] t \in {"fields", "control", "packet"} -> StoreCurrentStream(e, m, f)

on_twTopLevel_currentChanged ==
  /\ Act
  /\ \E t \in {"protocols", "data", "fields", "control", "packet"} \ {tab} :
       /\ tab' = t
       /\ \E shown \in {Entered(t, dlg, meta, form)} : dlg' = shown[1] /\ meta' = shown[2]
  /\ UNCHANGED <<form, given, mode, page, row, state>>

\* What the user types.
EditWidget ==
  /\ Act /\ tab = "data"
  /\ \E k \in Range(List(dlg)) : dlg' = [dlg EXCEPT !.widgets[k].val = 1 - @]
  /\ UNCHANGED <<meta, form, given, mode, tab, page, row, state>>
EditForm ==
  /\ Act
  /\ \/ tab = "protocols" /\ \E n \in TypedLengths \ {form.len} : form' = [form EXCEPT !.len = n]
     \/ /\ tab = "control"
        /\ \/ form.by = "bits" /\ \E b \in TypedBits : form' = BitsEdited(form, meta[dlg.cur], b)
           \/ form.by = "rate" /\ \E r \in TypedRates : form' = RateChanged(form, meta[dlg.cur], r)
           \/ form' = [form EXCEPT !.unit = IF @ = "packets" THEN "bursts" ELSE "packets"]
           \/ form.by = "rate" /\ form' = [form EXCEPT !.by = "bits"]
           \/ form.by = "bits" /\ form' = RateChosen(form, meta[dlg.cur])
  /\ form' # form
  /\ UNCHANGED <<dlg, meta, given, mode, tab, page, row, state>>

---------------------------------------------------------------------------
\* A warning the user need not ignore; preflightCheck warns of a frame too short for
\* its protocols, and may warn of more.
isCurrentStreamValid(e, m) ==
  LET ids_ == {e.heap[k].id : k \in Range(List(e))}
  IN  IF \/ mode = "interleaved" /\ ids_ \cap Variable # {}
         \/ ~Tracked /\ "sign" \in ids_
         \/ m[e.cur].len < 14 * Cardinality(ids_)
      THEN BOOLEAN ELSE {TRUE}

\* pbPrev, pbNext: the stream is stored whether it is valid or not.
Move(to) ==
  /\ Act /\ to \in DOMAIN meta
  /\ \E stored \in {StoreCurrentStream(dlg, meta, form)} :
       \/ /\ FALSE \in isCurrentStreamValid(stored[1], stored[2])
          /\ dlg' = stored[1] /\ meta' = stored[2] /\ UNCHANGED <<form, row>>
       \/ /\ form' = LoadForm(form, stored[2][to]) /\ row' = -1
          /\ \E loaded \in {LoadCurrentStream([stored[1] EXCEPT !.cur = to])} :
             \E shown \in {Entered(tab, loaded, stored[2], form')} :
               dlg' = shown[1] /\ meta' = shown[2]
  /\ UNCHANGED <<given, mode, tab, page, state>>
on_pbPrev_clicked == Move(dlg.cur - 1)
on_pbNext_clicked == Move(dlg.cur + 1)

on_pbOk_clicked ==
  /\ Act
  /\ \E stored \in {StoreCurrentStream(dlg, meta, form)} :
       /\ dlg' = stored[1] /\ meta' = stored[2]
       /\ \/ /\ FALSE \in isCurrentStreamValid(stored[1], stored[2])
             /\ UNCHANGED <<given, state>>
          \/ /\ state' = "accepted"
             /\ given' = [i \in DOMAIN meta' |->
                           [protos |-> [n \in DOMAIN dlg'.lists[i] |-> Widget(dlg', dlg'.lists[i][n])],
                            meta |-> meta'[i]]]
  /\ UNCHANGED <<form, mode, tab, page, row>>

reject ==
  /\ state = "open" /\ ~dlg.aborted /\ state' = "rejected"
  /\ UNCHANGED <<dlg, meta, form, given, mode, tab, page, row, acts>>

DialogNext ==
  \/ updateProtocolClicked \/ on_tbSelectProtocols_currentChanged
  \/ when_lvSelectedProtocols_currentChanged
  \/ on_tbAdd_clicked \/ on_tbDelete_clicked \/ on_tbUp_clicked \/ on_tbDown_clicked
  \/ on_twTopLevel_currentChanged \/ EditWidget \/ EditForm
  \/ on_pbPrev_clicked \/ on_pbNext_clicked \/ on_pbOk_clicked \/ reject

---------------------------------------------------------------------------
(* What the layers show of the list: their protocols in order, then what is Other. *)
Described(e) ==
  LET known == SelectSeq([i \in 1..9 |-> e.ids[i - 1]],
                         LAMBDA id : id \notin {ButtonIdNone, ButtonIdOther})
  IN  /\ Len(known) <= Len(List(e))
      /\ \A n \in DOMAIN known : IdAt(e, n) = known[n]
      /\ (Len(known) < Len(List(e))) = (\E v \in Layers : e.ids[v] = ButtonIdOther)

\* Protocols of the payload layer in the list; the layers show one.
Payloads(e) == {k \in Range(List(e)) : e.heap[k].id \in Buttons[ProtoPayload]}

(* The views of a stream agree.  As long as the user leaves the layers alone from    *)
(* the first shown as Other on, the buttons of the simple page describe the protocol *)
(* list, and no click finds the list shorter than they say (__updateProtocol).       *)
(* Every widget belongs to a protocol that lives and is of its kind, whichever       *)
(* addresses were freed and used again.  The links between protocols follow the      *)
(* list.  On a tab after the first two the stream holds what is shown, so that bit   *)
(* rates are computed with the length that is shown, and accepted streams are those. *)
ViewsAgree ==
  /\ ~dlg.othered /\ page = "simple" /\ Cardinality(Payloads(dlg)) <= 1 =>
       ~dlg.aborted /\ Described(dlg)
  /\ ~dlg.aborted =>
       /\ \A k \in DOMAIN dlg.widgets : k \in DOMAIN dlg.heap /\ dlg.heap[k].id = dlg.widgets[k].id
       /\ \A i \in DOMAIN dlg.lists : \A n \in DOMAIN dlg.lists[i] :
            LET x == dlg.heap[dlg.lists[i][n]]
            IN  x.prev = At(dlg.lists[i], n - 1) /\ x.next = At(dlg.lists[i], n + 1)
       /\ tab \in {"fields", "control", "packet"} \/ state = "accepted" =>
            /\ meta[dlg.cur].len = form.len
            /\ \A k \in Range(List(dlg)) : k \in DOMAIN dlg.widgets /\ dlg.widgets[k] = Widget(dlg, k)
=============================================================================
