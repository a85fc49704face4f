------------------------------ MODULE Weapons ------------------------------
(***************************************************************************)
(* What a player carries (dlls/player.cpp, dlls/weapons.cpp): the chains   *)
(* of weapons, the weapon in hand and the last one, the ammunition in clip *)
(* and pack, and the box that a drop or a death leaves behind.  Four kinds *)
(* of weapon stand for the rest: one without ammunition that can be thrown *)
(* (crowbar), a gun with a clip (glock), and the two exhaustible ones that *)
(* take themselves away when put down empty (handgrenade, satchel).        *)
(*                                                                         *)
(* The delays of attacks and of thinks are left open: a step may come at   *)
(* any time, unless a comment says which delay forbids it.                 *)
(***************************************************************************)
EXTENDS Integers, FiniteSets, FiniteSetsExt, SequencesExt

CONSTANTS WeaponInfo,   \* class -> [kind, slot, ammo, max, clip, give, weight]
          ItemClass,    \* item -> its class
          Casts,        \* sets of items: the entities there is room for
          InWorld,      \* the items the map starts with
          ComeBack,     \* those of them without SF_NORESPAWN
          Slots         \* number of slots (MAX_ITEM_TYPES)

Classes == DOMAIN WeaponInfo
Info(i) == WeaponInfo[ItemClass[i]]
AmmoTypes == {WeaponInfo[c].ammo : c \in Classes} \ {"none"}
Exhaustible(c) == WeaponInfo[c].kind \in {"grenade", "satchel"}
NoItem == "none"
NoClip == -1

\* What the ItemInfo of the four kinds has in common; a satchel is never changed
\* to of itself (SATCHEL_WEIGHT).
ASSUME WeaponsAssumption ==
    /\ Slots \in Nat /\ IsFiniteSet(Classes)
    /\ \A c \in Classes :
          /\ WeaponInfo[c].kind \in {"melee", "gun", "grenade", "satchel"}
          /\ WeaponInfo[c].slot \in 1..Slots
          /\ WeaponInfo[c].give \in Nat /\ WeaponInfo[c].weight \in Int
          /\ WeaponInfo[c].kind = "melee" <=> WeaponInfo[c].ammo = "none"
          /\ WeaponInfo[c].ammo # "none" => WeaponInfo[c].max \in Nat
          /\ IF WeaponInfo[c].kind = "gun" THEN WeaponInfo[c].clip \in Nat \ {0}
             ELSE WeaponInfo[c].clip = NoClip
          /\ WeaponInfo[c].kind = "satchel" => WeaponInfo[c].weight < 0
    /\ NoItem \notin DOMAIN ItemClass
    /\ \A i \in DOMAIN ItemClass : ItemClass[i] \in Classes
    /\ \A cast \in Casts : cast \subseteq DOMAIN ItemClass

VARIABLES player,   \* CBasePlayer
          item,     \* item -> CBasePlayerWeapon
          box       \* CWeaponBox

weaponVars == <<player, item, box>>
Items == DOMAIN item

\* m_fStartThrow and m_chargeReady are one field: "idle", "primed", "ready" or
\* "reload".
Absent == [exists |-> FALSE, touch |-> FALSE, think |-> "none", clip |-> 0,
           give |-> 0, state |-> "idle", reload |-> FALSE, norespawn |-> TRUE]
NoBox == [there |-> FALSE, slots |-> [k \in 1..Slots |-> <<>>],
          ammo |-> [a \in AmmoTypes |-> 0], kill |-> FALSE]

\* Spawn of an item
Placed(i, norespawn) ==
    [Absent EXCEPT !.exists = TRUE, !.touch = TRUE, !.give = Info(i).give,
                   !.clip = IF Info(i).kind = "melee" THEN NoClip ELSE 0,
                   !.norespawn = norespawn]

WeaponInit ==
    /\ player = [slots |-> [k \in 1..Slots |-> <<>>], active |-> NoItem, last |-> NoItem,
                 ammo |-> [a \in AmmoTypes |-> 0], weapons |-> {}, dead |-> FALSE,
                 crashed |-> FALSE]
    /\ \E cast \in Casts : item = [i \in cast |-> IF i \in InWorld THEN Placed(i, i \notin ComeBack) ELSE Absent]
    /\ box = NoBox

\* The state in the middle of a call.  full: no entity was left for a new item.
NowCarried == [p |-> player, i |-> item, b |-> box, full |-> FALSE]
CarriedBecome(next) ==
    \E s \in {next} : /\ ~s.full /\ s # NowCarried
                      /\ player' = s.p /\ item' = s.i /\ box' = s.b

-----------------------------------------------------------------------------
(* The chains *)

Slot(i) == Info(i).slot
Holds(slots, i) == \E k \in 1..Slots : i \in ToSet(slots[k])
CarriedOf(slots, c) == {i \in Items : ItemClass[i] = c /\ Holds(slots, i)}
InOrder(slots) ==
    LET upTo[k \in 0..Slots] == IF k = 0 THEN <<>> ELSE upTo[k - 1] \o slots[k] IN upTo[Slots]
Carried(s) == InOrder(s.p.slots)
Pushed(slots, i) == [slots EXCEPT ![Slot(i)] = <<i>> \o @]
Taken(slots, i) == [slots EXCEPT ![Slot(i)] = RemoveFirst(@, i)]

Think(s, i, think) == [s EXCEPT !.i[i].think = think]

\* CBasePlayerItem::Kill and Drop
RemoveLater(s, i) == [s EXCEPT !.i[i].touch = FALSE, !.i[i].think = "SUB_Remove"]

\* Bug: the last weapon is not reset.
UnlinkKeepsLast(s, i) ==
    [s EXCEPT !.p.active = IF @ = i THEN NoItem ELSE @, !.p.slots = Taken(@, i)]

\* The end of CBasePlayer::RemovePlayerItem
Unlink(s, i) ==
    [s EXCEPT !.p.active = IF @ = i THEN NoItem ELSE @,
              !.p.last = IF @ = i THEN NoItem ELSE @,
              !.p.slots = Taken(@, i)]

\* CBasePlayerItem::DestroyItem, with RemovePlayerItem( this, false )
DestroyItem(s, i) == RemoveLater(Unlink(Think(s, i, "none"), i), i)

\* Bug: the weapon destroys itself, and the client is not told.
HolsterKeepsBit(s, i) ==
    LET empty == s.p.ammo[Info(i).ammo] = 0
    IN  CASE Info(i).kind = "melee" -> s
          [] Info(i).kind = "gun" -> [s EXCEPT !.i[i].reload = FALSE]
          [] OTHER -> IF empty /\ s.i[i].state # "ready" THEN DestroyItem(s, i) ELSE s

\* Holster of the four: an exhaustible weapon without ammunition destroys itself.
Holster(s, i) ==
    LET empty == s.p.ammo[Info(i).ammo] = 0
        away == DestroyItem([s EXCEPT !.p.weapons = @ \ {ItemClass[i]}], i)
    IN  CASE Info(i).kind = "melee" -> s
          [] Info(i).kind = "gun" -> [s EXCEPT !.i[i].reload = FALSE]
          [] Info(i).kind = "grenade" -> [(IF empty THEN away ELSE s) EXCEPT !.i[i].state = "idle"]
          [] Info(i).kind = "satchel" -> IF empty /\ s.i[i].state # "ready" THEN away ELSE s
HolsterActive(s) == IF s.p.active = NoItem THEN s ELSE Holster(s, s.p.active)

\* CBasePlayer::RemovePlayerItem( pItem, true )
RemovePlayerItem(s, i) ==
    LET t == Think(s, i, "none") IN Unlink(IF t.p.active = i THEN Holster(t, i) ELSE t, i)

CanHolster(s, i) == s.i[i].state # "primed"
HasAmmo(s, i) == s.p.ammo[Info(i).ammo] > 0
CanDeploy(s, i) ==
    CASE Info(i).kind = "melee" -> TRUE
      [] Info(i).kind = "satchel" -> HasAmmo(s, i) \/ s.i[i].state # "idle"
      [] OTHER -> HasAmmo(s, i) \/ s.i[i].clip > 0
IsUseable(s, i) ==
    IF Info(i).kind = "satchel" THEN CanDeploy(s, i)
    ELSE s.i[i].clip > 0 \/ Info(i).ammo = "none" \/ HasAmmo(s, i)

\* CBasePlayer::SwitchWeapon; the weapon before is not remembered.
SwitchWeapon(s, i) ==
    IF CanDeploy(s, i) THEN [HolsterActive(s) EXCEPT !.p.active = i] ELSE s

\* CHalfLifeMultiplay::GetNextBestWeapon: the first one as good as cur, or else
\* the first of the best.
Candidates(s, cur) ==
    {i \in Items : Holds(s.p.slots, i) /\ i # cur /\ CanDeploy(s, i) /\ Info(i).weight > -1}
Preferred(s, cur) ==
    LET could == Candidates(s, cur)
        same == {i \in could : Info(i).weight = Info(cur).weight}
    IN  IF same # {} THEN same
        ELSE {i \in could : \A j \in could : Info(j).weight <= Info(i).weight}
NextBest(s, cur) ==
    Carried(s)[Min({n \in DOMAIN Carried(s) : Carried(s)[n] \in Preferred(s, cur)})]
GetNextBestWeapon(s, cur) ==
    IF ~CanHolster(s, cur) \/ Candidates(s, cur) = {} THEN [ok |-> FALSE, s |-> s]
    ELSE [ok |-> TRUE, s |-> SwitchWeapon(s, NextBest(s, cur))]

\* CBasePlayerWeapon::RetireWeapon
RetireWeapon(s, i) ==
    LET next == GetNextBestWeapon(s, i)
    IN  IF next.ok THEN next.s
        ELSE IF s.p.active = i
             THEN [Holster(s, i) EXCEPT !.p.last = NoItem, !.p.active = NoItem]
             ELSE s

-----------------------------------------------------------------------------
(* Ammunition and new items *)

\* CGameRules::CanHaveAmmo and CBasePlayer::GiveAmmo, which hands out what fits.
Least(m, n) == IF m < n THEN m ELSE n
CanHaveAmmo(s, c) == WeaponInfo[c].ammo # "none" /\ s.p.ammo[WeaponInfo[c].ammo] < WeaponInfo[c].max
GiveAmmo(s, c, n) ==
    IF CanHaveAmmo(s, c)
    THEN [s EXCEPT !.p.ammo[WeaponInfo[c].ammo] = Least(@ + n, WeaponInfo[c].max)]
    ELSE s

\* AddPrimaryAmmo: only an empty clip is filled.
AddPrimaryAmmo(s, i, n) ==
    LET into == IF s.i[i].clip = 0 THEN Least(n, Info(i).clip) ELSE 0
    IN  IF Info(i).clip < 1
        THEN GiveAmmo([s EXCEPT !.i[i].clip = NoClip], ItemClass[i], n)
        ELSE GiveAmmo([s EXCEPT !.i[i].clip = @ + into], ItemClass[i], n - into)

\* ExtractAmmo of item from for the weapon to, perhaps the same
ExtractAmmo(s, from, to) ==
    IF Info(from).ammo = "none" THEN s
    ELSE [AddPrimaryAmmo(s, to, s.i[from].give) EXCEPT !.i[from].give = 0]

\* AddDuplicate: what a second weapon of a class gives to the first one.
\* ExtractClipAmmo returns what GiveAmmo returns, an index or -1: never zero.
AddDuplicate(s, i, first) ==
    IF Info(i).kind = "satchel" /\ s.i[first].state # "idle" THEN [took |-> FALSE, s |-> s]
    ELSE IF s.i[i].give # 0
    THEN [took |-> CanHaveAmmo(s, ItemClass[i]), s |-> ExtractAmmo(s, i, first)]
    ELSE [took |-> TRUE,
          s |-> IF Info(i).ammo = "none" THEN s
                ELSE GiveAmmo(s, ItemClass[i], IF s.i[i].clip = NoClip THEN 0 ELSE s.i[i].clip)]

\* A new entity of a class
Spare(s, c) == {i \in Items : ItemClass[i] = c /\ ~s.i[i].exists}
Create(s, c, norespawn) ==
    IF Spare(s, c) = {} THEN [s EXCEPT !.full = TRUE]
    ELSE LET i == CHOOSE i \in Spare(s, c) : TRUE IN [s EXCEPT !.i[i] = Placed(i, norespawn)]

\* CheckRespawn: the copy is out of reach until it materializes.
CheckRespawn(s, i) ==
    IF s.i[i].norespawn THEN s
    ELSE IF Spare(s, ItemClass[i]) = {} THEN [s EXCEPT !.full = TRUE]
    ELSE LET n == CHOOSE n \in Spare(s, ItemClass[i]) : TRUE
         IN  [s EXCEPT !.i[n] = [Placed(n, FALSE) EXCEPT !.touch = FALSE, !.think = "Materialize"]]

\* CHalfLifeMultiplay::FShouldSwitchWeapon
ShouldSwitch(s, i) ==
    /\ CanDeploy(s, i)
    /\ s.p.active # NoItem => /\ CanHolster(s, s.p.active)
                              /\ Info(i).weight > Info(s.p.active).weight

\* AddToPlayer, and the rest of CBasePlayer::AddPlayerItem for a class that the
\* player has not got
Added(s, i) ==
    LET mine == ExtractAmmo([s EXCEPT !.p.weapons = @ \cup {ItemClass[i]},
                                      !.i[i].state = IF Info(i).kind = "satchel" THEN "idle" ELSE @],
                            i, i)
        in == [CheckRespawn(mine, i) EXCEPT !.p.slots = Pushed(@, i)]
    IN  IF ShouldSwitch(in, i) THEN SwitchWeapon(in, i) ELSE in

\* CBasePlayer::AddPlayerItem, and AttachToPlayer when it returns TRUE
AddPlayerItem(s, i) ==
    LET first == CHOOSE j \in CarriedOf(s.p.slots, ItemClass[i]) : TRUE
        dup == AddDuplicate(s, i, first)
    IN  IF CarriedOf(s.p.slots, ItemClass[i]) = {}
        THEN [Added(s, i) EXCEPT !.i[i].touch = FALSE, !.i[i].think = "none"]
        ELSE IF dup.took THEN RemoveLater(CheckRespawn(dup.s, i), i) ELSE dup.s

-----------------------------------------------------------------------------
(* Picking up and putting down *)

Alive == ~player.dead /\ ~player.crashed

\* CBasePlayerItem::DefaultTouch
DefaultTouch(s, i) ==
    IF CanHaveAmmo(s, ItemClass[i]) \/ CarriedOf(s.p.slots, ItemClass[i]) = {}
    THEN AddPlayerItem(s, i) ELSE s

TouchItem(i) == Alive /\ item[i].touch /\ CarriedBecome(DefaultTouch(NowCarried, i))

\* CBasePlayer::GiveNamedItem: a new item, touched at once
GiveNamedItem(c) ==
    /\ Alive /\ Spare(NowCarried, c) # {}
    /\ LET i == CHOOSE i \in Spare(NowCarried, c) : TRUE
       IN  CarriedBecome(DefaultTouch(Create(NowCarried, c, TRUE), i))

\* CWeaponBox::Touch.  For ammunition that is a weapon, a weapon is made if the
\* player has none; the packed ones follow, and what the player refuses is gone
\* with the box.
BoxWeapon(s, c) ==
    IF s.b.ammo[WeaponInfo[c].ammo] = 0 \/ CarriedOf(s.p.slots, c) # {} THEN s
    ELSE IF Spare(s, c) = {} THEN [s EXCEPT !.full = TRUE]
    ELSE LET i == CHOOSE i \in Spare(s, c) : TRUE
         IN  AddPlayerItem([s EXCEPT !.i[i] = [Placed(i, TRUE) EXCEPT !.give = 0]], i)

BoxAmmo(s, c) ==
    LET a == WeaponInfo[c].ammo
        made == IF Exhaustible(c) THEN BoxWeapon(s, c) ELSE s
    IN  IF s.b.ammo[a] = 0 THEN s
        ELSE [GiveAmmo(made, c, s.b.ammo[a]) EXCEPT !.b.ammo[a] = 0]

BoxWeapons(s) ==
    LET packed == InOrder(s.b.slots)
        given[n \in 0..Len(packed)] ==
            IF n = 0 THEN s ELSE AddPlayerItem(given[n - 1], packed[n])
    IN  [given[Len(packed)] EXCEPT !.b = NoBox]

BoxTouch ==
    LET fed == SetToSeq({c \in Classes : WeaponInfo[c].ammo # "none"})
        given[n \in 0..Len(fed)] ==
            IF n = 0 THEN NowCarried ELSE BoxAmmo(given[n - 1], fed[n])
    IN  Alive /\ box.there /\ CarriedBecome(BoxWeapons(given[Len(fed)]))

\* CWeaponBox::PackWeapon.  An item that went away while it was unhooked, or had
\* gone before, is not packed.
PackWeapon(s, i) ==
    LET out == RemovePlayerItem(s, i)
        gone == IF s.p.active = i THEN ~Holds(Holster(s, i).p.slots, i) ELSE ~Holds(s.p.slots, i)
    IN  IF CarriedOf(s.b.slots, ItemClass[i]) # {} THEN s
        ELSE IF gone THEN out
        ELSE [out EXCEPT !.b.slots = Pushed(@, i), !.i[i].norespawn = TRUE,
                         !.i[i].think = "none", !.i[i].touch = FALSE]

PackAmmo(s, c, n) ==
    [s EXCEPT !.b.ammo[WeaponInfo[c].ammo] = Least(@ + n, WeaponInfo[c].max)]

\* Bug: the half is packed, and the player keeps the whole.
DropAmmoKept(s, c) ==
    IF WeaponInfo[c].ammo = "none" THEN s
    ELSE PackAmmo(s, c, s.p.ammo[WeaponInfo[c].ammo] \div 2)

\* The last part of CBasePlayer::DropPlayerItem: all the ammunition of a weapon
\* that is its own ammunition, half of the other
DropAmmo(s, c) ==
    LET n == s.p.ammo[WeaponInfo[c].ammo]
        part == IF Exhaustible(c) THEN n ELSE n \div 2
    IN  IF WeaponInfo[c].ammo = "none" THEN s
        ELSE [PackAmmo(s, c, part) EXCEPT
                 !.p.ammo[WeaponInfo[c].ammo] = IF Exhaustible(c) THEN 0 ELSE part]

\* CBasePlayer::DropPlayerItem of a carried item, by its name or in hand.  Bound:
\* one box at a time.
DropPlayerItem(i) ==
    LET next == GetNextBestWeapon(NowCarried, i)
        s == [next.s EXCEPT !.p.weapons = @ \ {ItemClass[i]}, !.b = [NoBox EXCEPT !.there = TRUE]]
    IN  /\ ~player.crashed /\ ~box.there /\ Holds(player.slots, i) /\ next.ok
        /\ CarriedBecome(DropAmmo(PackWeapon(s, i), ItemClass[i]))

-----------------------------------------------------------------------------
(* Choosing *)

\* CBasePlayer::SelectItem
SelectItem(i) ==
    LET s == HolsterActive(NowCarried)
    IN  /\ ~player.crashed /\ Holds(player.slots, i) /\ i # player.active
        /\ CarriedBecome([s EXCEPT !.p.last = s.p.active, !.p.active = i])

\* CBasePlayer::SelectLastItem.  Holster may reset m_pLastItem, and Deploy of NULL
\* is the end of the program.
SelectLastItem ==
    LET s == HolsterActive(NowCarried)
    IN  /\ ~player.crashed /\ player.last # NoItem
        /\ player.active # NoItem => CanHolster(NowCarried, player.active)
        /\ CarriedBecome([s EXCEPT !.p.active = s.p.last, !.p.last = s.p.active,
                                   !.p.crashed = s.p.last = NoItem])

-----------------------------------------------------------------------------
(* Using: CBasePlayerWeapon::ItemPostFrame *)

\* Bug: the clip is filled whatever is left.
ReadyFull(s, i) ==
    LET lacks == Info(i).clip - s.i[i].clip
    IN  IF ~s.i[i].reload THEN s
        ELSE [s EXCEPT !.i[i].reload = FALSE, !.i[i].clip = @ + lacks, !.p.ammo[Info(i).ammo] = @ - lacks]

\* The weapon in hand, its reload completed.  A crowbar that flies in 0.2 s does so
\* before the next weapon is ready (DefaultDeploy: 0.5 s).
Ready(s, i) ==
    LET fits == Least(Info(i).clip - s.i[i].clip, s.p.ammo[Info(i).ammo])
    IN  IF ~s.i[i].reload THEN s
        ELSE [s EXCEPT !.i[i].reload = FALSE, !.i[i].clip = @ + fits, !.p.ammo[Info(i).ammo] = @ - fits]
PostFrame(i) ==
    /\ Alive /\ player.active = i
    /\ \A j \in Items \ {i} : item[j].think # "CreateThink"

Throw(s, i) ==
    IF HasAmmo(s, i) THEN [s EXCEPT !.i[i].state = "ready", !.p.ammo[Info(i).ammo] = @ - 1] ELSE s

\* A swing of the crowbar thinks of itself (SwingAgain, Smack), instead of a throw
\* that has been begun; what it does then changes nothing here.
PrimaryAttack(i) ==
    LET s == Ready(NowCarried, i)
    IN  /\ PostFrame(i)
        /\ CarriedBecome(
              CASE Info(i).kind = "melee" -> Think(s, i, "none")
                [] Info(i).kind = "gun" -> IF s.i[i].clip > 0 THEN [s EXCEPT !.i[i].clip = @ - 1] ELSE s
                [] Info(i).kind = "grenade" -> IF HasAmmo(s, i) THEN [s EXCEPT !.i[i].state = "primed"] ELSE s
                [] Info(i).kind = "satchel" -> CASE s.i[i].state = "idle" -> Throw(s, i)
                                                 [] s.i[i].state = "ready" -> [s EXCEPT !.i[i].state = "reload"]
                                                 [] OTHER -> s)

SecondaryAttack(i) ==
    /\ PostFrame(i)
    /\ CASE Info(i).kind = "melee" -> CarriedBecome(Think(NowCarried, i, "CreateThink"))
         [] Info(i).kind = "satchel" -> /\ item[i].state # "reload"
                                        /\ CarriedBecome(Throw(NowCarried, i))
         [] OTHER -> FALSE

\* DefaultReload of a gun
Reload(s, i) ==
    IF Info(i).kind = "gun" /\ HasAmmo(s, i) /\ s.i[i].clip # Info(i).clip
    THEN [s EXCEPT !.i[i].reload = TRUE] ELSE s
ReloadButton(i) ==
    PostFrame(i) /\ ~item[i].reload /\ CarriedBecome(Reload(NowCarried, i))

\* CHandGrenade::WeaponIdle and CSatchel::WeaponIdle
WeaponIdle(s, i) ==
    CASE Info(i).kind = "grenade" /\ s.i[i].state = "primed" ->
            [s EXCEPT !.i[i].state = "idle", !.p.ammo[Info(i).ammo] = @ - 1]
      [] Info(i).kind = "satchel" /\ s.i[i].state = "reload" ->
            LET t == [s EXCEPT !.i[i].state = "idle"]
            IN  IF HasAmmo(s, i) THEN t ELSE RetireWeapon(t, i)
      [] OTHER -> s

\* No button is down: put an empty weapon away, reload, or idle.
NoButton(i) ==
    LET s == Ready(NowCarried, i)
        next == GetNextBestWeapon(s, i)
    IN  /\ PostFrame(i)
        /\ CarriedBecome(IF ~IsUseable(s, i)
                         THEN IF next.ok THEN next.s ELSE WeaponIdle(s, i)
                         ELSE IF s.i[i].clip = 0 THEN Reload(s, i) ELSE WeaponIdle(s, i))

-----------------------------------------------------------------------------
(* Thinks, death *)

\* CCrowbar::CreateThink: the crowbar flies.  SetThink( NULL ) comes after
\* DestroyItem.
CreateThink(s, i) ==
    LET t == DestroyItem([s EXCEPT !.p.weapons = @ \ {ItemClass[i]}], i)
    IN  Think([t EXCEPT !.p.active = NoItem], i, "none")

ItemThink(i) ==
    /\ ~player.crashed
    /\ CASE item[i].think = "SUB_Remove" -> CarriedBecome([NowCarried EXCEPT !.i[i] = Absent])
         [] item[i].think = "CreateThink" -> CarriedBecome(CreateThink(NowCarried, i))
         [] item[i].think = "Materialize" ->
                CarriedBecome([NowCarried EXCEPT !.i[i].touch = TRUE, !.i[i].think = "none"])
         [] OTHER -> FALSE

\* CWeaponBox::Kill, two minutes after a death
BoxKill ==
    /\ ~player.crashed /\ box.kill
    /\ CarriedBecome([NowCarried EXCEPT
           !.i = [i \in Items |-> IF Holds(box.slots, i) THEN [item[i] EXCEPT !.think = "SUB_Remove"]
                                  ELSE item[i]],
           !.b = NoBox])

\* CBasePlayer::RemoveAllItems
RemoveAllItems(s0) ==
    LET s == HolsterActive(s0)
    IN  [s EXCEPT !.i = [i \in Items |->
                            IF Holds(s.p.slots, i)
                            THEN [s.i[i] EXCEPT !.touch = FALSE, !.think = "SUB_Remove"] ELSE s.i[i]],
                  !.p = [@ EXCEPT !.slots = NoBox.slots, !.active = NoItem, !.last = NoItem,
                                  !.ammo = NoBox.ammo, !.weapons = {}]]
StripPlayer == ~player.crashed /\ CarriedBecome(RemoveAllItems(NowCarried))

\* CBasePlayer::Killed; the weapons are packed when the dead player thinks.
Killed == Alive /\ CarriedBecome([HolsterActive(NowCarried) EXCEPT !.p.dead = TRUE])

\* CBasePlayer::PackDeadPlayerItems: the weapon in hand and its ammunition.  Bound:
\* one box at a time.
PackDeadPlayerItems ==
    LET i == player.active
        s == [NowCarried EXCEPT !.b = [NoBox EXCEPT !.there = TRUE, !.kill = TRUE]]
        fed == IF i # NoItem /\ Info(i).ammo # "none"
               THEN PackAmmo(s, ItemClass[i], s.p.ammo[Info(i).ammo]) ELSE s
    IN  /\ player.dead /\ ~player.crashed /\ ~box.there /\ Carried(NowCarried) # <<>>
        /\ CarriedBecome(RemoveAllItems(IF i # NoItem THEN PackWeapon(fed, i) ELSE fed))

\* CBasePlayer::Spawn of a player who has been packed
PlayerSpawns ==
    /\ player.dead /\ ~player.crashed /\ Carried(NowCarried) = <<>>
    /\ CarriedBecome([NowCarried EXCEPT !.p.dead = FALSE, !.p.last = NoItem, !.p.ammo = NoBox.ammo])

WeaponNext ==
    \/ \E i \in Items :
          \/ TouchItem(i) \/ DropPlayerItem(i) \/ SelectItem(i) \/ ItemThink(i)
          \/ PrimaryAttack(i) \/ SecondaryAttack(i) \/ ReloadButton(i) \/ NoButton(i)
    \/ \E c \in Classes : GiveNamedItem(c)
    \/ SelectLastItem \/ BoxTouch \/ BoxKill
    \/ StripPlayer \/ Killed \/ PackDeadPlayerItems \/ PlayerSpawns

WeaponSpec == WeaponInit /\ [][WeaponNext]_weaponVars

-----------------------------------------------------------------------------
(* Properties *)

\* Types: no clip holds more than its weapon takes, and no ammunition goes below
\* zero or over what the player may carry.
WeaponTypeOK ==
    /\ \A i \in Items : /\ item[i].clip \in NoClip..Info(i).clip \cup {0}
                        /\ item[i].think \in {"none", "SUB_Remove", "CreateThink", "Materialize"}
                        /\ item[i].state \in {"idle", "primed", "ready", "reload"}
    /\ \A c \in Classes : WeaponInfo[c].ammo # "none" =>
          /\ player.ammo[WeaponInfo[c].ammo] \in 0..WeaponInfo[c].max
          /\ box.ammo[WeaponInfo[c].ammo] \in 0..WeaponInfo[c].max
    /\ \A i \in {player.active, player.last} : i \in Items \cup {NoItem}

\* The weapon in hand and the last one are among the weapons carried, each item is
\* in one chain at most, a player carries one of a class, and no item of a chain
\* has been removed or is about to be: none of the pointers dangles.
ChainsAreSound ==
    LET all == Carried(NowCarried) \o InOrder(box.slots)
    IN  /\ \A i \in {player.active, player.last} \ {NoItem} : Holds(player.slots, i)
        /\ \A m, n \in DOMAIN all : m # n => all[m] # all[n]
        /\ \A i \in ToSet(all) : item[i].exists /\ ~item[i].touch /\ item[i].think # "SUB_Remove"
        /\ \A c \in Classes : Cardinality(CarriedOf(player.slots, c)) <= 1

\* The bits of pev->weapons, from which the client draws the weapons that can be
\* selected, are the classes the player carries.
HudShowsWeapons == player.weapons = {c \in Classes : CarriedOf(player.slots, c) # {}}

\* Rounds of a type: in the pack, in the box, in clips, and in items never taken.
Rounds(p, it, b, a) ==
    LET live == {i \in Items : Info(i).ammo = a /\ it[i].exists /\ it[i].think # "SUB_Remove"}
    IN  p.ammo[a] + b.ammo[a]
          + MapThenSumSet(LAMBDA i : it[i].give + (IF it[i].clip > 0 THEN it[i].clip ELSE 0), live)

\* Ammunition is never made: taking, dropping, packing, reloading and dying leave
\* no more rounds of a type than there were, but for those of a weapon that has
\* just been spawned.
AmmoIsNotMade ==
    [][\A a \in AmmoTypes :
          Rounds(player', item', box', a)
            <= Rounds(player, item, box, a)
                 + MapThenSumSet(LAMBDA i : Info(i).give,
                                 {i \in Items : Info(i).ammo = a /\ ~item[i].exists /\ item'[i].exists})
      ]_weaponVars

\* player.cpp:3560, beside the reset of m_pLastItem: an item can be both the active
\* and the last one, and taking it away resets both.  So whoever has a last item
\* when SelectLastItem puts the weapon in hand away should get a weapon.
LastItemIsThere == ~player.crashed
=============================================================================
