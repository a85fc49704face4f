-------------------------------- MODULE Tanks --------------------------------
(***************************************************************************)
(* Guns that players take hold of: the controlled tanks of func_tank.cpp   *)
(* (CFuncTank with SF_TANK_CANCONTROL) and what the player does about      *)
(* m_pTank (player.cpp, client.cpp).  The tank points at its player        *)
(* (m_pController) and the player has a handle of the tank (m_pTank), and  *)
(* either side ends it without asking the other.                           *)
(*                                                                         *)
(* Where a player stands is a spot; the tank remembers the spot where it   *)
(* was taken.  What the gun hits and how it turns are left out.            *)
(***************************************************************************)
EXTENDS Integers

CONSTANTS Gunners,        \* the players
          FuncTanks,
          Spots           \* farther apart than the 30 units of OnControls

NoTank == "no tank"
Nobody == "nobody"

\* A handle that is NULL is no tank and no player.
ASSUME TanksAssumption == /\ Spots # {}
                          /\ NoTank \notin FuncTanks
                          /\ Nobody \notin Gunners

VARIABLES gunner,         \* player -> [state, m_pTank, spot, item, weaponmodel, hidden]
          tank            \* tank -> [gone, m_pController, usePos]

tankVars == <<gunner, tank>>
TanksNow == [g |-> gunner, t |-> tank]
TanksBecome(s) == gunner' = s.g /\ tank' = s.t

\* item: m_pActiveItem # NULL; hidden: HIDEHUD_WEAPONS
TanksInit ==
    /\ gunner = [p \in Gunners |-> [state |-> "playing", m_pTank |-> NoTank,
                                    spot |-> CHOOSE x \in Spots : TRUE,
                                    item |-> TRUE, weaponmodel |-> TRUE, hidden |-> FALSE]]
    /\ tank = [t \in FuncTanks |-> [gone |-> FALSE, m_pController |-> Nobody,
                                    usePos |-> CHOOSE x \in Spots : TRUE]]

-----------------------------------------------------------------------------
(* The tank *)

\* CFuncTank::OnControls
OnControls(t, p) == tank[t].usePos = gunner[p].spot

\* CFuncTank::StartControl: p leaves no other tank for this one.
StartControl(s, t, p) ==
    LET g == s.g[p]
    IN  [g |-> [s.g EXCEPT ![p] = [g EXCEPT !.m_pTank = t, !.hidden = TRUE,
                                            !.weaponmodel = g.weaponmodel /\ ~g.item]],
         t |-> [s.t EXCEPT ![t] = [s.t[t] EXCEPT !.m_pController = p, !.usePos = g.spot]]]

\* Bug: the player is not told.
StopControlSilent(s, t) ==
    IF s.t[t].m_pController = Nobody THEN s ELSE [s EXCEPT !.t[t].m_pController = Nobody]

\* CFuncTank::StopControl, whoever asks for it: the controller has its weapon
\* back, and no tank, whichever it had.
StopControl(s, t) ==
    LET c == s.t[t].m_pController
        g == s.g[c]
    IN  IF c = Nobody THEN s
        ELSE [g |-> [s.g EXCEPT ![c] = [g EXCEPT !.m_pTank = NoTank, !.hidden = FALSE,
                                                 !.weaponmodel = g.weaponmodel \/ g.item]],
              t |-> [s.t EXCEPT ![t].m_pController = Nobody]]

\* CFuncTank::Use; the master may refuse.
TankUse(s, t, p, off) ==
    IF s.t[t].m_pController = Nobody /\ ~off THEN {s, StartControl(s, t, p)}
    ELSE {StopControl(s, t)}

\* "if( m_pTank != 0 ) m_pTank->Use( this, this, USE_OFF, 0 )"
LeaveTank(s, p) ==
    IF s.g[p].m_pTank = NoTank THEN s ELSE StopControl(s, s.g[p].m_pTank)

-----------------------------------------------------------------------------
(* The players *)

\* CBasePlayer::RemoveAllItems: the items go first.
LoseAllItems(s, p) ==
    [LeaveTank([s EXCEPT !.g[p].item = FALSE], p) EXCEPT !.g[p].weaponmodel = FALSE]

\* CBasePlayer::PlayerUse, of a tank or of the controls of one
PressUse(p) ==
    /\ gunner[p].state = "playing"
    /\ IF gunner[p].m_pTank # NoTank THEN TanksBecome(LeaveTank(TanksNow, p))
       ELSE \E t \in FuncTanks : /\ ~tank[t].gone
                                 /\ \E s \in TankUse(TanksNow, t, p, FALSE) : TanksBecome(s)

\* Something of the map uses a tank in the name of a player, who may have died.
FireTank(t, p, off) ==
    /\ ~tank[t].gone
    /\ \E s \in TankUse(TanksNow, t, p, off) : TanksBecome(s)

\* CBasePlayer::PostThink: at the controls, ControllerPostFrame asks the tank's
\* player for the button; away from them, or with a weapon, the tank is left.
TankPostThink(p) ==
    /\ gunner[p].state = "playing" /\ gunner[p].m_pTank # NoTank
    /\ ~(OnControls(gunner[p].m_pTank, p) /\ ~gunner[p].weaponmodel)
    /\ TanksBecome(LeaveTank(TanksNow, p))

WalkTo(p, spot) ==
    /\ gunner[p].state = "playing"
    /\ gunner' = [gunner EXCEPT ![p].spot = spot]
    /\ UNCHANGED tank

\* A weapon is picked up or chosen, and deployed.
TakeWeapon(p) ==
    /\ gunner[p].state = "playing"
    /\ gunner' = [gunner EXCEPT ![p] = [gunner[p] EXCEPT !.item = TRUE, !.weaponmodel = TRUE]]
    /\ UNCHANGED tank

\* CBasePlayer::Killed; the weapons are packed when the dead player thinks.
GunnerKilled(p) ==
    /\ gunner[p].state = "playing"
    /\ TanksBecome(LeaveTank([TanksNow EXCEPT !.g[p].state = "dead"], p))

\* CBasePlayer::PlayerDeathThink of a player with weapons (PackDeadPlayerItems).
PackGunner(p) ==
    /\ gunner[p].state = "dead"
    /\ TanksBecome(LoseAllItems(TanksNow, p))

\* "spectate", and the player who leaves
GunnerSpectates(p) ==
    /\ gunner[p].state # "watching"
    /\ TanksBecome(LoseAllItems(LeaveTank([TanksNow EXCEPT !.g[p].state = "watching"], p), p))

\* player_weaponstrip
StripGunner(p) == TanksBecome(LoseAllItems(TanksNow, p))

\* CBasePlayer::Spawn, which leaves m_pTank and m_iHideHUD as they are
GunnerSpawns(p) ==
    /\ gunner[p].state # "playing"
    /\ \E spot \in Spots :
          gunner' = [gunner EXCEPT ![p] = [gunner[p] EXCEPT !.state = "playing", !.spot = spot,
                                                            !.item = TRUE, !.weaponmodel = TRUE]]
    /\ UNCHANGED tank

\* A killtarget: the handles of the tank are NULL from now on.
RemoveTank(t) ==
    /\ ~tank[t].gone
    /\ tank' = [tank EXCEPT ![t] = [tank[t] EXCEPT !.gone = TRUE, !.m_pController = Nobody]]
    /\ gunner' = [p \in Gunners |->
                     IF gunner[p].m_pTank = t THEN [gunner[p] EXCEPT !.m_pTank = NoTank]
                     ELSE gunner[p]]

TanksNext ==
    \/ \E p \in Gunners :
          \/ PressUse(p) \/ TankPostThink(p) \/ TakeWeapon(p) \/ StripGunner(p)
          \/ GunnerKilled(p) \/ PackGunner(p) \/ GunnerSpectates(p) \/ GunnerSpawns(p)
          \/ \E spot \in Spots : WalkTo(p, spot)
          \/ \E t \in FuncTanks, off \in BOOLEAN : FireTank(t, p, off)
    \/ \E t \in FuncTanks : RemoveTank(t)

TanksSpec == TanksInit /\ [][TanksNext]_tankVars

-----------------------------------------------------------------------------
(* Properties *)

\* Players and tanks have the fields of their code.
TanksTypeOK ==
    /\ gunner \in [Gunners -> [state : {"playing", "dead", "watching"},
                               m_pTank : FuncTanks \cup {NoTank}, spot : Spots,
                               item : BOOLEAN, weaponmodel : BOOLEAN, hidden : BOOLEAN]]
    /\ tank \in [FuncTanks -> [gone : BOOLEAN, m_pController : Gunners \cup {Nobody},
                               usePos : Spots]]

\* A player who has a tank is the one that the tank knows: ControllerPostFrame,
\* which the player calls, asks m_pController for its buttons without a look
\* ("ASSERT( m_pController != NULL )", func_tank.cpp), and the player's bar of
\* weapons is hidden for as long.  So it stays although others stop the tank,
\* the map gives a player a second one, and players die, watch and are
\* stripped in between.
TankKnowsItsPlayer ==
    \A p \in Gunners : gunner[p].m_pTank # NoTank =>
        /\ tank[gunner[p].m_pTank].m_pController = p
        /\ gunner[p].hidden
=============================================================================
