------------------------------ MODULE Buttons ------------------------------
(***************************************************************************)
(* Buttons, multisources and env_globals (dlls/buttons.cpp) and the firing *)
(* of targets between them (dlls/subs.cpp): a button goes in, fires its    *)
(* target, waits and comes out; a multisource is the master of buttons and *)
(* fires when all its inputs are on; a delayed firing is done by a         *)
(* temporary entity.  Buttons move: one that is at its place at once       *)
(* (SF_BUTTON_DONTMOVE) is left out, and so are the first 0.1 seconds of a *)
(* level, in which a multisource does not know its inputs yet.             *)
(***************************************************************************)
EXTENDS Naturals, Sequences, SequencesExt

CONSTANTS ButtonOrder,    \* the buttons, in the order of their edicts
          ButtonConf,     \* button -> [target, master, toggle, touchOnly,
                          \*            stays, health, delay]
          SourceConf,     \* multisource -> [target, globalstate]
          EnvConf,        \* env_global -> [triggermode, globalstate]
          NamedEntities   \* targetname -> its entities, in the order of edicts

Buttons == Range(ButtonOrder)
Sources == DOMAIN SourceConf
Envs == DOMAIN EnvConf
GlobalStates == {EnvConf[e].globalstate : e \in Envs}

\* What a level gives these entities.  A name leads to each entity once; a multisource
\* is called by its name, which no other has, and fires no multisource.
ASSUME ButtonAssumption ==
    /\ ButtonOrder \in Seq(DOMAIN ButtonConf)
    /\ \A b \in Buttons :
          /\ ButtonConf[b].target \in DOMAIN NamedEntities
          /\ {ButtonConf[b].toggle, ButtonConf[b].touchOnly, ButtonConf[b].stays,
              ButtonConf[b].health, ButtonConf[b].delay} \subseteq BOOLEAN
    /\ Buttons \cap Sources = {}
    /\ \A name \in DOMAIN NamedEntities :
          /\ NamedEntities[name] \in Seq(Buttons \cup Sources \cup Envs)
          /\ \A e \in Range(NamedEntities[name]) : e \in Sources => e = name
          /\ IsInjective(NamedEntities[name])
    /\ \A m \in Sources :
          /\ m \in DOMAIN NamedEntities => m \in Range(NamedEntities[m])
          /\ SourceConf[m].target \in DOMAIN NamedEntities
          /\ Range(NamedEntities[SourceConf[m].target]) \cap Sources = {}

VARIABLES button,         \* button -> [toggle_state, think, touch]
          m_rgTriggered,  \* multisource -> input -> BOOLEAN
          gGlobalState,   \* global name -> state, "absent" if not in the table
          delayed         \* buttons whose DelayedUse entity waits

buttonVars == <<button, m_rgTriggered, gGlobalState, delayed>>
ButtonState == [button |-> button, m_rgTriggered |-> m_rgTriggered,
                gGlobalState |-> gGlobalState, delayed |-> delayed]
ButtonsBecome(next) ==
    \E s \in {next} :
        /\ button' = s.button
        /\ m_rgTriggered' = s.m_rgTriggered
        /\ gGlobalState' = s.gGlobalState
        /\ delayed' = s.delayed

\* CMultiSource::Register: the inputs, whose order in m_rgEntities is theirs here
Inputs(m) == {b \in Buttons : ButtonConf[b].target = m}
LastInput(m) ==
    ButtonOrder[Max({n \in DOMAIN ButtonOrder : ButtonConf[ButtonOrder[n]].target = m})]

TouchOf(b) == IF ButtonConf[b].touchOnly THEN "ButtonTouch" ELSE "none"

ButtonInit ==
    /\ button = [b \in Buttons |-> [toggle_state |-> "AT_BOTTOM", think |-> "none",
                                    touch |-> TouchOf(b)]]
    /\ m_rgTriggered = [m \in Sources |-> [b \in Inputs(m) |-> FALSE]]
    /\ gGlobalState = [g \in GlobalStates |-> "absent"]
    /\ delayed = {}

-----------------------------------------------------------------------------
(* What a firing does *)

\* Use(s, e) for the entities es in turn: the loop over FIND_ENTITY_BY_TARGETNAME.
UseAll(Use(_, _), s, es) ==
    LET after[i \in 0..Len(es)] == IF i = 0 THEN s ELSE Use(after[i - 1], es[i])
    IN  after[Len(es)]

\* CMultiSource::IsTriggered; a global that is not in the table is off.
IsTriggered(s, m) ==
    /\ \A b \in Inputs(m) : s.m_rgTriggered[m][b]
    /\ SourceConf[m].globalstate # "none" =>
           s.gGlobalState[SourceConf[m].globalstate] = "ON"

\* UTIL_IsMasterTriggered of a button's master
MasterLets(s, b) == ButtonConf[b].master # "none" => IsTriggered(s, ButtonConf[b].master)

\* CBaseButton::ButtonActivate, CBaseButton::ButtonReturn
ButtonActivate(s, b) ==
    IF MasterLets(s, b)
    THEN [s EXCEPT !.button[b].toggle_state = "GOING_UP",
                   !.button[b].think = "TriggerAndWait"]
    ELSE s
ButtonReturn(s, b) ==
    [s EXCEPT !.button[b].toggle_state = "GOING_DOWN",
              !.button[b].think = "ButtonBackHome"]

\* CBaseButton::ButtonUse; a touchable button has no use function.
ButtonUse(s, b) ==
    IF ButtonConf[b].touchOnly THEN s
    ELSE CASE s.button[b].toggle_state = "AT_BOTTOM" -> ButtonActivate(s, b)
           [] s.button[b].toggle_state = "AT_TOP" /\ ~ButtonConf[b].stays /\ ButtonConf[b].toggle
                  -> ButtonReturn(s, b)
           [] OTHER -> s

\* CEnvGlobal::Use
NewGlobal(e, old) ==
    CASE EnvConf[e].triggermode = 0 -> "OFF"
      [] EnvConf[e].triggermode = 1 -> "ON"
      [] EnvConf[e].triggermode = 2 -> "DEAD"
      [] OTHER -> CASE old = "ON" -> "OFF"
                    [] old \in {"OFF", "absent"} -> "ON"
                    [] OTHER -> old
EnvUse(s, e) == [s EXCEPT !.gGlobalState[EnvConf[e].globalstate] = NewGlobal(e, @)]

\* The targets of a multisource are buttons and env_globals here.
UseSimple(s, e) == IF e \in Buttons THEN ButtonUse(s, e) ELSE EnvUse(s, e)

\* Which input of m a use by entity c toggles.  The loop stops behind the last
\* input, and a caller that is no input passes for the last one.
Input(m, c) == IF c \in Inputs(m) THEN c ELSE LastInput(m)

\* CMultiSource::Use
SourceUse(s, m, c) ==
    LET t == IF Inputs(m) = {} THEN s ELSE [s EXCEPT !.m_rgTriggered[m][Input(m, c)] = ~@]
    IN  IF IsTriggered(t, m)
        THEN UseAll(UseSimple, t, NamedEntities[SourceConf[m].target])
        ELSE t

\* FireTargets(name) by caller c
FireTargets(s, name, c) ==
    UseAll(LAMBDA t, e : IF e \in Sources THEN SourceUse(t, e, c) ELSE UseSimple(t, e),
           s, NamedEntities[name])

\* CBaseDelay::SUB_UseTargets of a button
SUB_UseTargets(s, b) ==
    IF ButtonConf[b].delay THEN [s EXCEPT !.delayed = @ \cup {b}]
    ELSE FireTargets(s, ButtonConf[b].target, b)

-----------------------------------------------------------------------------
(* Actions *)

\* CBaseButton::ButtonResponseToTouch
ResponseToTouch(b) ==
    CASE button[b].toggle_state = "AT_BOTTOM" -> "ACTIVATE"
      [] button[b].toggle_state = "AT_TOP" /\ ButtonConf[b].toggle /\ ~ButtonConf[b].stays
             -> "RETURN"
      [] OTHER -> "NOTHING"

\* A player uses the button, or something else that is no member of a
\* multisource fires it.
UseButton(b) == ButtonsBecome(ButtonUse(ButtonState, b))

\* CBaseButton::ButtonTouch
TouchButton(b) ==
    LET s == [ButtonState EXCEPT !.button[b].touch = "none"]
    IN  /\ button[b].touch = "ButtonTouch"
        /\ MasterLets(ButtonState, b)
        /\ \/ /\ ResponseToTouch(b) = "RETURN"
              /\ ButtonsBecome(ButtonReturn(SUB_UseTargets(s, b), b))
           \/ /\ ResponseToTouch(b) = "ACTIVATE"
              /\ ButtonsBecome(ButtonActivate(s, b))

\* CBaseButton::TakeDamage: the touch function is gone whether or not the
\* master lets the button move, and even if the attacker is no more.
ShootButton(b) ==
    LET s == [ButtonState EXCEPT !.button[b].touch = "none"]
    IN  /\ ButtonConf[b].health
        /\ \/ ResponseToTouch(b) # "NOTHING" /\ ButtonsBecome(s)
           \/ /\ ResponseToTouch(b) = "RETURN"
              /\ ButtonsBecome(ButtonReturn(s, b))
           \/ /\ ResponseToTouch(b) = "ACTIVATE"
              /\ ButtonsBecome(ButtonActivate(s, b))

\* A bug: the wait is not begun.
WaitForEver(s, b) ==
    [s EXCEPT !.button[b].toggle_state = "AT_TOP",
              !.button[b].touch = IF ButtonConf[b].stays \/ ButtonConf[b].toggle
                                  THEN TouchOf(b) ELSE @]
\* CBaseButton::TriggerAndWait up to the firing
Wait(s, b) ==
    IF ButtonConf[b].stays \/ ButtonConf[b].toggle
    THEN [s EXCEPT !.button[b].toggle_state = "AT_TOP", !.button[b].touch = TouchOf(b)]
    ELSE [s EXCEPT !.button[b].toggle_state = "AT_TOP", !.button[b].think = "ButtonReturn"]

\* The button is in.  If its master has changed its mind, it stays as it is.
TriggerAndWait(b) ==
    LET s == [ButtonState EXCEPT !.button[b].think = "none"]
    IN  /\ button[b].think = "TriggerAndWait"
        /\ ButtonsBecome(IF MasterLets(s, b) THEN SUB_UseTargets(Wait(s, b), b) ELSE s)

Return(b) ==
    /\ button[b].think = "ButtonReturn"
    /\ ButtonsBecome(ButtonReturn(ButtonState, b))

\* A bug: the multisources are not told.
TellNoSource(s, b) == s
\* The multisources of the target are used once more, by the button itself.
TellSources(s, b) ==
    UseAll(LAMBDA t, e : IF e \in Sources THEN SourceUse(t, e, b) ELSE t,
           s, NamedEntities[ButtonConf[b].target])

Home(s, b) ==
    [s EXCEPT !.button[b].toggle_state = "AT_BOTTOM", !.button[b].think = "none",
              !.button[b].touch = TouchOf(b)]

\* CBaseButton::ButtonBackHome
ButtonBackHome(b) ==
    LET s == Home(ButtonState, b)
        fired == IF ButtonConf[b].toggle THEN SUB_UseTargets(s, b) ELSE s
    IN  /\ button[b].think = "ButtonBackHome"
        /\ ButtonsBecome(TellSources(fired, b))

\* CBaseDelay::DelayThink: the caller is the temporary entity.
DelayThink(b) ==
    /\ b \in delayed
    /\ ButtonsBecome(FireTargets([ButtonState EXCEPT !.delayed = @ \ {b}],
                                 ButtonConf[b].target, "DelayedUse"))

ButtonThink(b) == TriggerAndWait(b) \/ Return(b) \/ ButtonBackHome(b)

ButtonNext ==
    \E b \in Buttons :
        \/ UseButton(b) \/ TouchButton(b) \/ ShootButton(b)
        \/ ButtonThink(b) \/ DelayThink(b)

ButtonSpec == ButtonInit /\ [][ButtonNext]_buttonVars

-----------------------------------------------------------------------------
(* Properties *)

\* Buttons, inputs and globals have their types, and a button's think is one
\* its toggle state knows.
ButtonTypeOK ==
    /\ button \in [Buttons ->
          [toggle_state : {"AT_BOTTOM", "GOING_UP", "AT_TOP", "GOING_DOWN"},
           think : {"none", "TriggerAndWait", "ButtonReturn", "ButtonBackHome"},
           touch : {"none", "ButtonTouch"}]]
    /\ \A b \in Buttons : button[b].think \in
          CASE button[b].toggle_state = "AT_BOTTOM" -> {"none"}
            [] button[b].toggle_state = "GOING_UP" -> {"none", "TriggerAndWait"}
            [] button[b].toggle_state = "AT_TOP" -> {"none", "ButtonReturn"}
            [] button[b].toggle_state = "GOING_DOWN" -> {"ButtonBackHome"}
    /\ \A m \in Sources : m_rgTriggered[m] \in [Inputs(m) -> BOOLEAN]
    /\ gGlobalState \in [GlobalStates -> {"absent", "OFF", "ON", "DEAD"}]
    /\ delayed \subseteq Buttons

\* An input of a multisource is on while its button is in, whoever pressed it
\* and whatever the other buttons and their masters did meanwhile: the two
\* toggles of a push and a return cancel.  (A toggle button that comes home
\* fires and then tells its multisources a second time, and a delayed firing
\* is not the button's: the inputs of such buttons go their own way.)
InputsFollowButtons ==
    \A m \in Sources :
        (\A b \in Inputs(m) : ~ButtonConf[b].delay) =>
            \A b \in Inputs(m) : ~ButtonConf[b].toggle =>
                m_rgTriggered[m][b] =
                    (button[b].toggle_state \in {"AT_TOP", "GOING_DOWN"})

\* A button without a master that neither stays in nor toggles comes home, though
\* it is pressed, shot and fired at again and again.
ButtonsReturn ==
    \A b \in Buttons :
        ButtonConf[b].master = "none" /\ ~ButtonConf[b].stays /\ ~ButtonConf[b].toggle =>
            (button[b].toggle_state = "GOING_UP" ~> button[b].toggle_state = "AT_BOTTOM")
=============================================================================
