------------------------------ MODULE Settings ------------------------------
(***************************************************************************)
(* db/droidcli_settings.json: settings_store.cpp, the resolution of flags, *)
(* file and defaults in main (src/cli/droidcli.cpp), and the host's        *)
(* load-overlay-save of a runtime change (src/cli/host.cpp).  Of the       *)
(* fields, the API token stands for those the host has no copy of and      *)
(* carries over (token, port), the model for those it overlays.            *)
(***************************************************************************)
EXTENDS Naturals

CONSTANTS
    Tokens,       \* tokens an operator gives, or that are generated
    Models,       \* models
    DefaultModel, \* "llama3.2"
    Blank,        \* no token, no flag, no draft
    Gone          \* the file is absent or empty: load_settings returns false

ASSUME SettingsAssumption ==
    /\ DefaultModel \in Models
    /\ Blank \notin Tokens \cup Models
    /\ Tokens # {}
    /\ {Blank, Gone} \cap [token : Tokens \cup {Blank}, model : Models] = {}

Flags == [token : Tokens \cup {Blank}, model : Models \cup {Blank}]
Setting == [token : Tokens \cup {Blank}, model : Models]

\* main, whose start-up and runtime changes never overlap (the changes are
\* made under the host's mutex), and an invocation such as --install-service,
\* which resolves and saves as any start does, and exits.
Savers == {"main", "second"}

VARIABLES
    file,    \* what the settings file holds
    draft,   \* draft[p]: what p is about to save, with the file as it read it
    opened,  \* savers that have truncated the file and not yet written it
    told,    \* what operators were last told is in force
    excused  \* since the last whole start: a save failed, was cut short by the
             \* end of its process, or overlapped with the other invocation's

settingsVars == <<file, draft, opened, told, excused>>

Defaults == [token |-> Blank, model |-> DefaultModel]
Loaded == IF file = Gone THEN Defaults ELSE file

Saving == {p \in Savers : draft[p] # Blank}
-----------------------------------------------------------------------------
(* Each save is a load, then the truncation of the file, then the write: a *)
(* crash may fall between them, and so may the other invocation's steps.   *)

Begin(p, setting) ==
    /\ draft[p] = Blank
    /\ draft' = [draft EXCEPT ![p] = setting]
    /\ UNCHANGED <<file, opened>>

\* Flag (or environment), then file, then a fresh token and the default.
Resolved(flags, generated) ==
    [token |-> IF flags.token # Blank THEN flags.token
               ELSE IF Loaded.token # Blank THEN Loaded.token ELSE generated,
     model |-> IF flags.model # Blank THEN flags.model ELSE Loaded.model]

\* What a start without a flag keeps is what was told before, if anything was.
ToldAfter(flags, setting) ==
    [token |-> IF flags.token # Blank \/ told = Blank THEN setting.token ELSE told.token,
     model |-> IF flags.model # Blank \/ told = Blank THEN setting.model ELSE told.model]

\* A start loads the file, resolves each setting and saves at once.
LoadAndResolve(p, flags, generated) ==
    LET setting == Resolved(flags, generated)
        afresh == excused /\ p = "main" /\ Saving = {}
    IN  /\ Begin(p, setting)
        /\ told' = IF afresh THEN setting ELSE ToldAfter(flags, setting)
        /\ excused' = (Saving # {} \/ (excused /\ ~afresh))

\* Variant the checks reject: the file is not read first, so what the host has
\* no copy of is blanked.
PersistCurrentBlindly(model) ==
    /\ Begin("main", [token |-> Blank, model |-> model])
    /\ told' = [told EXCEPT !.model = model]
    /\ excused' = (excused \/ Saving # {})

\* update_config and persist_current_settings_locked, up to the save; the
\* caller is told of success whatever becomes of the save.  A change of another
\* setting writes the model the host has, and tells of it too.
PersistCurrent(model) ==
    /\ Begin("main", [token |-> Loaded.token, model |-> model])
    /\ told' = [told EXCEPT !.model = model]
    /\ excused' = (excused \/ Saving # {})

\* save_settings: a file that cannot be opened is not saved.
Truncate(p) ==
    /\ draft[p] # Blank /\ p \notin opened
    /\ \/ /\ file' = Gone
          /\ opened' = opened \cup {p}
          /\ UNCHANGED <<draft, excused>>
       \/ /\ draft' = [draft EXCEPT ![p] = Blank]
          /\ excused' = TRUE
          /\ UNCHANGED <<file, opened>>
    /\ UNCHANGED told

\* The write is not checked: a full disk leaves the file empty.
WriteOut(p) ==
    /\ p \in opened
    /\ \/ file' = draft[p] /\ UNCHANGED excused
       \/ file' = Gone /\ excused' = TRUE
    /\ draft' = [draft EXCEPT ![p] = Blank]
    /\ opened' = opened \ {p}
    /\ UNCHANGED told

\* The end of a process, which may fall into its save.
Ends(p) ==
    /\ draft' = [draft EXCEPT ![p] = Blank]
    /\ opened' = opened \ {p}
    /\ excused' = (excused \/ draft[p] # Blank)
    /\ UNCHANGED <<file, told>>

Second ==
    \/ \E flags \in Flags, generated \in Tokens : LoadAndResolve("second", flags, generated)
    \/ Truncate("second")
    \/ WriteOut("second")
    \/ draft["second"] # Blank /\ Ends("second")
-----------------------------------------------------------------------------
SettingsTypeOK ==
    /\ file \in Setting \cup {Gone}
    /\ draft \in [Savers -> Setting \cup {Blank}]
    /\ opened \subseteq Saving
    /\ told \in Setting \cup {Blank}
    /\ excused \in BOOLEAN

\* The settings last told to an operator are those a start or a change is about
\* to save, and those the file holds otherwise: a runtime change keeps the token
\* it has no copy of (src/cli/host.cpp:3302) and a start keeps what the last run
\* chose (src/cli/droidcli.cpp:384).
SettingsSurvive ==
    ~excused /\ told # Blank =>
        /\ \A p \in Saving : draft[p] = told
        /\ Saving = {} => file = told
=============================================================================
