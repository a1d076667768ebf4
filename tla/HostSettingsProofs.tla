------------------------- MODULE HostSettingsProofs -------------------------
(***************************************************************************)
(* Proofs about HostSettings, for any tokens, models, behaviours of the    *)
(* peer and lengths of a conversation.  Two facts make SettingsSurvive     *)
(* inductive: what was told is whole (no token is ever blank again), and   *)
(* nobody but one saver is at work unless the loss is excused.             *)
(***************************************************************************)
EXTENDS HostSettings, TLAPS

Told == [token : Tokens, model : Models]
StageOK == stage \in {"down", "starting", "up"}
ToldWhole == told # Blank => told \in Told
ToldOnceStarted == stage # "down" => told # Blank
OneSaver == ~excused => \A p, q \in Saving : p = q

SettingsInv ==
    /\ SettingsTypeOK
    /\ StageOK
    /\ ToldWhole
    /\ ToldOnceStarted
    /\ OneSaver
    /\ SettingsSurvive

\* A resolved setting has a token and a model.
LEMMA ResolvedWhole ==
    ASSUME SettingsTypeOK, NEW flags \in Flags, NEW generated \in Tokens
    PROVE  /\ Loaded \in Setting
           /\ Resolved(flags, generated) \in Told
BY SettingsAssumption
DEF SettingsTypeOK, Flags, Setting, Loaded, Defaults, Resolved, Told

\* Told settings are settings, and neither kind of setting is Blank.
LEMMA ToldIsSetting == Told \subseteq Setting /\ Blank \notin Setting /\ Gone \notin Setting
BY SettingsAssumption DEF Told, Setting

\* A start, of main or of the second invocation, keeps the invariant.
LEMMA LoadAndResolveKeeps ==
    ASSUME SettingsInv, NEW p \in Savers, NEW flags \in Flags, NEW generated \in Tokens,
           LoadAndResolve(p, flags, generated),
           \/ p = "main" /\ stage' = "starting"
           \/ UNCHANGED stage
    PROVE  SettingsInv'
<1> DEFINE setting == Resolved(flags, generated)
           afresh == excused /\ p = "main" /\ Saving = {}
<1> USE DEF SettingsInv
<1>1. setting \in Told /\ setting \in Setting /\ setting # Blank
  BY ResolvedWhole, ToldIsSetting
<1>2. /\ draft[p] = Blank /\ draft' = [draft EXCEPT ![p] = setting]
      /\ file' = file /\ opened' = opened
      /\ told' = IF afresh THEN setting ELSE ToldAfter(flags, setting)
      /\ excused' = (Saving # {} \/ (excused /\ ~afresh))
  BY DEF LoadAndResolve, Begin
<1>3. Saving' = Saving \cup {p} /\ draft'[p] = setting
  BY <1>1, <1>2 DEF Saving, SettingsTypeOK
<1>4. told' \in Told
  BY <1>1, <1>2, SettingsAssumption DEF ToldWhole, ToldAfter, Told, Flags
<1>5. SettingsTypeOK'
  <2>1. draft' \in [Savers -> Setting \cup {Blank}]
    BY <1>1, <1>2 DEF SettingsTypeOK
  <2>2. told' \in Setting \cup {Blank} /\ excused' \in BOOLEAN
    BY <1>2, <1>4, ToldIsSetting DEF SettingsTypeOK
  <2> QED BY <2>1, <2>2, <1>2, <1>3 DEF SettingsTypeOK
<1>6. StageOK' /\ ToldWhole' /\ ToldOnceStarted'
  BY <1>4, ToldIsSetting DEF StageOK, ToldWhole, ToldOnceStarted
<1>7. OneSaver'
  BY <1>2, <1>3 DEF OneSaver
<1>8. SettingsSurvive'
  <2> SUFFICES ASSUME ~excused' PROVE draft'[p] = told' /\ Saving' = {p}
    BY <1>3 DEF SettingsSurvive
  <2>1. Saving' = {p}
    BY <1>2, <1>3
  <2>2. CASE afresh
    BY <2>1, <2>2, <1>2, <1>3
  <2>3. CASE ~afresh /\ told = Blank
    BY <2>1, <2>3, <1>1, <1>2, <1>3 DEF ToldAfter, Told
  <2>4. CASE ~afresh /\ told # Blank
    <3>1. file = told /\ told \in Told /\ Loaded = told
      BY <2>4, <1>2, ToldIsSetting DEF SettingsSurvive, ToldWhole, Loaded
    <3>2. setting = ToldAfter(flags, setting)
      BY <3>1, <2>4, SettingsAssumption DEF Resolved, ToldAfter, Told, Flags
    <3> QED BY <3>2, <2>4, <2>1, <1>2, <1>3
  <2> QED BY <2>2, <2>3, <2>4
<1> QED BY <1>5, <1>6, <1>7, <1>8

\* A runtime change keeps the invariant: it reads the token back before it saves.
LEMMA PersistCurrentKeeps ==
    ASSUME SettingsInv, stage = "up", NEW model \in Models, PersistCurrent(model),
           UNCHANGED stage
    PROVE  SettingsInv'
<1> DEFINE setting == [token |-> Loaded.token, model |-> model]
<1> USE DEF SettingsInv
<1>1. Loaded \in Setting /\ setting \in Setting /\ setting # Blank
  BY SettingsAssumption, ToldIsSetting DEF SettingsTypeOK, Loaded, Defaults, Setting
<1>2. /\ draft["main"] = Blank /\ draft' = [draft EXCEPT !["main"] = setting]
      /\ file' = file /\ opened' = opened
      /\ told' = [told EXCEPT !.model = model]
      /\ excused' = (excused \/ Saving # {})
  BY DEF PersistCurrent, Begin
<1>3. Saving' = Saving \cup {"main"} /\ draft'["main"] = setting
  BY <1>1, <1>2 DEF Saving, SettingsTypeOK, Savers
<1>4. told \in Told /\ told' \in Told
  BY <1>2 DEF ToldWhole, ToldOnceStarted, Told
<1>5. SettingsTypeOK'
  BY <1>1, <1>2, <1>3, <1>4, ToldIsSetting DEF SettingsTypeOK
<1>6. StageOK' /\ ToldWhole' /\ ToldOnceStarted' /\ OneSaver'
  BY <1>2, <1>3, <1>4, ToldIsSetting DEF StageOK, ToldWhole, ToldOnceStarted, OneSaver
<1>7. SettingsSurvive'
  <2> SUFFICES ASSUME ~excused' PROVE draft'["main"] = told' /\ Saving' = {"main"}
    BY <1>3 DEF SettingsSurvive
  <2>1. file = told /\ Loaded = told
    BY <1>2, <1>4, ToldIsSetting DEF SettingsSurvive, Loaded
  <2>2. told' = [token |-> told.token, model |-> model]
    BY <1>2, <1>4 DEF Told
  <2>3. Saving = {}
    BY <1>2
  <2> QED BY <2>1, <2>2, <2>3, <1>3
<1> QED BY <1>5, <1>6, <1>7

\* The steps of a save, and its end with its process, keep the invariant.
LEMMA SaveKeeps ==
    ASSUME SettingsInv, NEW p \in Savers, Truncate(p) \/ WriteOut(p) \/ Ends(p),
           StageOK', stage' = "down" \/ UNCHANGED stage
    PROVE  SettingsInv'
<1> USE DEF SettingsInv
<1>1. CASE Truncate(p) /\ p \in opened'
  <2>1. /\ p \in Saving /\ file' = Gone /\ opened' = opened \cup {p}
        /\ UNCHANGED <<draft, excused, told>>
    BY <1>1 DEF Truncate, Saving
  <2>2. SettingsTypeOK' /\ ToldWhole' /\ ToldOnceStarted' /\ OneSaver' /\ Saving' = Saving
    BY <2>1 DEF SettingsTypeOK, ToldWhole, ToldOnceStarted, OneSaver, Saving
  <2>3. SettingsSurvive'
    BY <2>1, <2>2 DEF SettingsSurvive
  <2> QED BY <2>2, <2>3
<1>2. CASE Truncate(p) /\ p \notin opened'
  <2>1. /\ draft' = [draft EXCEPT ![p] = Blank] /\ excused' = TRUE /\ p \notin opened
        /\ UNCHANGED <<file, opened, told>>
    BY <1>2 DEF Truncate
  <2>2. Saving' = Saving \ {p}
    BY <2>1 DEF Saving, SettingsTypeOK
  <2> QED
    BY <2>1, <2>2
    DEF SettingsTypeOK, ToldWhole, ToldOnceStarted, OneSaver, SettingsSurvive
<1>3. CASE WriteOut(p)
  <2>1. /\ p \in opened /\ p \in Saving /\ draft' = [draft EXCEPT ![p] = Blank]
        /\ opened' = opened \ {p} /\ told' = told
        /\ \/ file' = draft[p] /\ excused' = excused
           \/ file' = Gone /\ excused' = TRUE
    BY <1>3 DEF WriteOut, SettingsTypeOK
  <2>2. Saving' = Saving \ {p} /\ draft[p] \in Setting
    BY <2>1 DEF Saving, SettingsTypeOK
  <2>3. SettingsTypeOK'
    BY <2>1, <2>2 DEF SettingsTypeOK
  <2>4. ToldWhole' /\ ToldOnceStarted' /\ OneSaver'
    BY <1>3, <2>1, <2>2 DEF ToldWhole, ToldOnceStarted, OneSaver
  <2>5. SettingsSurvive'
    BY <2>1, <2>2 DEF SettingsSurvive, OneSaver
  <2> QED BY <2>3, <2>4, <2>5
<1>4. CASE Ends(p)
  <2>1. /\ draft' = [draft EXCEPT ![p] = Blank] /\ opened' = opened \ {p}
        /\ excused' = (excused \/ draft[p] # Blank) /\ UNCHANGED <<file, told>>
    BY <1>4 DEF Ends
  <2>2. Saving' = Saving \ {p}
    BY <2>1 DEF Saving, SettingsTypeOK
  <2>3. SettingsTypeOK' /\ ToldWhole' /\ ToldOnceStarted' /\ OneSaver'
    BY <2>1, <2>2 DEF SettingsTypeOK, ToldWhole, ToldOnceStarted, OneSaver
  <2>4. SettingsSurvive'
    <3> SUFFICES ASSUME ~excused' PROVE draft' = draft /\ Saving' = Saving
      BY <2>1 DEF SettingsSurvive
    <3>1. draft[p] = Blank
      BY <2>1
    <3> QED BY <3>1, <2>1, <2>2 DEF SettingsTypeOK, Saving
  <2> QED BY <2>3, <2>4
<1> QED BY <1>1, <1>2, <1>3, <1>4

\* Every step of the program, or of the second invocation, keeps the invariant.
LEMMA SettingsStep == SettingsInv /\ [Next]_vars => SettingsInv'
<1> SUFFICES ASSUME SettingsInv, [Next]_vars PROVE SettingsInv'
  OBVIOUS
<1>1. CASE Start
  <2>1. PICK flags \in Flags, generated \in Tokens : LoadAndResolve("main", flags, generated)
    BY <1>1 DEF Start
  <2> QED BY <1>1, <2>1, LoadAndResolveKeeps DEF Start, Savers
<1>2. CASE Change
  BY <1>2, PersistCurrentKeeps DEF Change
<1>3. CASE Save
  BY <1>3, SaveKeeps DEF Save, Savers, SettingsInv, StageOK
<1>4. CASE Stop
  BY <1>4, SaveKeeps DEF Stop, Savers, StageOK
<1>5. CASE SecondInvocation
  <2>1. ASSUME NEW flags \in Flags, NEW generated \in Tokens,
               LoadAndResolve("second", flags, generated)
        PROVE  SettingsInv'
    BY <1>5, <2>1, LoadAndResolveKeeps DEF SecondInvocation, Savers
  <2>2. CASE Truncate("second") \/ WriteOut("second") \/ Ends("second")
    BY <1>5, <2>2, SaveKeeps DEF SecondInvocation, Savers, SettingsInv, StageOK
  <2> QED BY <1>5, <2>1, <2>2 DEF SecondInvocation, Second
<1>6. CASE Serve
  BY <1>6
  DEF Serve, SettingsInv, settingsVars, SettingsTypeOK, StageOK, ToldWhole, ToldOnceStarted,
      OneSaver, SettingsSurvive, Saving
<1>7. CASE UNCHANGED <<settingsVars, stage>>
  BY <1>7
  DEF SettingsInv, settingsVars, SettingsTypeOK, StageOK, ToldWhole, ToldOnceStarted,
      OneSaver, SettingsSurvive, Saving
<1> QED BY <1>1, <1>2, <1>3, <1>4, <1>5, <1>6, <1>7 DEF Next, vars

\* Nothing has been told before the first start.
LEMMA SettingsStart == Init => SettingsInv
BY SettingsAssumption
DEF Init, SettingsInv, SettingsTypeOK, StageOK, ToldWhole, ToldOnceStarted, OneSaver,
    SettingsSurvive, Saving

\* The settings an operator was last told of are in the file, or about to be, unless
\* a save failed, was cut short or overlapped with another invocation's.
THEOREM SettingsCorrect == Spec => []SettingsSurvive
<1>1. SettingsInv => SettingsSurvive
  BY DEF SettingsInv
<1> QED BY <1>1, SettingsStart, SettingsStep, PTL DEF Spec
-----------------------------------------------------------------------------
\* The chat keeps its types, and asks only while an answer is awaited.
ChatInv ==
    /\ LanguageTypeOK
    /\ asking => awaiting
    /\ ChatRefusedOnlyAfterFailure

\* One more message of the other role keeps the turns in order.
LEMMA TurnsAppend ==
    ASSUME NEW s \in Seq({"user", "assistant"}),
           \A i \in DOMAIN s : s[i] = IF i % 2 = 1 THEN "user" ELSE "assistant",
           NEW role \in {"user", "assistant"},
           role = IF Len(s) % 2 = 0 THEN "user" ELSE "assistant"
    PROVE  LET t == Append(s, role)
           IN  /\ t \in Seq({"user", "assistant"})
               /\ \A i \in DOMAIN t : t[i] = IF i % 2 = 1 THEN "user" ELSE "assistant"
               /\ Len(t) % 2 = 1 <=> Len(s) % 2 = 0
<1> DEFINE t == Append(s, role)
<1>1. t \in Seq({"user", "assistant"}) /\ Len(t) = Len(s) + 1 /\ Len(s) \in Nat
  OBVIOUS
<1>2. Len(t) % 2 = 1 <=> Len(s) % 2 = 0
  BY <1>1
<1>3. ASSUME NEW i \in DOMAIN t
      PROVE  t[i] = IF i % 2 = 1 THEN "user" ELSE "assistant"
  <2>1. i \in 1 .. Len(s) + 1 /\ DOMAIN s = 1 .. Len(s)
    BY <1>1, <1>3
  <2>2. CASE i = Len(s) + 1
    <3>1. t[i] = role
      BY <2>2
    <3>2. i % 2 = 1 <=> Len(s) % 2 = 0
      BY <2>2, <1>1, <1>2
    <3> QED BY <3>1, <3>2
  <2>3. CASE i \in 1 .. Len(s)
    <3>1. t[i] = s[i]
      BY <2>3, <1>1
    <3> QED BY <3>1, <2>1, <2>3
  <2> QED BY <2>1, <2>2, <2>3, <1>1
<1> QED BY <1>1, <1>2, <1>3

\* A message, with or without a clear, keeps the invariant.
LEMMA SubmitKeeps ==
    ASSUME ChatInv, NEW clear \in BOOLEAN, Submit(clear), UNCHANGED peer
    PROVE  ChatInv'
<1> DEFINE kept == IF clear THEN <<>> ELSE turns
<1> USE DEF ChatInv, LanguageTypeOK, ChatRefusedOnlyAfterFailure
<1>1. CASE awaiting /\ ~clear
  BY <1>1 DEF Submit
<1>2. CASE ~(awaiting /\ ~clear)
  <2>1. /\ turns' = Append(kept, "user") /\ awaiting' = TRUE /\ asking' = TRUE
        /\ soured' \in BOOLEAN
    BY <1>2 DEF Submit
  <2>2. /\ kept \in Seq({"user", "assistant"})
        /\ \A i \in DOMAIN kept : kept[i] = IF i % 2 = 1 THEN "user" ELSE "assistant"
    OBVIOUS
  <2>3. Len(kept) % 2 = 0
    <3>1. Len(kept) \in Nat
      BY <2>2
    <3>2. CASE clear
      BY <3>2
    <3>3. CASE ~clear
      BY <3>1, <3>3, <1>2
    <3> QED BY <3>2, <3>3
  <2>4. /\ turns' \in Seq({"user", "assistant"})
        /\ \A i \in DOMAIN turns' : turns'[i] = IF i % 2 = 1 THEN "user" ELSE "assistant"
        /\ Len(turns') % 2 = 1
    BY <2>1, <2>2, <2>3, TurnsAppend
  <2> QED BY <2>1, <2>4
<1> QED BY <1>1, <1>2

\* An answer, or a failure, keeps the invariant.
LEMMA ApplyKeeps ==
    ASSUME ChatInv, Apply, UNCHANGED peer
    PROVE  ChatInv'
<1> USE DEF ChatInv, LanguageTypeOK, ChatRefusedOnlyAfterFailure
<1>1. CASE TransportOk /\ BodyIsWhole
  <2>1. /\ turns' = Append(turns, "assistant") /\ awaiting' = FALSE /\ asking' = FALSE
        /\ soured' = soured /\ Len(turns) % 2 = 1
    BY <1>1 DEF Apply
  <2>2. Len(turns) \in Nat /\ Len(turns) % 2 # 0
    BY <2>1
  <2>3. /\ turns' \in Seq({"user", "assistant"})
        /\ \A i \in DOMAIN turns' : turns'[i] = IF i % 2 = 1 THEN "user" ELSE "assistant"
        /\ ~(Len(turns') % 2 = 1)
    BY <2>1, <2>2, TurnsAppend
  <2> QED BY <2>1, <2>3
<1>2. CASE ~(TransportOk /\ BodyIsWhole)
  <2>1. asking' = FALSE /\ soured' = TRUE /\ turns' = turns /\ awaiting' = awaiting
    BY <1>2 DEF Apply
  <2> QED BY <2>1
<1> QED BY <1>1, <1>2

\* An empty transcript awaits nothing.
LEMMA NothingAwaited ==
    /\ <<>> \in Seq({"user", "assistant"})
    /\ \A i \in DOMAIN <<>> : <<>>[i] = IF i % 2 = 1 THEN "user" ELSE "assistant"
    /\ ~(Len(<<>>) % 2 = 1)
OBVIOUS

\* Every step of the program keeps the invariant of its chat.
LEMMA ChatStep == ChatInv /\ [Next]_vars => ChatInv'
<1> SUFFICES ASSUME ChatInv, [Next]_vars PROVE ChatInv'
  OBVIOUS
<1>1. CASE Chat /\ UNCHANGED peer
  BY <1>1, SubmitKeeps, ApplyKeeps DEF Chat
<1>2. CASE ConfigureLanguageAi /\ UNCHANGED peer
  BY <1>2, NothingAwaited
  DEF ConfigureLanguageAi, ChatInv, LanguageTypeOK, ChatRefusedOnlyAfterFailure
<1>3. CASE UNCHANGED chatVars /\ peer' \in Peers
  BY <1>3 DEF chatVars, ChatInv, LanguageTypeOK, ChatRefusedOnlyAfterFailure
<1>4. peer \in Peers
  BY DEF ChatInv, LanguageTypeOK
<1> QED
  BY <1>1, <1>2, <1>3, <1>4
  DEF Next, vars, Start, Serve, Change, Save, Stop, SecondInvocation, PeerChanges

\* The chat begins with no question asked.
LEMMA ChatStart == Init => ChatInv
BY NothingAwaited DEF Init, ChatInv, LanguageTypeOK, ChatRefusedOnlyAfterFailure

\* The chat asks and answers in turn whatever fails, and is refused only for a
\* question whose response failed.
THEOREM ChatCorrect == Spec => []ChatRefusedOnlyAfterFailure
<1>1. ChatInv => ChatRefusedOnlyAfterFailure
  BY DEF ChatInv
<1> QED BY <1>1, ChatStart, ChatStep, PTL DEF Spec
=============================================================================
