------------------------- MODULE GuildSettingsProofs -------------------------
(***************************************************************************)
(* Theorems about GuildSettings for any guilds, forms, texts, channels,    *)
(* legacy file and number of crashes.                                      *)
(***************************************************************************)
EXTENDS GuildSettings, TLAPS

USE LegacyAssumption, NoneAssumption

(* A form is closed or is of some guild; one at most is between its two    *)
(* transactions, of which the first is stored; the process must run.       *)
FormsOK ==
  /\ \A f \in Form : form[f] = Closed \/ form[f].guild \in Guild
  /\ \A f \in saving : form[f].guild \in Guild
  /\ \A f, h \in saving : f = h
  /\ \A f \in saving :
       /\ row[form[f].guild] # None
       /\ row[form[f].guild].message = form[f].message
  /\ process # "up" => saving = {}

(* The migration adds the file's rows where there are none.                *)
PendingOK ==
  process = "migrating" =>
    \A g \in Guild :
      \/ pending[g] = row[g]
      \/ row[g] = None /\ g \in DOMAIN Legacy /\ pending[g] = Legacy[g]

NoneChosen == \A g \in Guild : row[g] = None => chosen[g] = None

IInv ==
  /\ TypeOK
  /\ FormsOK
  /\ PendingOK
  /\ NoneChosen
  /\ SavedTogether
  /\ ChannelKept

LEMMA CountFrom == 0 \in 0..MaxCrash
  BY BoundAssumption

LEMMA CountOn ==
  ASSUME NEW n \in 0..MaxCrash, n < MaxCrash PROVE n + 1 \in 0..MaxCrash
  BY BoundAssumption

LEMMA NoFormsType == NoForms \in [Form -> FormType]
  BY DEF NoForms, Closed, FormType

LEMMA InitIInv == Init => IInv
  <1> SUFFICES ASSUME Init PROVE IInv
    OBVIOUS
  <1>1. TypeOK
    <2>1. crashes \in 0..MaxCrash
      BY CountFrom DEF Init
    <2>2. form \in [Form -> FormType]
      BY NoFormsType DEF Init
    <2>3. /\ row \in [Guild -> RowOrNone] /\ pending \in [Guild -> RowOrNone]
          /\ chosen \in [Guild -> Channel \cup {None}]
      BY DEF Init, RowOrNone
    <2>4. QED
      BY <2>1, <2>2, <2>3 DEF Init, TypeOK
  <1>2. FormsOK /\ PendingOK /\ NoneChosen
    BY DEF Init, FormsOK, PendingOK, NoneChosen, NoForms
  <1>3. SavedTogether /\ ChannelKept
    BY DEF Init, SavedTogether, ChannelKept
  <1>4. QED
    BY <1>1, <1>2, <1>3 DEF IInv

(* What changes nothing the invariant relates, besides types.              *)
LEMMA Unrelated ==
  ASSUME IInv, TypeOK', UNCHANGED <<row, form, saving, torn, chosen>>,
         process' # "migrating", process' # "up" => saving = {}
  PROVE  IInv'
  BY DEF IInv, FormsOK, PendingOK, NoneChosen, SavedTogether, ChannelKept

(* The row stored for a guild, which is the default one if it had none.    *)
LEMMA StoredFacts ==
  ASSUME IInv, NEW g \in Guild
  PROVE  /\ Stored(g) \in Row
         /\ Stored(g).channel = chosen[g]
         /\ Stored(g) # None
  <1>1. CASE row[g] = None
    BY <1>1 DEF IInv, NoneChosen, Stored, DefaultRow, Row
  <1>2. CASE row[g] # None
    BY <1>2 DEF IInv, TypeOK, RowOrNone, ChannelKept, Stored
  <1>3. QED
    BY <1>1, <1>2

-----------------------------------------------------------------------------
(* Each action, with its name as the step of the theorem below.            *)
LEMMA StartStep == ASSUME IInv, Start PROVE IInv'
  <1>1. TypeOK'
    BY DEF Start, IInv, TypeOK
  <1>2. CASE process' = "up"
    BY <1>1, <1>2, Unrelated DEF Start
  <1>3. CASE process' = "migrating"
    <2>1. UNCHANGED <<row, form, saving, torn, chosen>> /\ pending' = row
      BY <1>3 DEF Start
    <2>2. saving = {}
      BY DEF Start, IInv, FormsOK
    <2>3. QED
      BY <1>1, <2>1, <2>2
         DEF IInv, FormsOK, PendingOK, NoneChosen, SavedTogether, ChannelKept
  <1>4. QED
    BY <1>2, <1>3 DEF Start

LEMMA MigrateStep ==
  ASSUME IInv, NEW g \in DOMAIN Legacy, Migrate(g) PROVE IInv'
  <1>1. TypeOK'
    BY DEF Migrate, history, IInv, TypeOK, RowOrNone
  <1>2. PendingOK'
    BY DEF Migrate, IInv, TypeOK, PendingOK
  <1>3. QED
    BY <1>1, <1>2
       DEF Migrate, history, IInv, FormsOK, NoneChosen, SavedTogether, ChannelKept

LEMMA CommitStep == ASSUME IInv, Commit PROVE IInv'
  <1>1. /\ row' = pending /\ process' = "up" /\ saving = {} /\ saving' = {}
        /\ UNCHANGED <<form, torn, passed>>
        /\ chosen' = [g \in Guild |->
             IF row[g] = None /\ pending[g] # None THEN pending[g].channel ELSE chosen[g]]
        /\ \A g \in Guild :
             \/ pending[g] = row[g]
             \/ row[g] = None /\ g \in DOMAIN Legacy /\ pending[g] = Legacy[g]
    BY DEF Commit, IInv, FormsOK, PendingOK
  <1>2. \A g \in DOMAIN Legacy :
          Legacy[g] \in Row /\ Legacy[g] # None /\ Legacy[g].message = Legacy[g].link
    OBVIOUS
  <1>3. TypeOK'
    BY DEF Commit, IInv, TypeOK, RowOrNone, Row
  <1>4. FormsOK' /\ PendingOK'
    BY <1>1 DEF IInv, FormsOK, PendingOK
  <1>5. NoneChosen' /\ ChannelKept'
    <2> SUFFICES ASSUME NEW g \in Guild
                 PROVE  /\ row'[g] = None => chosen'[g] = None
                        /\ row'[g] # None => row'[g].channel = chosen'[g]
      BY DEF NoneChosen, ChannelKept
    <2>1. CASE pending[g] = row[g]
      BY <1>1, <2>1 DEF IInv, NoneChosen, ChannelKept
    <2>2. CASE row[g] = None /\ g \in DOMAIN Legacy /\ pending[g] = Legacy[g]
      BY <1>1, <1>2, <2>2
    <2>3. QED
      BY <1>1, <2>1, <2>2
  <1>6. SavedTogether'
    <2> SUFFICES ASSUME NEW g \in Guild, g \notin torn, row'[g] # None
                 PROVE  row'[g].message = row'[g].link
      BY <1>1 DEF SavedTogether
    <2>1. CASE pending[g] = row[g]
      BY <1>1, <2>1 DEF IInv, SavedTogether
    <2>2. CASE row[g] = None /\ g \in DOMAIN Legacy /\ pending[g] = Legacy[g]
      BY <1>1, <1>2, <2>2
    <2>3. QED
      BY <1>1, <2>1, <2>2
  <1>7. QED
    BY <1>3, <1>4, <1>5, <1>6 DEF IInv

LEMMA CrashStep == ASSUME IInv, Crash PROVE IInv'
  <1>1. /\ process' = "down" /\ saving' = {} /\ form' = NoForms
        /\ UNCHANGED <<row, chosen>>
        /\ torn' = torn \cup {form[f].guild : f \in saving}
    BY DEF Crash
  <1>2. \A f \in saving : form[f].guild \in Guild
    BY DEF IInv, FormsOK
  <1>3. TypeOK'
    <2>1. crashes \in 0..MaxCrash
      BY DEF IInv, TypeOK
    <2>2. crashes < MaxCrash /\ crashes' = crashes + 1
      BY DEF Crash
    <2>3. crashes' \in 0..MaxCrash
      BY <2>1, <2>2, CountOn
    <2>4. torn' \subseteq Guild
      <3>1. torn \subseteq Guild
        BY DEF IInv, TypeOK
      <3>2. {form[f].guild : f \in saving} \subseteq Guild
        BY <1>2
      <3>3. QED
        BY <1>1, <3>1, <3>2
    <2>5. QED
      BY <2>3, <2>4, NoFormsType DEF Crash, IInv, TypeOK
  <1>4. FormsOK' /\ PendingOK' /\ NoneChosen' /\ ChannelKept'
    BY <1>1 DEF IInv, FormsOK, PendingOK, NoneChosen, ChannelKept, NoForms
  <1>5. SavedTogether'
    BY <1>1, <1>2 DEF IInv, SavedTogether
  <1>6. QED
    BY <1>3, <1>4, <1>5 DEF IInv

LEMMA EnsureStep ==
  ASSUME IInv, NEW g \in Guild, Ensure(g) PROVE IInv'
  <1>1. /\ process = "up" /\ saving = {} /\ row[g] = None
        /\ row' = [row EXCEPT ![g] = DefaultRow]
        /\ UNCHANGED <<process, file, mark, pending, todo, member, crashes,
                       form, saving, passed, torn, chosen>>
    BY DEF Ensure, Free, Store, migration, history
  <1>2. DefaultRow \in Row
    BY DEF DefaultRow, Row
  <1>3. TypeOK'
    BY <1>1, <1>2 DEF IInv, TypeOK, RowOrNone
  <1>4. FormsOK' /\ PendingOK'
    BY <1>1 DEF IInv, FormsOK, PendingOK
  <1>5. NoneChosen' /\ ChannelKept' /\ SavedTogether'
    BY <1>1, <1>2 DEF IInv, TypeOK, NoneChosen, ChannelKept, SavedTogether, DefaultRow
  <1>6. QED
    BY <1>3, <1>4, <1>5 DEF IInv

LEMMA JoinStep ==
  ASSUME IInv, NEW g \in Guild, Join(g) PROVE IInv'
  <1>1. /\ process = "up" /\ saving = {}
        /\ row' = [row EXCEPT ![g] = Stored(g)]
        /\ member' = member \cup {g}
        /\ UNCHANGED <<process, file, mark, pending, todo, crashes,
                       form, saving, passed, torn, chosen>>
    BY DEF Join, Free, migration, history
  <1>2. Stored(g) \in Row /\ Stored(g).channel = chosen[g] /\ Stored(g) # None
    BY StoredFacts
  <1>3. g \notin torn => Stored(g).message = Stored(g).link
    BY <1>1 DEF IInv, SavedTogether, Stored, DefaultRow
  <1>4. TypeOK'
    BY <1>1, <1>2 DEF IInv, TypeOK, RowOrNone
  <1>5. FormsOK' /\ PendingOK'
    BY <1>1 DEF IInv, FormsOK, PendingOK
  <1>6. NoneChosen' /\ ChannelKept' /\ SavedTogether'
    BY <1>1, <1>2, <1>3 DEF IInv, TypeOK, NoneChosen, ChannelKept, SavedTogether
  <1>7. QED
    BY <1>4, <1>5, <1>6 DEF IInv

LEMMA LeaveStep ==
  ASSUME IInv, NEW g \in Guild, Leave(g) PROVE IInv'
  <1>1. /\ process = "up" /\ saving = {}
        /\ row' = [row EXCEPT ![g] = None]
        /\ chosen' = [chosen EXCEPT ![g] = None]
        /\ member' = member \ {g} /\ torn' = torn \ {g}
        /\ form' = [f \in Form |-> IF form[f].guild = g THEN Closed ELSE form[f]]
        /\ UNCHANGED <<process, file, mark, pending, todo, crashes, saving, passed>>
    BY DEF Leave, Free, migration
  <1>2. Closed \in FormType
    BY DEF Closed, FormType
  <1>3. TypeOK'
    BY <1>1, <1>2 DEF IInv, TypeOK, RowOrNone
  <1>4. FormsOK' /\ PendingOK'
    BY <1>1 DEF IInv, FormsOK, PendingOK
  <1>5. NoneChosen' /\ ChannelKept' /\ SavedTogether'
    BY <1>1 DEF IInv, TypeOK, NoneChosen, ChannelKept, SavedTogether
  <1>6. QED
    BY <1>3, <1>4, <1>5 DEF IInv

LEMMA OpenStep ==
  ASSUME IInv, NEW f \in Form, NEW g \in Guild, Open(f, g) PROVE IInv'
  <1> DEFINE opened == [guild |-> g, message |-> Stored(g).message,
                        link |-> Stored(g).link]
  <1>1. /\ process = "up" /\ saving = {}
        /\ form' = [form EXCEPT ![f] = opened]
        /\ UNCHANGED <<process, file, mark, pending, todo, row, member, saving,
                       crashes, passed, torn, chosen>>
    BY DEF Open, Free, migration, history
  <1>2. opened \in FormType /\ opened.guild = g
    BY StoredFacts DEF FormType, Row
  <1> HIDE DEF opened
  <1>3. TypeOK'
    BY <1>1, <1>2 DEF IInv, TypeOK
  <1>4. FormsOK'
    BY <1>1, <1>2 DEF IInv, TypeOK, FormsOK
  <1>5. PendingOK' /\ NoneChosen' /\ ChannelKept' /\ SavedTogether'
    BY <1>1 DEF IInv, PendingOK, NoneChosen, ChannelKept, SavedTogether
  <1>6. QED
    BY <1>3, <1>4, <1>5 DEF IInv

(* The first transaction, with the texts the form has then.                *)
LEMMA SaveStep ==
  ASSUME IInv, NEW f \in Form, NEW text \in Text \cup {Unset}, Free,
         form[f] # Closed,
         Store(form[f].guild, [Stored(form[f].guild) EXCEPT !.message = text]),
         form' \in [Form -> FormType],
         form'[f].guild = form[f].guild, form'[f].message = text,
         \A h \in Form \ {f} : form'[h] = form[h],
         saving' = saving \cup {f}, UNCHANGED history
  PROVE  IInv'
  <1> DEFINE g == form[f].guild
             new == [Stored(g) EXCEPT !.message = text]
  <1>1. g \in Guild
    BY DEF IInv, FormsOK
  <1>2. /\ process = "up" /\ saving = {} /\ saving' = {f}
        /\ row' = [row EXCEPT ![g] = new]
        /\ UNCHANGED <<process, file, mark, pending, todo, member, crashes,
                       passed, torn, chosen>>
    BY DEF Free, Store, migration, history
  <1>3. Stored(g) \in Row /\ Stored(g).channel = chosen[g]
    BY <1>1, StoredFacts
  <1>4. /\ new \in Row /\ new # None
        /\ new.message = text /\ new.channel = chosen[g]
    BY <1>3 DEF Row
  <1>5. form'[f].guild = g
    OBVIOUS
  <1> HIDE DEF new, g
  <1>6. TypeOK'
    BY <1>1, <1>2, <1>4 DEF IInv, TypeOK, RowOrNone
  <1>7. row'[g] = new
    BY <1>1, <1>2 DEF IInv, TypeOK
  <1>8. \A h \in Form : form'[h] = Closed \/ form'[h].guild \in Guild
    BY <1>1, <1>5 DEF IInv, FormsOK
  <1>9. FormsOK' /\ PendingOK'
    BY <1>1, <1>2, <1>4, <1>5, <1>7, <1>8 DEF FormsOK, PendingOK
  <1>10. \A h \in Guild \ {g} : row'[h] = row[h]
    BY <1>1, <1>2 DEF IInv, TypeOK
  <1>11. NoneChosen' /\ ChannelKept'
    BY <1>2, <1>4, <1>7, <1>10 DEF IInv, NoneChosen, ChannelKept
  <1>12. SavedTogether'
    BY <1>2, <1>5, <1>10 DEF IInv, SavedTogether
  <1>13. QED
    BY <1>6, <1>9, <1>11, <1>12 DEF IInv

LEMMA SaveMessageStep ==
  ASSUME IInv, NEW f \in Form, NEW text \in Text, SaveMessage(f, text)
  PROVE  IInv'
  <1> DEFINE new == [guild |-> form[f].guild, message |-> text, link |-> text]
  <1>1. form[f] \in FormType /\ form \in [Form -> FormType]
    BY DEF IInv, TypeOK
  <1>3. form' = [form EXCEPT ![f] = new]
    BY <1>1 DEF SaveMessage
  <1>4. new \in FormType
    BY <1>1 DEF FormType
  <1>5. new.guild = form[f].guild /\ new.message = text
    OBVIOUS
  <1> HIDE DEF new
  <1>6. /\ form' \in [Form -> FormType]
        /\ form'[f].guild = form[f].guild /\ form'[f].message = text
        /\ \A h \in Form \ {f} : form'[h] = form[h]
    BY <1>1, <1>3, <1>4, <1>5
  <1>7. QED
    BY <1>6, SaveStep DEF SaveMessage

LEMMA ResubmitStep ==
  ASSUME IInv, NEW f \in Form, Resubmit(f) PROVE IInv'
  <1>1. form \in [Form -> FormType] /\ form[f].message \in Text \cup {Unset}
    BY DEF IInv, TypeOK, FormType
  <1>2. QED
    BY <1>1, SaveStep DEF Resubmit

LEMMA SaveLinkStep ==
  ASSUME IInv, NEW f \in Form, SaveLink(f) PROVE IInv'
  <1> DEFINE g == form[f].guild
             new == [Stored(g) EXCEPT !.link = form[f].link]
  <1>1. /\ f \in saving /\ g \in Guild /\ form[f] \in FormType
        /\ row[g] # None /\ row[g].message = form[f].message
        /\ saving = {f}
    BY DEF SaveLink, IInv, TypeOK, FormsOK
  <1>2. /\ process = "up" /\ saving' = {}
        /\ row' = [row EXCEPT ![g] = new]
        /\ form' = [form EXCEPT ![f] = Closed]
        /\ torn' = IF form[f].message = form[f].link
                   THEN torn \ {g} ELSE torn \cup {g}
        /\ UNCHANGED <<process, file, mark, pending, todo, member, crashes,
                       passed, chosen>>
    BY <1>1 DEF SaveLink, Store, migration
  <1>3. Stored(g) \in Row /\ Stored(g).channel = chosen[g] /\ Stored(g) = row[g]
    BY <1>1, StoredFacts DEF Stored
  <1>4. /\ new \in Row /\ new # None /\ new.link = form[f].link
        /\ new.message = form[f].message /\ new.channel = chosen[g]
    BY <1>1, <1>3 DEF Row, FormType
  <1>5. Closed \in FormType
    BY DEF Closed, FormType
  <1> HIDE DEF new, g
  <1>6. TypeOK'
    BY <1>1, <1>2, <1>4, <1>5 DEF IInv, TypeOK, RowOrNone
  <1>7. row'[g] = new /\ \A h \in Guild \ {g} : row'[h] = row[h]
    BY <1>1, <1>2 DEF IInv, TypeOK
  <1>8. \A h \in Form : form'[h] = Closed \/ form'[h].guild \in Guild
    BY <1>2 DEF IInv, TypeOK, FormsOK
  <1>9. FormsOK' /\ PendingOK'
    BY <1>2, <1>8 DEF FormsOK, PendingOK
  <1>10. NoneChosen' /\ ChannelKept'
    BY <1>2, <1>4, <1>7 DEF IInv, NoneChosen, ChannelKept
  <1>11. \A h \in Guild \ {g} : \A k \in saving : form[k].guild # h
    BY <1>1 DEF g
  <1>12. SavedTogether'
    BY <1>2, <1>4, <1>7, <1>11 DEF IInv, SavedTogether
  <1>13. QED
    BY <1>6, <1>9, <1>10, <1>12 DEF IInv

LEMMA SaveLinkFailsStep ==
  ASSUME IInv, NEW f \in Form, SaveLinkFails(f) PROVE IInv'
  <1> DEFINE g == form[f].guild
  <1>1. /\ f \in saving /\ g \in Guild /\ saving = {f}
    BY DEF SaveLinkFails, IInv, FormsOK
  <1>2. /\ process = "up" /\ saving' = {}
        /\ form' = [form EXCEPT ![f] = Closed]
        /\ torn' = torn \cup {g}
        /\ UNCHANGED <<process, file, mark, pending, todo, row, member, crashes,
                       passed, chosen>>
    BY <1>1 DEF SaveLinkFails, migration
  <1>3. Closed \in FormType
    BY DEF Closed, FormType
  <1>4. TypeOK'
    BY <1>1, <1>2, <1>3 DEF IInv, TypeOK
  <1>5. \A h \in Form : form'[h] = Closed \/ form'[h].guild \in Guild
    BY <1>2 DEF IInv, TypeOK, FormsOK
  <1>6. FormsOK' /\ PendingOK' /\ NoneChosen' /\ ChannelKept'
    BY <1>2, <1>5 DEF IInv, FormsOK, PendingOK, NoneChosen, ChannelKept
  <1>7. \A h \in Guild \ {g} : \A k \in saving : form[k].guild # h
    BY <1>1
  <1> HIDE DEF g
  <1>8. SavedTogether'
    BY <1>2, <1>7 DEF IInv, SavedTogether
  <1>9. QED
    BY <1>4, <1>6, <1>8 DEF IInv

LEMMA SelectStep ==
  ASSUME IInv, NEW g \in Guild, NEW ch \in Channel, Select(g, ch) PROVE IInv'
  <1> DEFINE new == [Stored(g) EXCEPT !.channel = ch]
  <1>1. /\ process = "up" /\ saving = {}
        /\ row' = [row EXCEPT ![g] = new]
        /\ chosen' = [chosen EXCEPT ![g] = ch]
        /\ UNCHANGED <<process, file, mark, pending, todo, member, crashes,
                       form, saving, passed, torn>>
    BY DEF Select, Free, Store, migration
  <1>2. Stored(g) \in Row
    BY StoredFacts
  <1>3. g \notin torn => Stored(g).message = Stored(g).link
    BY <1>1 DEF IInv, SavedTogether, Stored, DefaultRow
  <1>4. /\ new \in Row /\ new # None /\ new.channel = ch
        /\ new.message = Stored(g).message /\ new.link = Stored(g).link
    BY <1>2 DEF Row
  <1> HIDE DEF new
  <1>5. TypeOK'
    BY <1>1, <1>4 DEF IInv, TypeOK, RowOrNone
  <1>6. FormsOK' /\ PendingOK'
    BY <1>1 DEF IInv, FormsOK, PendingOK
  <1>7. NoneChosen' /\ ChannelKept' /\ SavedTogether'
    BY <1>1, <1>3, <1>4 DEF IInv, TypeOK, NoneChosen, ChannelKept, SavedTogether
  <1>8. QED
    BY <1>5, <1>6, <1>7 DEF IInv

-----------------------------------------------------------------------------
LEMMA StepIInv == IInv /\ [Next]_vars => IInv'
  <1> SUFFICES ASSUME IInv, [Next]_vars PROVE IInv'
    OBVIOUS
  <1>1. CASE EditFile
    <2>1. TypeOK'
      BY <1>1 DEF EditFile, history, IInv, TypeOK
    <2>2. QED
      BY <1>1, <2>1, Unrelated DEF EditFile, history, IInv, FormsOK
  <1>2. CASE UNCHANGED vars
    BY <1>2 DEF vars, migration, history, IInv, TypeOK, FormsOK, PendingOK,
                NoneChosen, SavedTogether, ChannelKept
  <1>3. QED
    BY <1>1, <1>2, StartStep, MigrateStep, CommitStep, CrashStep, EnsureStep,
       JoinStep, LeaveStep, OpenStep, SaveMessageStep, ResubmitStep,
       SaveLinkStep, SaveLinkFailsStep, SelectStep
       DEF Next

LEMMA Invariance == Spec => []IInv
  BY InitIInv, StepIInv, PTL DEF Spec

(* Every variable keeps its type.                                          *)
THEOREM TypeCorrect == Spec => []TypeOK
  BY Invariance, PTL DEF IInv

(* Message and link of a guild are never mixed from two submissions, for   *)
(* any number of open forms and crashes.                                   *)
THEOREM NoMixedSettings == Spec => []SavedTogether
  BY Invariance, PTL DEF IInv

(* No form undoes the choice of a channel.                                 *)
THEOREM ChannelSurvives == Spec => []ChannelKept
  BY Invariance, PTL DEF IInv

(* A migration that does not reach its mark leaves no row.                 *)
THEOREM MigrationAllOrNothing == Spec => MigrationAtomic
  <1>1. [Next]_vars => (process = "migrating" /\ ~mark' => row' = row)
    BY DEF Next, vars, Start, Migrate, Commit, Crash, EditFile, Free, Ensure,
           Join, Leave, Open, SaveMessage, Resubmit, SaveLink, SaveLinkFails,
           Select, history
  <1>2. QED
    BY <1>1, PTL DEF Spec, MigrationAtomic
-----------------------------------------------------------------------------
(* What the mark rests on: a migration has a row for every guild that it   *)
(* went past, and as long as there is no mark rows are written only by a   *)
(* bot that passed over the file.                                          *)
MarkOK ==
  /\ process = "migrating" =>
       ~mark /\ \A g \in DOMAIN Legacy \ todo : pending[g] # None
  /\ process = "up" /\ ~mark => passed
  /\ ~mark /\ ~passed => \A g \in Guild : row[g] = None

LEMMA InitMark == Init => MarkOK
  BY DEF Init, MarkOK

(* Handlers run only while the bot is up: they disturb no clause of MarkOK *)
(* but the last, which is void then.                                       *)
LEMMA HandlerKeepsMark ==
  ASSUME MarkOK, process = "up", UNCHANGED <<process, mark, passed>>
  PROVE  MarkOK'
  BY DEF MarkOK

LEMMA MigrateKeepsMark ==
  ASSUME IInv, MarkOK, NEW g \in DOMAIN Legacy, Migrate(g) PROVE MarkOK'
  <1>1. /\ process = "migrating" /\ todo' = todo \ {g}
        /\ pending' = [pending EXCEPT ![g] = IF @ = None THEN Legacy[g] ELSE @]
        /\ UNCHANGED <<process, mark, row, passed>>
    BY DEF Migrate, history
  <1>2. Legacy[g] # None /\ g \in Guild /\ DOMAIN pending = Guild
    BY DEF IInv, TypeOK
  <1>3. pending'[g] # None /\ \A h \in Guild \ {g} : pending'[h] = pending[h]
    BY <1>1, <1>2
  <1>4. DOMAIN Legacy \subseteq Guild
    OBVIOUS
  <1>5. QED
    BY <1>1, <1>3, <1>4 DEF MarkOK

LEMMA StepMark == IInv /\ MarkOK /\ [Next]_vars => MarkOK'
  <1> SUFFICES ASSUME IInv, MarkOK, [Next]_vars PROVE MarkOK'
    OBVIOUS
  <1>1. CASE Start
    <2>1. \A g \in DOMAIN Legacy \ DOMAIN Legacy : FALSE
      OBVIOUS
    <2>2. process = "down" /\ row' = row /\ (passed => passed')
      BY <1>1 DEF Start
    <2>3. CASE process' = "migrating"
      BY <1>1, <2>1, <2>2, <2>3 DEF Start, MarkOK
    <2>4. CASE process' = "up"
      BY <1>1, <2>2, <2>4 DEF Start, MarkOK
    <2>5. QED
      BY <1>1, <2>3, <2>4 DEF Start
  <1>2. CASE Commit
    BY <1>2 DEF Commit, MarkOK
  <1>3. CASE Crash
    BY <1>3 DEF Crash, MarkOK
  <1>4. CASE EditFile
    BY <1>4 DEF EditFile, history, MarkOK
  <1>5. CASE UNCHANGED vars
    BY <1>5 DEF vars, migration, history, MarkOK
  <1>6. CASE process = "up" /\ UNCHANGED <<process, mark, passed>>
    BY <1>6, HandlerKeepsMark
  <1>7. QED
    BY <1>1, <1>2, <1>3, <1>4, <1>5, <1>6, MigrateKeepsMark
       DEF Next, Ensure, Join, Leave, Open, SaveMessage, Resubmit, SaveLink,
           SaveLinkFails, Select, Free, Store, migration, history

LEMMA MarkInvariance == Spec => [](IInv /\ MarkOK)
  BY InitIInv, StepIInv, InitMark, StepMark, PTL DEF Spec

(* The mark means that the file is migrated, for any file, any guilds and  *)
(* any number of kills: only Commit sets it while there is a file.         *)
THEOREM MarkMigrates == Spec => MarkMeansMigrated
  <1> DEFINE Migrated == \A g \in DOMAIN Legacy :
         row'[g] = Legacy[g] \/ (passed /\ row[g] # None /\ row'[g] = row[g])
  <1>1. ASSUME IInv, MarkOK, [Next]_vars, ~mark, mark', file # "absent"
        PROVE  Migrated
    <2>1. Commit
      BY <1>1 DEF Next, vars, Start, NothingToMigrate, Migrate, Crash, EditFile,
         Free, Ensure, Join, Leave, Open, SaveMessage, Resubmit, SaveLink,
         SaveLinkFails, Select, Store, migration, history
    <2>2. process = "migrating" /\ todo = {} /\ row' = pending
      BY <2>1 DEF Commit
    <2> SUFFICES ASSUME NEW g \in DOMAIN Legacy
                 PROVE  row'[g] = Legacy[g]
                        \/ (passed /\ row[g] # None /\ row'[g] = row[g])
      OBVIOUS
    <2>3. g \in Guild /\ pending[g] # None
      BY <1>1, <2>2 DEF MarkOK
    <2>4. CASE pending[g] = row[g]
      BY <1>1, <2>2, <2>3, <2>4 DEF MarkOK
    <2>5. CASE pending[g] = Legacy[g]
      BY <2>2, <2>5
    <2>6. QED
      BY <1>1, <2>2, <2>3, <2>4, <2>5 DEF IInv, PendingOK
  <1>2. IInv /\ MarkOK /\ [Next]_vars
          => [~mark /\ mark' /\ file # "absent" => Migrated]_vars
    BY <1>1
  <1>3. QED
    BY <1>2, MarkInvariance, PTL DEF Spec, MarkMeansMigrated
=============================================================================
