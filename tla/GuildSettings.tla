---------------------------- MODULE GuildSettings ----------------------------
(***************************************************************************)
(* The rows of guild_settings (bot/utils/storage.py), the forms by which   *)
(* administrators change them (SetupMessageModal and the channel select of *)
(* bot/cogs/settings.py, EditMessageModal of bot/cogs/yeonsam.py), and the *)
(* migration of guild_config.json that a start makes before all that.      *)
(*                                                                         *)
(* A form holds the texts that were stored when it was opened and writes   *)
(* them back in two transactions.  Handlers run one at a time between      *)
(* awaits, and there is none between the two; the process may be killed or *)
(* the second may fail there.  Rights, wording, lengths and the check of   *)
(* the link are left out: a form that is refused changes nothing.          *)
(***************************************************************************)
EXTENDS Naturals

CONSTANTS
  Guild, Channel,
  Form,      \* modals that may be open at a time
  Text,      \* texts that can be entered; one stands for message and link
  Unset,     \* the text of DEFAULT_GUILD_CONFIG
  Legacy,    \* rows of guild_config.json, a function on some guilds
  None,      \* no row, no channel
  MaxCrash   \* bound on kills of the process

Row == [message : Text \cup {Unset}, link : Text \cup {Unset},
        channel : Channel \cup {None}]
DefaultRow == [message |-> Unset, link |-> Unset, channel |-> None]

ASSUME LegacyAssumption ==
  /\ DOMAIN Legacy \subseteq Guild
  /\ \A g \in DOMAIN Legacy :
       Legacy[g] \in Row /\ Legacy[g].message = Legacy[g].link
ASSUME BoundAssumption == MaxCrash \in Nat
ASSUME NoneAssumption == None \notin Row /\ None \notin Form

VARIABLES
  process,  \* "down", "migrating" in init_storage, or "up"
  file,     \* what guild_config.json is
  mark,     \* runtime_state says that it was migrated
  row,      \* guild_settings: a row or None
  pending,  \* rows written by the migration, not yet committed
  todo,     \* guilds of the file not yet written
  member,   \* guilds the bot is in
  form,     \* the guild and the texts of each open modal
  saving,   \* the forms between their two transactions
  crashes,
  passed,   \* history: a start passed over a file that is no JSON
  torn,     \* history: guilds whose last save was cut in two
  chosen    \* history: the channel last selected, or migrated

migration == <<file, mark, pending, todo>>
history == <<passed, torn, chosen>>
vars == <<process, migration, row, member, form, saving, crashes, history>>

Closed == [guild |-> None, message |-> Unset, link |-> Unset]
NoForms == [f \in Form |-> Closed]

Init ==
  /\ process = "down"
  /\ file \in {"absent", "garbled", "not text", "readable"}
  /\ mark = FALSE
  /\ row = [g \in Guild |-> None]
  /\ pending = row
  /\ todo = {}
  /\ member \in SUBSET Guild
  /\ form = NoForms
  /\ saving = {}
  /\ crashes = 0
  /\ passed = FALSE
  /\ torn = {}
  /\ chosen = [g \in Guild |-> None]

-----------------------------------------------------------------------------
NothingToMigrateIfGarbled == file # "readable"  \* variant
NothingToMigrate == file = "absent"
PassedOverNever == FALSE  \* variant: a garbled file is an error
PassedOver == file = "garbled"

(* init_storage.  A file that is no JSON is passed over without a mark,    *)
(* one that is not UTF-8 raises UnicodeDecodeError and nothing starts.     *)
Start ==
  /\ process = "down"
  /\ \/ mark /\ process' = "up" /\ UNCHANGED <<mark, pending, todo>>
     \/ /\ ~mark /\ NothingToMigrate
        /\ process' = "up" /\ mark' = TRUE /\ UNCHANGED <<pending, todo>>
     \/ /\ ~mark /\ PassedOver
        /\ process' = "up" /\ UNCHANGED <<mark, pending, todo>>
     \/ /\ ~mark /\ file = "readable"
        /\ process' = "migrating" /\ pending' = row /\ todo' = DOMAIN Legacy
        /\ UNCHANGED mark
  /\ passed' = (passed \/ (~mark /\ process' = "up" /\ ~mark'))
  /\ UNCHANGED <<file, row, member, form, saving, crashes, torn, chosen>>

(* Variant: each row is committed by itself.                               *)
MigrateCommitting(g) ==
  /\ process = "migrating" /\ g \in todo
  /\ pending' = [pending EXCEPT ![g] = IF @ = None THEN Legacy[g] ELSE @]
  /\ row' = pending'
  /\ todo' = todo \ {g}
  /\ UNCHANGED <<process, file, mark, member, form, saving, crashes, history>>

(* INSERT OR IGNORE for one guild of the file, in the transaction of the   *)
(* migration.                                                              *)
Migrate(g) ==
  /\ process = "migrating" /\ g \in todo
  /\ pending' = [pending EXCEPT ![g] = IF @ = None THEN Legacy[g] ELSE @]
  /\ todo' = todo \ {g}
  /\ UNCHANGED <<process, file, mark, row, member, form, saving, crashes, history>>

(* The mark is written and all is committed.                               *)
Commit ==
  /\ process = "migrating" /\ todo = {}
  /\ row' = pending
  /\ mark' = TRUE
  /\ process' = "up"
  /\ chosen' = [g \in Guild |->
       IF row[g] = None /\ pending[g] # None THEN pending[g].channel ELSE chosen[g]]
  /\ UNCHANGED <<file, pending, todo, member, form, saving, crashes, passed, torn>>

(* The process is killed; open modals have nobody to answer them.          *)
Crash ==
  /\ process # "down" /\ crashes < MaxCrash
  /\ process' = "down"
  /\ pending' = row
  /\ todo' = {}
  /\ form' = NoForms
  /\ saving' = {}
  /\ crashes' = crashes + 1
  /\ torn' = torn \cup {form[f].guild : f \in saving}
  /\ UNCHANGED <<file, mark, row, member, passed, chosen>>

(* Somebody repairs, breaks, adds or removes guild_config.json, which      *)
(* nobody reads after the mark.                                            *)
EditFile ==
  /\ process # "migrating" /\ ~mark
  /\ file' \in {"absent", "garbled", "not text", "readable"} \ {file}
  /\ UNCHANGED <<process, mark, row, pending, todo, member, form, saving, crashes, history>>

-----------------------------------------------------------------------------
FreeBetween == process = "up"  \* variant: one may run between the two
(* A handler may run.                                                      *)
Free == process = "up" /\ saving = {}
Stored(g) == IF row[g] = None THEN DefaultRow ELSE row[g]

Store(g, r) ==
  /\ row' = [row EXCEPT ![g] = r]
  /\ UNCHANGED <<process, migration, member, crashes>>

(* ensure_guild, as on_ready, on_guild_join and the set-up call it.        *)
Ensure(g) ==
  /\ Free /\ g \in member /\ row[g] = None
  /\ Store(g, DefaultRow)
  /\ UNCHANGED <<form, saving, history>>

Join(g) ==
  /\ Free /\ g \notin member
  /\ member' = member \cup {g}
  /\ row' = [row EXCEPT ![g] = Stored(g)]
  /\ UNCHANGED <<process, migration, form, saving, crashes, history>>

(* on_guild_remove deletes the row; nobody answers the guild's forms.      *)
Leave(g) ==
  /\ Free /\ g \in member
  /\ member' = member \ {g}
  /\ row' = [row EXCEPT ![g] = None]
  /\ form' = [f \in Form |-> IF form[f].guild = g THEN Closed ELSE form[f]]
  /\ torn' = torn \ {g}
  /\ chosen' = [chosen EXCEPT ![g] = None]
  /\ UNCHANGED <<process, migration, saving, crashes, passed>>

(* get_guild fills the form; the row it was read from may change later.    *)
Open(f, g) ==
  /\ Free /\ g \in member /\ form[f] = Closed
  /\ form' = [form EXCEPT ![f] = [guild |-> g, message |-> Stored(g).message,
                                  link |-> Stored(g).link]]
  /\ UNCHANGED <<process, migration, row, member, saving, crashes, history>>

(* Variant: the whole row is written, as save_data does.                   *)
SaveWholeRow(f, text) ==
  /\ Free /\ form[f] # Closed /\ f \notin saving
  /\ Store(form[f].guild,
       [message |-> text, link |-> text, channel |-> None])
  /\ form' = [form EXCEPT ![f] = [guild |-> @.guild, message |-> text, link |-> text]]
  /\ saving' = saving \cup {f}
  /\ UNCHANGED history

(* on_submit, with new texts or those the form was opened with, as far as  *)
(* the first update_guild.                                                 *)
SaveMessage(f, text) ==
  /\ Free /\ form[f] # Closed /\ f \notin saving
  /\ Store(form[f].guild, [Stored(form[f].guild) EXCEPT !.message = text])
  /\ form' = [form EXCEPT ![f] = [guild |-> @.guild, message |-> text, link |-> text]]
  /\ saving' = saving \cup {f}
  /\ UNCHANGED history
Resubmit(f) ==
  /\ Free /\ form[f] # Closed /\ f \notin saving
  /\ Store(form[f].guild, [Stored(form[f].guild) EXCEPT !.message = form[f].message])
  /\ saving' = saving \cup {f}
  /\ UNCHANGED <<form, history>>

(* Variant: an empty link is stored as NULL.                               *)
SaveLinkRaw(f) ==
  /\ process = "up" /\ f \in saving
  /\ Store(form[f].guild, [Stored(form[f].guild) EXCEPT !.link =
       IF form[f].link = Unset THEN None ELSE form[f].link])
  /\ form' = [form EXCEPT ![f] = Closed]
  /\ saving' = saving \ {f}
  /\ UNCHANGED history

(* The second update_guild; the form is answered.                          *)
SaveLink(f) ==
  /\ process = "up" /\ f \in saving
  /\ Store(form[f].guild, [Stored(form[f].guild) EXCEPT !.link = form[f].link])
  /\ form' = [form EXCEPT ![f] = Closed]
  /\ saving' = saving \ {f}
  /\ torn' = IF form[f].message = form[f].link
             THEN torn \ {form[f].guild} ELSE torn \cup {form[f].guild}
  /\ UNCHANGED <<passed, chosen>>

(* SQLite refuses the second: the exception ends on_submit.                *)
SaveLinkFails(f) ==
  /\ process = "up" /\ f \in saving
  /\ form' = [form EXCEPT ![f] = Closed]
  /\ saving' = saving \ {f}
  /\ torn' = torn \cup {form[f].guild}
  /\ UNCHANGED <<process, migration, row, member, crashes, passed, chosen>>

(* WelcomeChannelSelect.callback.                                          *)
Select(g, ch) ==
  /\ Free /\ g \in member
  /\ Store(g, [Stored(g) EXCEPT !.channel = ch])
  /\ chosen' = [chosen EXCEPT ![g] = ch]
  /\ UNCHANGED <<form, saving, passed, torn>>

Next ==
  \/ Start \/ Commit \/ Crash \/ EditFile
  \/ \E g \in DOMAIN Legacy : Migrate(g)
  \/ \E g \in Guild : Ensure(g) \/ Join(g) \/ Leave(g)
  \/ \E g \in Guild, ch \in Channel : Select(g, ch)
  \/ \E f \in Form :
       \/ \E g \in Guild : Open(f, g)
       \/ \E text \in Text : SaveMessage(f, text)
       \/ Resubmit(f) \/ SaveLink(f) \/ SaveLinkFails(f)

Spec == Init /\ [][Next]_vars

(* docker-compose.yml restarts a container that ended, and a start runs    *)
(* to its end.                                                             *)
FairSpec ==
  /\ Spec
  /\ WF_vars(Start) /\ WF_vars(Commit)
  /\ \A g \in DOMAIN Legacy : WF_vars(Migrate(g))

-----------------------------------------------------------------------------
RowOrNone == Row \cup {None}
FormType == [guild : Guild \cup {None},
             message : Text \cup {Unset}, link : Text \cup {Unset}]

(* Every variable keeps its type (the columns of storage.py:71-78).        *)
TypeOK ==
  /\ process \in {"down", "migrating", "up"}
  /\ file \in {"absent", "garbled", "not text", "readable"}
  /\ mark \in BOOLEAN
  /\ row \in [Guild -> RowOrNone]
  /\ pending \in [Guild -> RowOrNone]
  /\ todo \subseteq DOMAIN Legacy
  /\ member \subseteq Guild
  /\ form \in [Form -> FormType]
  /\ saving \subseteq Form
  /\ crashes \in 0..MaxCrash
  /\ passed \in BOOLEAN
  /\ torn \subseteq Guild
  /\ chosen \in [Guild -> Channel \cup {None}]

(* The message and the link of a guild come from one submission, although  *)
(* they are written apart (settings.py:171), unless a fault cut it in two: *)
(* forms that are open together do not mix.                                *)
SavedTogether ==
  \A g \in Guild \ torn :
    row[g] # None /\ (\A f \in saving : form[f].guild # g) =>
      row[g].message = row[g].link

(* A guild keeps the channel that was selected last, whatever forms were   *)
(* open at the time and are submitted later.                               *)
ChannelKept == \A g \in Guild : row[g] # None => row[g].channel = chosen[g]

(* No row of the file is there before the migration is marked as done: a   *)
(* start that is killed half-way leaves none behind.                       *)
MigrationAtomic == [][process = "migrating" /\ ~mark' => row' = row]_vars

(* The mark means that every guild of the file has its row, and that it is *)
(* the one of the file, unless a start passed over the file before and the *)
(* guild got a row since, which stays.  (test_storage.py:34,               *)
(* test_legacy_json_is_migrated.)                                          *)
MarkMeansMigrated ==
  [][~mark /\ mark' /\ file # "absent" =>
       \A g \in DOMAIN Legacy :
         row'[g] = Legacy[g] \/ (passed /\ row[g] # None /\ row'[g] = row[g])]_vars

(* The bot is up again and again, unless the file that is yet to be        *)
(* migrated is not UTF-8.                                                  *)
StartsAgain == []<>(process = "up" \/ (~mark /\ file = "not text"))
=============================================================================
