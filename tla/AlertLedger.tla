---------------------------- MODULE AlertLedger ----------------------------
(***************************************************************************)
(* What the free-game alerts promise, whoever does the work: one courier   *)
(* takes the list the provider shows from guild to guild, message after    *)
(* message.  A list is remembered for a guild once its last message has    *)
(* arrived; a courier that goes round by itself passes over the guilds     *)
(* that remember its list, and visits no guild twice; one that was sent by *)
(* a command visits its guild only.  FreeGameAlerts implements this with   *)
(* a lock, a loop, concurrent commands and lists read beforehand.          *)
(***************************************************************************)
EXTENDS Integers

CONSTANTS Guild, Channel, Digest, Messages, NoGuild, NoChannel, NoDigest

VARIABLES
  row,         \* the subscription of each guild
  inbox,       \* messages that reached each guild since the last restart
  remembered,  \* the list each guild is known to have
  feed,        \* what the provider shows
  courier      \* the delivery under way

vars == <<row, inbox, remembered, feed, courier>>

Resting == [guild |-> NoGuild, digest |-> NoDigest, sent |-> 0, forced |-> FALSE]
Underway == courier # Resting
Blank == [g \in Guild |-> NoDigest]
Bringing(g, d, forced) ==
  [guild |-> g, digest |-> d, sent |-> 0, forced |-> forced]

Init ==
  /\ row = [g \in Guild |-> NoChannel]
  /\ inbox = [g \in Guild |-> {}]
  /\ remembered = Blank
  /\ feed \in Digest
  /\ courier = Resting

Subscribe ==
  /\ \E g \in Guild, c \in Channel : row' = [row EXCEPT ![g] = c]
  /\ UNCHANGED <<inbox, remembered, feed, courier>>

Unsubscribe ==
  /\ \E g \in Guild :
       /\ row' = [row EXCEPT ![g] = NoChannel]
       /\ remembered' \in {remembered, [remembered EXCEPT ![g] = NoDigest]}
  /\ UNCHANGED <<inbox, feed, courier>>

Publish ==
  /\ feed' \in Digest
  /\ UNCHANGED <<row, inbox, remembered, courier>>

SetOut ==
  /\ ~Underway
  /\ \E g \in Guild, forced \in BOOLEAN :
       /\ forced \/ remembered[g] # feed
       /\ courier' = Bringing(g, feed, forced)
  /\ UNCHANGED <<row, inbox, remembered, feed>>

(* The courier is done with its guild: it rests, or goes on to a later one *)
(* that does not remember the list.                                        *)
MoveOn ==
  \/ courier' = Resting
  \/ /\ ~courier.forced
     /\ \E h \in Guild :
          /\ courier.guild < h
          /\ remembered'[h] # courier.digest
          /\ courier' = Bringing(h, courier.digest, FALSE)

Arrives ==
  inbox' = [inbox EXCEPT ![courier.guild] =
              @ \cup {<<courier.digest, courier.sent + 1>>}]

Deliver ==
  /\ Underway
  /\ Arrives
  /\ \/ /\ courier.sent + 1 < Messages[courier.digest]
        /\ courier' = [courier EXCEPT !.sent = @ + 1]
        /\ UNCHANGED remembered
     \/ /\ courier.sent + 1 = Messages[courier.digest]
        /\ remembered' = [remembered EXCEPT ![courier.guild] = courier.digest]
        /\ MoveOn
  /\ UNCHANGED <<row, feed>>

(* A delivery that fails may have brought its message all the same.        *)
Fail ==
  /\ Underway
  /\ Arrives \/ UNCHANGED inbox
  /\ MoveOn
  /\ UNCHANGED <<row, remembered, feed>>

Restart ==
  /\ inbox' = [g \in Guild |-> {}]
  /\ remembered' = Blank
  /\ courier' = Resting
  /\ UNCHANGED <<row, feed>>

Next ==
  \/ Subscribe \/ Unsubscribe \/ Publish
  \/ SetOut \/ Deliver \/ Fail \/ Restart

Spec == Init /\ [][Next]_vars
=============================================================================
