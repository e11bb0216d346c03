------------------------------ MODULE HostKeys ------------------------------
(***************************************************************************)
(* Trust in SSH host keys (ssh_known_hosts.rs, ssh_tunnel.rs): the keys    *)
(* known in memory and in the file behind it, the handshakes that verify   *)
(* against them, the prompts that wait for the user, the dialog that shows *)
(* them one after the other (ssh-host-key-dialog.tsx), and the removals    *)
(* asked in the settings.                                                  *)
(*                                                                         *)
(* The program of the window is one process, which prompts.  A scheduled   *)
(* backup runs in a process of its own (headless.rs), which loads the same *)
(* file, has a memory of its own, and prompts nobody: it accepts new keys  *)
(* or rejects them.                                                        *)
(*                                                                         *)
(* An entry is a host and a key; a request id is the handshake it was made *)
(* for.  What add and remove do to memory they do under its lock, what     *)
(* they do to the file comes later and without it.                         *)
(***************************************************************************)
EXTENDS Sequences

CONSTANTS
  Hosts, Keys,
  Handshakes,   \* calls of check_server_key
  Removals,     \* who may be removing a key in the settings
  Window,       \* the process of the window
  Headless      \* those of scheduled runs, one after another each

ASSUME ProcessAssumption == Window \notin Headless

Entries == Hosts \X Keys
Processes == {Window} \cup Headless
Policies == {"prompt", "acceptNew", "reject"}

VARIABLES
  memory,     \* memory[p]: KnownHosts::entries of process p
  file,       \* the entries in the file
  stage,      \* stage[h]: where handshake h is
  offer,      \* offer[h]: the host of h and the key its server shows
  process,    \* process[h]: who connects
  policy,     \* policy[p]: the HostKeyPolicy of process p
  prompts,    \* AppState::ssh_key_prompts: handshakes with a sender in the map
  sender,     \* a sender taken out of the map by an answer and not used yet
  answer,     \* answer[h]: what was sent to h
  dialog,     \* the prompts the window still shows, the current one first
  rewriting,  \* removals that have still to write the file
  snapshot,   \* snapshot[r]: what removal r will write
  consented,  \* history: entries the user, or a policy, has said yes to
  unseen,     \* history: what scheduled runs have put into the file since the
              \*   window last loaded it or wrote it anew
  parted      \* history: writers of the file have overlapped, or the window's
              \*   have failed

handshakeVars == <<stage, prompts, sender, answer>>
inputs == <<offer, process, policy>>
removalVars == <<rewriting, snapshot>>
keysVars ==
  <<memory, file, handshakeVars, inputs, dialog, removalVars, consented, unseen, parted>>

HandshakePoints == {"start", "emit", "waiting", "add", "append", "trusted", "rejected"}

KeysTypeOK ==
  /\ memory \in [Processes -> SUBSET Entries]
  /\ file \subseteq Entries /\ consented \subseteq Entries /\ unseen \subseteq Entries
  /\ stage \in [Handshakes -> HandshakePoints]
  /\ offer \in [Handshakes -> Entries] /\ process \in [Handshakes -> Processes]
  /\ policy \in [Processes -> Policies]
  /\ prompts \subseteq Handshakes
  /\ sender \in (Handshakes \X BOOLEAN) \cup {<<>>}
  /\ answer \in [Handshakes -> {"none", "yes", "no"}]
  /\ dialog \in Seq(Handshakes)
  /\ rewriting \subseteq Removals
  /\ snapshot \in [Removals -> SUBSET Entries]
  /\ parted \in BOOLEAN

(* load: what an earlier session, and its consent, left in the file.       *)
KeysInit ==
  /\ file \in SUBSET Entries
  /\ memory = [p \in Processes |-> file]
  /\ consented = file
  /\ stage = [h \in Handshakes |-> "start"]
  /\ offer \in [Handshakes -> Entries]
  /\ process \in [Handshakes -> Processes]
  /\ policy \in [Processes -> Policies]
  /\ \A p \in Processes : policy[p] = "prompt" <=> p = Window
  /\ prompts = {}
  /\ sender = <<>>
  /\ answer = [h \in Handshakes |-> "none"]
  /\ dialog = <<>>
  /\ rewriting = {}
  /\ snapshot = [r \in Removals |-> {}]
  /\ unseen = {}
  /\ parted = FALSE

Advances(h, from, to) ==
  /\ stage[h] = from
  /\ stage' = [stage EXCEPT ![h] = to]

-----------------------------------------------------------------------------
(* check_server_key.                                                       *)

KnownKeys(p, host) == {e \in memory[p] : e[1] = host}

(* Mutant: any key will do for a host that is known.                       *)
VerdictByHost(p, e) == IF KnownKeys(p, e[1]) = {} THEN "unknown" ELSE "match"

Verdict(p, e) ==
  IF e \in memory[p] THEN "match"
  ELSE IF KnownKeys(p, e[1]) # {} THEN "mismatch" ELSE "unknown"

(* verify, and what the policy makes of an unknown key; a prompt gets its  *)
(* sender into the map before it is emitted.                               *)
Verify(h) ==
  LET verdict == Verdict(process[h], offer[h])
      onUnknown == policy[process[h]]
  IN /\ \/ verdict = "match" /\ Advances(h, "start", "trusted") /\ UNCHANGED <<prompts, consented>>
        \/ /\ verdict = "mismatch" \/ (verdict = "unknown" /\ onUnknown = "reject")
           /\ Advances(h, "start", "rejected") /\ UNCHANGED <<prompts, consented>>
        \/ /\ verdict = "unknown" /\ onUnknown = "acceptNew"
           /\ Advances(h, "start", "add")
           /\ consented' = consented \cup {offer[h]}
           /\ UNCHANGED prompts
        \/ /\ verdict = "unknown" /\ onUnknown = "prompt"
           /\ Advances(h, "start", "emit")
           /\ prompts' = prompts \cup {h}
           /\ UNCHANGED consented
  /\ UNCHANGED <<memory, file, sender, answer, inputs, dialog, removalVars, unseen, parted>>

(* The event reaches the dialog's queue, or cannot be emitted.             *)
Emit(h) ==
  /\ \/ /\ Advances(h, "emit", "waiting")
        /\ dialog' = Append(dialog, h)
        /\ UNCHANGED prompts
     \/ /\ Advances(h, "emit", "rejected")
        /\ prompts' = prompts \ {h}
        /\ UNCHANGED dialog
  /\ UNCHANGED <<memory, file, sender, answer, inputs, removalVars, consented, unseen, parted>>

(* The answer arrives.                                                     *)
Hear(h) ==
  /\ answer[h] # "none"
  /\ Advances(h, "waiting", IF answer[h] = "yes" THEN "add" ELSE "rejected")
  /\ UNCHANGED <<memory, file, prompts, sender, answer, inputs, dialog, removalVars, consented,
                 unseen, parted>>

(* Two minutes are up: the sender goes, the dialog keeps showing the       *)
(* prompt.                                                                 *)
TimeOut(h) ==
  /\ answer[h] = "none"
  /\ Advances(h, "waiting", "rejected")
  /\ prompts' = prompts \ {h}
  /\ UNCHANGED <<memory, file, sender, answer, inputs, dialog, removalVars, consented, unseen, parted>>

(* Somebody in the window is between memory and the file.                  *)
Writing ==
  \/ \E h \in Handshakes : process[h] = Window /\ stage[h] = "append"
  \/ rewriting # {}

(* persist_key, first half: into the memory of its process.                *)
AddToMemory(h) ==
  /\ Advances(h, "add", "append")
  /\ memory' = [memory EXCEPT ![process[h]] = @ \cup {offer[h]}]
  /\ parted' = (parted \/ (process[h] = Window /\ rewriting # {}))
  /\ UNCHANGED <<file, prompts, sender, answer, inputs, dialog, removalVars, consented, unseen>>

(* Second half: a line at the end of the file.  That it may fail is only   *)
(* logged.                                                                 *)
AppendToFile(h) ==
  /\ Advances(h, "append", "trusted")
  /\ \/ /\ file' = file \cup {offer[h]}
        /\ unseen' = IF process[h] = Window THEN unseen ELSE unseen \cup {offer[h]}
        /\ parted' = (parted \/ rewriting # {})
     \/ /\ UNCHANGED <<file, unseen>>
        /\ parted' = (parted \/ process[h] = Window)
  /\ UNCHANGED <<memory, prompts, sender, answer, inputs, dialog, removalVars, consented>>

-----------------------------------------------------------------------------
(* The window.                                                             *)

(* The dialog: the user says yes or no to the prompt shown first, and      *)
(* ssh_host_key_respond takes its sender, if it is still there.            *)
Respond(yes) ==
  /\ dialog # <<>> /\ sender = <<>>
  /\ LET h == Head(dialog)
     IN /\ consented' = IF yes THEN consented \cup {offer[h]} ELSE consented
        /\ prompts' = prompts \ {h}
        /\ sender' = IF h \in prompts THEN <<h, yes>> ELSE <<>>
  /\ dialog' = Tail(dialog)
  /\ UNCHANGED <<memory, file, stage, answer, inputs, removalVars, unseen, parted>>

(* sender.send: nobody may be listening any more.                          *)
Send ==
  /\ sender # <<>>
  /\ answer' = [answer EXCEPT ![sender[1]] = IF sender[2] THEN "yes" ELSE "no"]
  /\ sender' = <<>>
  /\ UNCHANGED <<memory, file, stage, prompts, inputs, dialog, removalVars, consented, unseen, parted>>

(* Mutant: the snapshot is taken before the key is removed.                *)
RemoveLate(r, e) ==
  /\ r \notin rewriting
  /\ rewriting' = rewriting \cup {r}
  /\ memory' = [memory EXCEPT ![Window] = @ \ {e}]
  /\ snapshot' = [snapshot EXCEPT ![r] = memory[Window]]
  /\ parted' = (parted \/ Writing)
  /\ UNCHANGED <<file, handshakeVars, inputs, dialog, consented, unseen>>

(* remove, first half: out of memory, and a snapshot of what is left.      *)
Remove(r, e) ==
  /\ r \notin rewriting
  /\ rewriting' = rewriting \cup {r}
  /\ memory' = [memory EXCEPT ![Window] = @ \ {e}]
  /\ snapshot' = [snapshot EXCEPT ![r] = memory[Window] \ {e}]
  /\ parted' = (parted \/ Writing)
  /\ UNCHANGED <<file, handshakeVars, inputs, dialog, consented, unseen>>

(* Second half: the file is written anew, or comes out empty or unchanged. *)
(* The keys of scheduled runs that the window has not seen are gone.       *)
Rewrite(r) ==
  /\ r \in rewriting
  /\ \/ file' = snapshot[r] /\ UNCHANGED parted
     \/ file' \in {file, {}} /\ parted' = TRUE
  /\ unseen' = {}
  /\ rewriting' = rewriting \ {r}
  /\ snapshot' = [snapshot EXCEPT ![r] = {}]
  /\ UNCHANGED <<memory, handshakeVars, inputs, dialog, consented>>

(* What is left of the handshakes of process p when it ends.               *)
Interrupted(p) ==
  [h \in Handshakes |->
    IF process[h] = p /\ stage[h] \notin {"start", "trusted"} THEN "rejected" ELSE stage[h]]

(* The program of the window ends, or crashes, and starts again: memory is *)
(* what the file says, a rewrite may have got as far as to truncate it.    *)
Restart ==
  /\ \/ UNCHANGED file
     \/ file' = {} /\ rewriting # {}
  /\ memory' = [memory EXCEPT ![Window] = file']
  /\ stage' = Interrupted(Window)
  /\ prompts' = {}
  /\ sender' = <<>>
  /\ dialog' = <<>>
  /\ rewriting' = {}
  /\ snapshot' = [r \in Removals |-> {}]
  /\ unseen' = {}
  /\ parted' = FALSE
  /\ UNCHANGED <<answer, inputs, consented>>

(* A scheduled run has ended, one way or another, and the next one starts. *)
(* It may load the file while the window has it truncated.                 *)
NextRun(p) ==
  /\ \E loaded \in {file} \cup (IF rewriting # {} THEN {{}} ELSE {}) :
       memory' = [memory EXCEPT ![p] = loaded]
  /\ stage' = Interrupted(p)
  /\ UNCHANGED <<file, prompts, sender, answer, inputs, dialog, removalVars, consented, unseen,
                 parted>>

-----------------------------------------------------------------------------
Handshake(h) ==
  \/ Verify(h) \/ Emit(h) \/ Hear(h) \/ TimeOut(h) \/ AddToMemory(h) \/ AppendToFile(h)
Removal(r) == Rewrite(r) \/ \E e \in Entries : Remove(r, e)

KeysNext ==
  \/ \E h \in Handshakes : Handshake(h)
  \/ \E yes \in BOOLEAN : Respond(yes)
  \/ Send
  \/ \E r \in Removals : Removal(r)
  \/ Restart
  \/ \E p \in Headless : NextRun(p)

KeysSpec == KeysInit /\ [][KeysNext]_keysVars

-----------------------------------------------------------------------------
(* check_server_key: a key is trusted, now or in a later session, only if  *)
(* the user has said yes to it or an earlier decision is on file, however  *)
(* late the answer, and whatever prompt it was meant for.  A scheduled run *)
(* that accepts new keys says yes itself.                                  *)
OnlyConsentedAreTrusted ==
  /\ file \subseteq consented
  /\ \A p \in Processes : memory[p] \subseteq consented
  /\ \A h \in Handshakes : stage[h] \in {"add", "append", "trusted"} => offer[h] \in consented

(* add and remove: once the window's writers have written, the file says   *)
(* what the window's memory says, unless one of them failed or two writers *)
(* overlapped.  What scheduled runs have added is the one difference: the  *)
(* window does not see it before it starts again, and a key removed in the *)
(* settings before that takes it out of the file.                          *)
FileFollowsMemory == ~Writing /\ ~parted => file = memory[Window] \cup unseen
=============================================================================
