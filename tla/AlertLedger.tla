----------------------------- MODULE AlertLedger -----------------------------
(***************************************************************************)
(* What the receivers of notifications are promised about one family of    *)
(* subjects (the monitors, or the trend rules of the status board).  The   *)
(* ledger keeps, per subject, the last event announced and whether an      *)
(* operator has since reset the stored state ("reopened"); entries counts  *)
(* the announcements, so that no announcement can pass for a stutter.      *)
(* Several subjects may move in one step: one execution of a monitor       *)
(* announces its own event and those of every trend rule it feeds.         *)
(***************************************************************************)
EXTENDS Naturals

CONSTANTS
  Subjects,  \* what events are about
  Repeats    \* subjects that may announce a trigger again while it stands

VARIABLE book

Page == [last : {"none", "triggered", "recovered"},
         reopened : BOOLEAN,
         entries : Nat]

BlankPage == [last |-> "none", reopened |-> FALSE, entries |-> 0]

Written(page, event) ==
  [last |-> event, reopened |-> FALSE, entries |-> page.entries + 1]

Open(page) == page.last = "triggered" /\ ~page.reopened

-----------------------------------------------------------------------------

Raise(s) ==
  /\ ~Open(book[s])
  /\ book'[s] = Written(book[s], "triggered")

Repeat(s) ==
  /\ s \in Repeats
  /\ book'[s] = Written(book[s], "triggered")

\* A recovery always answers a trigger, even one that was reset meanwhile.
Clear(s) ==
  /\ book[s].last = "triggered"
  /\ book'[s] = Written(book[s], "recovered")

Reopen(s) == book'[s] = [book[s] EXCEPT !.reopened = TRUE]

Entry(s) == Raise(s) \/ Repeat(s) \/ Clear(s) \/ Reopen(s) \/ book'[s] = book[s]

-----------------------------------------------------------------------------

Init == book = [s \in Subjects |-> BlankPage]

Next ==
  /\ book' \in [Subjects -> Page]
  /\ \A s \in Subjects : Entry(s)

Spec == Init /\ [][Next]_book
=============================================================================
