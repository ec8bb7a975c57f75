----------------------------- MODULE Deployment -----------------------------
(***************************************************************************)
(* scripts/deploy_ito.py: the calls by which an operator builds the image  *)
(* and brings the nodes of an inventory up or down, one docker command per *)
(* node.  Commands fail, before or after they took effect, and the         *)
(* operator may interrupt a call.                                          *)
(***************************************************************************)
EXTENDS Naturals, FiniteSetsExt

CONSTANT MaxNode   \* the inventory lists the nodes 1 .. MaxNode, in this order

ASSUME DeployAssumption == MaxNode \in Nat

Nodes == 1 .. MaxNode
Operations == {"plan", "build", "deploy", "status", "down"}

VARIABLES
  services,        \* node -> are its containers up?
  built,           \* has the image been built?
  call             \* the call: [at, action, execute, inventory, selected, todo, before]

deployVars == <<services, built, call>>

\* What the inventory says of a node; "bare" is a valid one without docker_context.
Inventories == [Nodes -> {"good", "invalid", "bare"}]

NoCall == [at |-> "none", action |-> "plan", execute |-> FALSE,
           inventory |-> [n \in Nodes |-> "good"], selected |-> {}, todo |-> {}]

DeployInit ==
  /\ services = [n \in Nodes |-> FALSE]
  /\ built = FALSE
  /\ call = NoCall

\* Every node of the inventory has the fields main asks for, selected or not.
Valid(inventory) == \A n \in Nodes : inventory[n] # "invalid"

\* main, up to the first command; no --node selects every node
Invoke(action, execute, inventory, selected) ==
  /\ call = NoCall
  /\ call' = [at |-> IF ~Valid(inventory) \/ selected = {} THEN "failed"
                     ELSE IF action \in {"plan", "build"} THEN "build" ELSE "visit",
              action |-> action, execute |-> execute, inventory |-> inventory,
              selected |-> selected, todo |-> selected, before |-> <<services, built>>]
  /\ UNCHANGED <<services, built>>

\* run: the command is only shown without --execute, and a failure ends the call.
Build(succeeds) ==
  /\ call.at = "build"
  /\ succeeds \/ call.execute
  /\ built' = (built \/ (call.execute /\ succeeds))
  /\ call' = [call EXCEPT !.at = IF ~succeeds THEN "failed"
                                 ELSE IF call.action = "build" THEN "done" ELSE "visit"]
  /\ UNCHANGED services

\* compose_command: up, down, or ps, which changes nothing
Commanded(n) ==
  CASE call.action = "deploy" -> [services EXCEPT ![n] = TRUE]
    [] call.action = "down" -> [services EXCEPT ![n] = FALSE]
    [] OTHER -> services

\* Mutant: a command that fails is passed over.
VisitRegardless(succeeds, effective) ==
  LET n == Min(call.todo)
  IN /\ call.at = "visit"
     /\ succeeds => effective
     /\ services' = IF call.execute /\ effective THEN Commanded(n) ELSE services
     /\ call' = [call EXCEPT !.todo = @ \ {n}, !.at = IF call.todo = {n} THEN "done" ELSE @]
     /\ UNCHANGED built

\* One node of the loop.  A node without docker_context raises before its command.
Visit(succeeds, effective) ==
  LET n == Min(call.todo)
  IN /\ call.at = "visit"
     /\ IF call.inventory[n] = "bare" THEN ~succeeds /\ ~effective
        ELSE IF call.execute THEN succeeds => effective
        ELSE succeeds /\ ~effective
     /\ services' = IF effective THEN Commanded(n) ELSE services
     /\ call' = [call EXCEPT !.todo = @ \ {n},
                             !.at = IF ~succeeds THEN "failed"
                                    ELSE IF call.todo = {n} THEN "done" ELSE @]
     /\ UNCHANGED built

\* Between two commands; during one, the command fails.
InterruptCall ==
  /\ call.at \in {"build", "visit"}
  /\ call' = [call EXCEPT !.at = "failed"]
  /\ UNCHANGED <<services, built>>

\* The process exits.
Exit ==
  /\ call.at \in {"done", "failed"}
  /\ call' = NoCall
  /\ UNCHANGED <<services, built>>

DeployNext ==
  \/ \E action \in Operations, execute \in BOOLEAN, inventory \in Inventories,
        selected \in SUBSET Nodes : Invoke(action, execute, inventory, selected)
  \/ \E succeeds \in BOOLEAN : Build(succeeds)
  \/ \E succeeds, effective \in BOOLEAN : Visit(succeeds, effective)
  \/ InterruptCall \/ Exit

DeploySpec == DeployInit /\ [][DeployNext]_deployVars

-----------------------------------------------------------------------------
(* Properties                                                              *)

\* Wherever an executed call stops, the inventory's order tells what it did: there is a
\* place in it with the selected nodes before it as asked and everything after it as before
\* the call; a call that succeeded has none left, and one that read an invalid node, selected
\* or not, has changed nothing (the validation and the loop of main, its exit status).
CallIsAPrefix ==
  LET asked == call.action = "deploy"
      Reached(last) ==
        \A n \in Nodes :
          /\ n < last /\ n \in call.selected => services[n] = asked
          /\ n > last \/ n \notin call.selected => services[n] = call.before[1][n]
  IN /\ (\E n \in Nodes : call.inventory[n] = "invalid") => call.before = <<services, built>>
     /\ call.execute /\ call.action \in {"deploy", "down"} =>
          IF call.at = "done" THEN Reached(MaxNode + 1)
          ELSE \E last \in 0 .. MaxNode : Reached(last)
=============================================================================
