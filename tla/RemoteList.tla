----------------------------- MODULE RemoteList -----------------------------
(***************************************************************************)
(* What the server of lab 4 promises: a sequence of numbers, and one       *)
(* command at a time that is taken, executed on the sequence and answered  *)
(* once.  An index or an end that does not exist changes nothing.          *)
(***************************************************************************)
EXTENDS Integers, Sequences, SequencesExt

CONSTANTS Commands,  \* records of a name, an index and a value
          NoCommand, NoReply

VARIABLES elements, command, reply, up

vars == <<elements, command, reply, up>>

Init == elements = <<>> /\ command = NoCommand /\ reply = NoReply /\ up = TRUE

Position(i) == i \in 0..Len(elements) - 1

(* The place in the sequence that a command removes, 0 for none. *)
Removed(c) == CASE c.name = "remove_front" -> IF elements = <<>> THEN 0 ELSE 1
                [] c.name = "remove_back" -> Len(elements)
                [] c.name = "remove_position" -> IF Position(c.index) THEN c.index + 1 ELSE 0
                [] OTHER -> 0

After(c) == CASE c.name = "add_front" -> InsertAt(elements, 1, c.value)
              [] c.name = "add_back" -> Append(elements, c.value)
              [] c.name = "add_position" /\ c.index \in 0..Len(elements) ->
                   InsertAt(elements, c.index + 1, c.value)
              [] Removed(c) # 0 -> RemoveAt(elements, Removed(c))
              [] OTHER -> elements

Result(c) == CASE c.name = "get_length" -> <<Len(elements)>>
               [] c.name = "print" -> elements
               [] c.name = "get" -> IF Position(c.index) THEN <<elements[c.index + 1]>> ELSE <<-1>>
               [] c.name \in {"remove_front", "remove_back", "remove_position"} ->
                    IF Removed(c) = 0 THEN <<-1>> ELSE <<elements[Removed(c)]>>
               [] c.name \in {"add_front", "add_back", "add_position"} -> <<c.value>>
               [] OTHER -> <<>>

Take == /\ up /\ command = NoCommand
        /\ command' \in Commands
        /\ UNCHANGED <<elements, reply, up>>

Execute == /\ up /\ command # NoCommand
           /\ elements' = After(command)
           /\ reply' = [name |-> command.name, result |-> Result(command)]
           /\ command' = NoCommand
           /\ UNCHANGED up

(* The server ends with its elements. *)
Down == /\ up /\ up' = FALSE
        /\ elements' = <<>> /\ command' = NoCommand /\ reply' = NoReply

Next == Take \/ Execute \/ Down

Spec == Init /\ [][Next]_vars
=============================================================================
