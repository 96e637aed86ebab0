------------------------------ MODULE HookFile ------------------------------
(***************************************************************************)
(* The marked block in a startup file that is not the shim's own:          *)
(* node/shim/install.sh, block_shape(), strip_block(), prepend_block() and *)
(* what the uninstall makes of the file.                                   *)
(*                                                                         *)
(* A file is the sequence of its lines; a line is the marker that opens    *)
(* the block, the one that closes it, a line of the hook or a user's.      *)
(***************************************************************************)
EXTENDS Integers, Sequences

CONSTANTS
    UserLine    \* lines that are not the shim's

BEGIN == "begin"
END == "end"

\* bashrc_block() and zshenv_block().
Block == <<BEGIN, "hook", END>>

Line == {BEGIN, END, "hook"} \cup UserLine

-----------------------------------------------------------------------------
(* The file as the installer reads and writes it. *)

\* Bug: a second opening marker before the first is closed is let pass.
ReadMarkerLast(s, line) ==
    CASE line = BEGIN -> [open |-> TRUE, shape |-> "matched"]
      [] line = END -> [s EXCEPT !.open = FALSE]
      [] OTHER -> s

\* One line of block_shape(): an opening marker in an open block decides.
ReadMarker(s, line) ==
    IF s.shape = "unmatched" \/ line \notin {BEGIN, END} THEN s
    ELSE IF line = END THEN [s EXCEPT !.open = FALSE]
    ELSE [open |-> TRUE, shape |-> IF s.open THEN "unmatched" ELSE "matched"]

BlockShape(file) ==
    LET read[i \in 0..Len(file)] ==
            IF i = 0 THEN [open |-> FALSE, shape |-> "none"]
            ELSE ReadMarker(read[i - 1], file[i])
        last == read[Len(file)]
    IN  IF last.open THEN "unmatched" ELSE last.shape

\* One line of the awk of strip_block(): the line that closes a block goes with
\* it, and one that closes none stays.
Skip(s, line) ==
    LET dropped == line = BEGIN \/ s.skip
    IN  [skip |-> dropped /\ line # END,
         out |-> IF dropped THEN s.out ELSE Append(s.out, line)]

StripBlock(file) ==
    LET awk[i \in 0..Len(file)] ==
            IF i = 0 THEN [skip |-> FALSE, out |-> << >>] ELSE Skip(awk[i - 1], file[i])
    IN  IF BlockShape(file) # "matched" THEN file ELSE awk[Len(file)].out

\* prepend_block() refuses a file it could not strip, with nothing written.
Refused(file) == BlockShape(file) = "unmatched"
PrependBlock(file) == IF Refused(file) THEN file ELSE Block \o StripBlock(file)

\* The files an install can leave: it renames one into place twice.
InstallLeaves(file) ==
    {file, PrependBlock(file)} \cup (IF Refused(file) THEN {} ELSE {StripBlock(file)})

\* uninstall_outcome() and the arm that acts on it; 8 says that the block is
\* still there.
Uninstall(file) ==
    [file |-> StripBlock(file),
     status |-> IF BlockShape(file) = "unmatched" THEN 8 ELSE 0]

-----------------------------------------------------------------------------
(* What it promises. *)

\* A block is an opening marker, the first closing one after it and the lines
\* between, none of which opens another.
InBlock(file, i) ==
    \E b \in 1..i : \E e \in i..Len(file) :
        /\ file[b] = BEGIN /\ file[e] = END
        /\ \A n \in b + 1..e - 1 : file[n] \notin {BEGIN, END}

\* A marker that opens no block: where it would end is nobody's to say.
Unclosed(file) == \E i \in DOMAIN file : file[i] = BEGIN /\ ~InBlock(file, i)

\* The lines that are not the shim's, in their order.
Users(file) ==
    LET upTo[i \in 0..Len(file)] ==
            IF i = 0 THEN << >>
            ELSE IF InBlock(file, i) THEN upTo[i - 1]
            ELSE Append(upTo[i - 1], file[i])
    IN  upTo[Len(file)]

\* No install, finished or stopped between its writes, and no uninstall takes
\* or moves a line that is not the shim's; a file with a marker nobody closed
\* is left as it is and said; and whatever an install left, the next one ends
\* with exactly one block and an uninstall with none.
\* node/shim/install.sh:1057-1074.
UsersLinesKept(file) ==
    IF Unclosed(file)
    THEN InstallLeaves(file) = {file} /\ Refused(file)
         /\ Uninstall(file) = [file |-> file, status |-> 8]
    ELSE \A left \in InstallLeaves(file) :
            /\ ~Unclosed(left)
            /\ Users(left) = Users(file)
            /\ PrependBlock(left) = Block \o Users(file)
            /\ Uninstall(left) = [file |-> Users(file), status |-> 0]
=============================================================================
