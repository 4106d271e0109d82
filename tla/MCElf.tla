-------------------------------- MODULE MCElf --------------------------------
(* Three programs for the loader: one whose entry point is in its second loadable
   segment, behind a header that is not loadable; one with an empty segment and an
   entry point in no segment; one that elf_validate refuses. *)
EXTENDS Elf

MCPhdr(load, vaddr, memsz) == [load |-> load, vaddr |-> vaddr, memsz |-> memsz]

MCFiles ==
    { [valid |-> TRUE, e_entry |-> 22,
       phdr |-> <<MCPhdr(TRUE, 16, 4), MCPhdr(FALSE, 0, 9), MCPhdr(TRUE, 20, 6)>>],
      [valid |-> TRUE, e_entry |-> 0, phdr |-> <<MCPhdr(TRUE, 16, 0)>>],
      [valid |-> FALSE, e_entry |-> 22, phdr |-> <<>>] }
=============================================================================
