--------------------------- MODULE PrivateMemory ---------------------------
(* What an address space promises its process: private memory that changes  *)
(* only while a thread of the process runs or a tracer writes to it, becomes *)
(* what it was at first where a thread gives it up (MADV_DONTNEED), and is   *)
(* copied by fork at one moment.                                            *)
CONSTANTS Mm,               \* address spaces
          Page,             \* pages
          Value             \* contents of a page

VARIABLES memory,           \* memory[m]: the pages of a process's address space m
          first,            \* first[p]: content of page p before any write
          written,          \* the address spaces that somebody may write to
          discarded         \* those in which a thread gives pages up

MemoryInit == /\ first \in [Page -> Value]
              /\ \E m \in Mm : memory = [n \in {m} |-> first]

Store(m, p, v) == memory' = [memory EXCEPT ![m][p] = v]
Copy(m, n) == memory' = [k \in DOMAIN memory \cup {n} |-> IF k = n THEN memory[m] ELSE memory[k]]
End(m) == memory' = [k \in DOMAIN memory \ {m} |-> memory[k]]

MemoryNext == /\ \E m \in DOMAIN memory :
                    \/ m \in written /\ \E p \in Page, v \in Value : Store(m, p, v)
                    \/ m \in discarded /\ \E p \in Page : Store(m, p, first[p])
                    \/ \E n \in Mm \ DOMAIN memory : Copy(m, n)
                    \/ End(m)
              /\ UNCHANGED first

MemorySpec == MemoryInit /\ [][MemoryNext]_<<memory, first>>
=============================================================================
