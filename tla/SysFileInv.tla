----------------------------- MODULE SysFileInv -----------------------------
(***************************************************************************)
(* The inductive invariants of module SysFile, that modules SysFileSteps,  *)
(* SysFileLinks and SysFileProofs prove: SysInv, of references, locks and  *)
(* transactions, and LinkInv, of links.                                    *)
(*                                                                         *)
(* The facts about numbers of references and links that the lemmas about   *)
(* steps need are stated here, as Counting and LinkCounting, and proved in *)
(* SysFileProofs.                                                          *)
(***************************************************************************)
EXTENDS SysFile

\* Where the call of a process goes on: inode_put may free an i-node first.
At(t) == IF t.pc = "free" THEN t.kont ELSE t.pc

\* The calls that begin their transaction before they look up a parent.
Writes(call) == call \in {"create", "mkdir", "link2"}

HasIp(t) == At(t) \in {"close", "walk", "walking", "found", "locked", "exists", "existing",
                       "created", "victim", "unlinking", "unlinked"}
HasDp(t) == At(t) \in {"victim", "unlinking", "unlink_bad"}
HasOld(t) == \/ At(t) \in {"linked", "undo", "undoing"}
             \/ At(t) \in {"walk", "walking", "fail", "found", "locked"} /\ t.call = "link2"

\* The call has locked i-node i.
Locked(t, i) ==
  \/ i = t.ip /\ At(t) \in {"walking", "locked", "existing", "created", "unlinking",
                            "unlinked", "commit"}
  \/ i = t.dp
  \/ i = t.old /\ At(t) = "undoing"

\* So has inode_put the one it frees.
Holds(t, i) == i = t.vic \/ Locked(t, i)

\* The references a process has at each point of its call, and where it can be.
WellFormed(t) ==
  /\ t \in Thread
  /\ t.pc = "free" <=> t.vic # None
  /\ t.vic # None => ~Locked(t, t.vic)
  /\ t.pc # "free" => t.kont = "none"
  /\ At(t) \in PC \ {"free"}
  /\ HasIp(t) => t.ip # None
  /\ t.ip # None => HasIp(t) \/ At(t) = "commit"
  /\ HasDp(t) <=> t.dp # None
  /\ HasOld(t) <=> t.old # None
  /\ At(t) = "idle" => t.call = "none" /\ t.elems = <<>>
  /\ At(t) \in {"walk", "walking", "fail", "found", "locked"} => t.call # "none"
  /\ At(t) \in {"exists", "existing", "created"} => t.call \in {"create", "mkdir"}
  /\ At(t) = "walking" => t.elems # <<>>
  /\ At(t) \in {"found", "locked"} /\ Parent(t.call) => t.elems # <<>>
  /\ At(t) \in {"victim", "unlinking"} => t.elems # <<>>
  /\ At(t) = "unlinking" => t.ip # t.dp
  /\ At(t) = "commit" /\ t.ip # None => t.call = "create"

\* It is in a transaction.  sys_unlink and sys_link begin theirs at "found".
InTrans(t) ==
  \/ At(t) \in {"commit", "exists", "existing", "created", "victim", "unlinking",
                "unlink_bad", "unlinked", "linked", "undo", "undoing"}
  \/ At(t) \in {"walk", "walking", "fail", "found"} /\ Writes(t.call)
  \/ At(t) = "locked" /\ t.call \notin {"open", "chdir"}

MayTrans(t) == InTrans(t) \/ (At(t) = "found" /\ t.call \in {"unlink", "link"})

\* A process in a call, not in inode_put.
IsAt(t, pc, call, elems, ip, dp, old) ==
  /\ t \in Thread /\ t.pc = pc /\ t.call = call /\ t.elems = elems
  /\ t.ip = ip /\ t.dp = dp /\ t.old = old /\ t.vic = None /\ t.kont = "none"

\* The references to i-node i, by where they are.
Slots == {"ip", "dp", "old", "vic"}
Locals(i) == {x \in Proc \X Slots : th[x[1]][x[2]] = i}
Files(i) == {x \in OpenFiles : fds[x[1]][x[2]] = i}
Cwds(i) == {p \in Proc : cwd[p] = i}

Count(i) == (IF i = ROOTINO THEN 1 ELSE 0)
            + Cardinality(Cwds(i)) + Cardinality(Files(i)) + Cardinality(Locals(i))

SysInv ==
  /\ Types
  /\ \A p \in Proc : WellFormed(th[p])
  /\ \A p \in Proc, i \in Inum : ic.lock[i] = p <=> Holds(th[p], i)
  /\ \A p \in Proc : /\ InTrans(th[p]) => trans = p
                     /\ trans = p => MayTrans(th[p])
  /\ \A i \in Inum : ic.ref[i] = Count(i)
  /\ \A i \in ic.valid : fs.type[i] # "free"
  /\ \A i \in Inum : ic.lock[i] # NoProc => i \in ic.valid
  /\ panic # "inode_put:busy"
-----------------------------------------------------------------------------
(* Counting references.                                                    *)

One(b) == IF b THEN 1 ELSE 0

\* The references of one process in the locals of its call.
Uses(t, i) == One(t.ip = i) + One(t.dp = i) + One(t.old = i) + One(t.vic = i)

\* The locals of process p become t, and its current directory w.
Recount(p, t, w) ==
  \A i \in Inum :
    /\ Count(i) \in Nat /\ Count(i)' \in Nat
    /\ Count(i)' = Count(i) - Uses(th[p], i) + Uses(t, i) - One(cwd[p] = i) + One(w = i)

CountStep ==
  \A p \in Proc, t \in Thread, w \in Inum :
    th' = [th EXCEPT ![p] = t] /\ cwd' = [cwd EXCEPT ![p] = w] /\ fds' = fds => Recount(p, t, w)

\* The locals of process p become t, and its descriptor d becomes v.
RecountFile(p, t, d, v) ==
  \A i \in Inum :
    /\ Count(i) \in Nat /\ Count(i)' \in Nat
    /\ Count(i)' = Count(i) - Uses(th[p], i) + Uses(t, i) - One(fds[p][d] = i) + One(v = i)

CountFileStep ==
  \A p \in Proc, t \in Thread, d \in 1 .. NOFILE, v \in Inum \cup {None} :
    th' = [th EXCEPT ![p] = t] /\ cwd' = cwd /\ fds' = [fds EXCEPT ![p][d] = v]
      => RecountFile(p, t, d, v)

\* An i-node in a call has a reference, and one in two places has two.
OneRef == \A i \in Inum : Locals(i) # {} => Count(i) # 0
TwoRefs == \A i \in Inum : \A x, y \in Locals(i)' : x # y => Count(i)' >= 2

LeastNumber == \A X \in SUBSET Nat : X # {} => \E x \in X : \A y \in X : x <= y

Counting == CountStep /\ CountFileStep /\ OneRef /\ TwoRefs /\ LeastNumber
-----------------------------------------------------------------------------
(* Links: every name of an i-node, every subdirectory of it and every call *)
(* that has counted a link it has not made yet, or cleared an entry it has *)
(* not discounted yet, is counted in nlink.                                *)

\* The call of t accounts for a link of i-node i that is no entry.
Counted(t, i) ==
  \/ At(t) = "unlinked" /\ t.ip = i
  \/ HasOld(t) /\ At(t) # "linked" /\ t.old = i

\* The entries that lead to i-node i, those of i that lead to directories, and
\* the processes whose calls account for a link of i.
Names(i) == {x \in Inum \X Name : fs.type[x[1]] = "dir" /\ fs.ent[x[1]][x[2]] = i}
Subs(i) == {n \in Name : /\ fs.type[i] = "dir" /\ fs.ent[i][n] # None
                         /\ fs.type[fs.ent[i][n]] = "dir"}
Calls(i) == {p \in Proc : Counted(th[p], i)}

Links(i) == Cardinality(Names(i)) + Cardinality(Subs(i)) + Cardinality(Calls(i))

\* A process that is freeing i-node i need not mind one at t.
Apart(t, i) ==
  /\ t.dp # i /\ t.old # i
  /\ t.ip = i => /\ At(t) \in {"walk", "found", "exists"}
                 /\ At(t) = "found" => ~Parent(t.call)

Clear(p, i) == cwd[p] # i /\ (\A d \in 1 .. NOFILE : fds[p][d] # i) /\ Apart(th[p], i)

\* What a call knows, at t, about i-nodes f it has looked at.
Typed(t, f) ==
  /\ At(t) \in {"found", "locked"} /\ Parent(t.call) => f.type[t.ip] = "dir"
  /\ At(t) \in {"victim", "unlinking"} =>
       f.type[t.dp] = "dir" /\ Head(t.elems) \in Name /\ f.ent[t.dp][Head(t.elems)] = t.ip
  /\ HasOld(t) /\ At(t) # "linked" => f.type[t.old] = "file"
  /\ At(t) = "close" => f.type[t.ip] # "free"

FilesTyped(p) ==
  /\ fs.type[cwd[p]] = "dir"
  /\ \A d \in 1 .. NOFILE : fds[p][d] # None => fs.type[fds[p][d]] # "free"

LinkInv ==
  /\ \A i \in Inum : fs.nlink[i] >= Links(i)
  /\ \A i \in Inum : fs.type[i] = "free" => Names(i) = {} /\ Calls(i) = {}
  /\ \A q \in Proc : th[q].pc = "free" =>
       fs.nlink[th[q].vic] = 0 /\ \A p \in Proc : Clear(p, th[q].vic)
  /\ \A p \in Proc : FilesTyped(p) /\ Typed(th[p], fs)
  /\ panic # "unlink:nlink<1"

\* How the number of links of i-node i changes with what it counts.
LinkRecount(i) ==
  /\ Links(i) \in Nat /\ Links(i)' \in Nat
  /\ Links(i) = 0 <=> Names(i) = {} /\ Subs(i) = {} /\ Calls(i) = {}
  /\ Names(i)' \subseteq Names(i) /\ Subs(i)' \subseteq Subs(i) =>
       /\ Calls(i)' \subseteq Calls(i) => Links(i)' <= Links(i)
       /\ \A x : Calls(i)' \subseteq Calls(i) \cup {x} => Links(i)' <= Links(i) + 1
       /\ \A x \in Calls(i) : Calls(i)' \subseteq Calls(i) \ {x} => Links(i)' + 1 <= Links(i)
  /\ Names(i)' \subseteq Names(i) /\ Calls(i)' \subseteq Calls(i) =>
       /\ \A x : Subs(i)' \subseteq Subs(i) \cup {x} => Links(i)' <= Links(i) + 1
       /\ \A x \in Subs(i) : Subs(i)' \subseteq Subs(i) \ {x} => Links(i)' + 1 <= Links(i)
  /\ Subs(i)' \subseteq Subs(i) =>
       /\ \A x : Names(i)' \subseteq Names(i) \cup {x} =>
            /\ Calls(i)' \subseteq Calls(i) => Links(i)' <= Links(i) + 1
            /\ \A y \in Calls(i) : Calls(i)' \subseteq Calls(i) \ {y} => Links(i)' <= Links(i)
       /\ \A x \in Names(i) : Names(i)' \subseteq Names(i) \ {x} =>
            \A y : Calls(i)' \subseteq Calls(i) \cup {y} => Links(i)' <= Links(i)

\* Who frees an i-node has the last reference to it.
SoleRef ==
  \A p \in Proc, i \in Inum :
    th'[p].vic = i /\ ic'.ref[i] = 1 => \A q \in Proc : Clear(q, i)'

LinkCounting == SoleRef /\ LeastNumber /\ \A i \in Inum : LinkRecount(i)
=============================================================================
