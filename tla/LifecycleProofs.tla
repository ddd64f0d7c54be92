-------------------------- MODULE LifecycleProofs --------------------------
(***************************************************************************)
(* Proofs about loading and unloading: whichever acquisitions may fail, and *)
(* however many work items may be queued, lfw_mod_init, its error paths and *)
(* lfw_mod_exit keep what the others use, and leave nothing behind.         *)
(***************************************************************************)
EXTENDS Lifecycle, TLAPS

-----------------------------------------------------------------------------
(* The inductive invariant.                                                *)

Items(s) == {s[i] : i \in DOMAIN s}

\* What lfw_mod_init acquires, and the steps of lfw_mod_exit that only wait.
Acquired == {"state", "family", "bg", "bg_mem", "bg_tree", "hcf", "hcf_mem", "hcf_wq",
             "hcf_tree", "log", "ring", "log_wq", "rpage", "timer", "dev",
             "filter_ops", "learn_ops"}
Item == Acquired \cup {"hooks_done", "hcf_sync", "bg_sync"}

\* The position of a resource in lfw_mod_init.
Up(x) ==
  CASE x = "state"    -> 1  [] x = "family" -> 2  [] x = "bg"      -> 3
    [] x = "bg_mem"   -> 4  [] x = "bg_tree" -> 5 [] x = "hcf"     -> 6
    [] x = "hcf_mem"  -> 7  [] x = "hcf_wq" -> 8  [] x = "hcf_tree" -> 9
    [] x = "log"      -> 10 [] x = "ring"   -> 11 [] x = "log_wq"  -> 12
    [] x = "rpage"    -> 13 [] x = "timer"  -> 14 [] x = "dev"     -> 15
    [] x = "filter_ops" -> 16 [] OTHER -> 17

\* The position of a step in lfw_mod_exit, of which every error path is a part.
Down(x) ==
  CASE x = "filter_ops" -> 1 [] x = "learn_ops" -> 2 [] x = "hooks_done" -> 3
    [] x = "dev"      -> 4  [] x = "timer"  -> 5  [] x = "rpage"   -> 6
    [] x = "log_wq"   -> 7  [] x = "ring"   -> 8  [] x = "log"     -> 9
    [] x = "hcf_wq"   -> 10 [] x = "hcf_tree" -> 11 [] x = "hcf_sync" -> 12
    [] x = "hcf_mem"  -> 13 [] x = "hcf"    -> 14 [] x = "bg_tree" -> 15
    [] x = "bg_sync"  -> 16 [] x = "bg_mem" -> 17 [] x = "bg"      -> 18
    [] x = "family"   -> 19 [] OTHER -> 20

Rising(s) == \A i, j \in DOMAIN s : i < j => Up(s[i]) < Up(s[j])
Falling(s) == \A i, j \in DOMAIN s : i < j => Down(s[i]) < Down(s[j])

\* What is still to be acquired is all that comes after any part of it.
Rest(T) == \A x \in T, y \in Acquired : Up(x) < Up(y) => y \in T

\* What is still to be released has, with a step, those that must come later.
Closed(T) ==
  /\ "filter_ops" \in T \/ "learn_ops" \in T => "hooks_done" \in T
  /\ "hooks_done" \in T => (Acquired \ {"filter_ops", "learn_ops"}) \cup {"hcf_sync"} \subseteq T
  /\ "timer" \in T => {"log_wq", "log"} \subseteq T
  /\ "log_wq" \in T => {"ring", "log", "family"} \subseteq T
  /\ "hcf_wq" \in T => {"hcf", "hcf_mem", "family"} \subseteq T
  /\ "hcf_sync" \in T => {"hcf_mem", "hcf", "bg_tree", "bg", "state"} \subseteq T
  /\ "family" \in T => "state" \in T

Ended == phase \in {"failed", "gone"}

TodoOK ==
  /\ todo \in Seq(Item)
  /\ phase = "loading" => todo # <<>> /\ Rising(todo) /\ Rest(Items(todo)) /\ Items(todo) \subseteq Acquired
  /\ phase = "loaded" \/ Ended => todo = <<>>
  /\ phase \in {"failing", "unloading"} => Falling(todo) /\ Closed(Items(todo))
  /\ phase = "failing" => "learn_ops" \notin Items(todo)

\* What the entry points have acquired and not yet released.
Due ==
  IF phase \in {"loading", "loaded"} THEN Acquired \ Items(todo)
  ELSE Items(todo) \cap Acquired

\* A command may have brought a tree, a page may be missing.
HeldOK ==
  /\ Due \subseteq held \cup {x \in {"rpage"} : x \in gaps}
  /\ held \subseteq Due \cup {"text", "bg_tree", "hcf_tree"}
  /\ "command" \notin gaps => held \subseteq Due \cup {"text"}
  /\ "text" \in held <=> ~Ended

\* Who runs, and what keeps what it needs in place.  The filter hook may run
\* before the learn hook is registered, and while that failure is undone.
ActorsOK ==
  /\ hooks # {} => ~Ended
  /\ "learn" \in hooks => phase \in {"loaded", "unloading"}
  /\ hooks # {} /\ phase = "loading" => "filter_ops" \notin Items(todo)
  /\ hooks # {} /\ phase = "failing" => "hcf_sync" \in Items(todo)
  /\ hooks # {} /\ waits /\ phase = "unloading" => "hooks_done" \in Items(todo)
  /\ cmd # "none" => "family" \in held
  /\ cmd \in {"set_bogon", "set_history"} /\ phase # "loaded" => "command" \in gaps
  /\ bad = {} => /\ queued > 0 \/ learning => "hcf_wq" \in held
                 /\ learning => "hcf_tree" \in held
                 /\ flushq \/ flushing => "log_wq" \in held

Inv == TypeOK /\ waits \in BOOLEAN /\ TodoOK /\ HeldOK /\ ActorsOK
       /\ OrderIsSafe /\ FlushKeepsRing /\ CleanEnd

-----------------------------------------------------------------------------
(* The lists of what is acquired and released.                             *)

\* s has the items of T, each once, in the order of lfw_mod_init.
Climbs(s, T) == s \in Seq(Item) /\ Items(s) = T /\ Rising(s)

\* In the order of lfw_mod_exit.
Drops(s, T) == s \in Seq(Item) /\ Items(s) = T /\ Falling(s)

LEMMA ConcatIs ==
  ASSUME NEW s \in Seq(Item), NEW t \in Seq(Item)
  PROVE  /\ s \o t \in Seq(Item)
         /\ Items(s \o t) = Items(s) \cup Items(t)
         /\ \A i \in DOMAIN (s \o t) :
              \/ i \in DOMAIN s /\ (s \o t)[i] = s[i]
              \/ i - Len(s) \in DOMAIN t /\ i \notin DOMAIN s /\ (s \o t)[i] = t[i - Len(s)]
<1>. DEFINE c == s \o t
            m == Len(s)
            n == Len(t)
<1>1. /\ c \in Seq(Item) /\ m \in Nat /\ n \in Nat /\ DOMAIN s = 1..m /\ DOMAIN t = 1..n
      /\ DOMAIN c = 1..(m + n)
      /\ \A i \in 1..(m + n) : c[i] = IF i <= m THEN s[i] ELSE t[i - m]
  OBVIOUS
<1>. HIDE DEF c, m, n
<1>2. ASSUME NEW i \in 1..(m + n)
      PROVE  \/ i \in 1..m /\ c[i] = s[i]
             \/ i - m \in 1..n /\ i \notin 1..m /\ c[i] = t[i - m]
  BY <1>1
<1>3. ASSUME NEW i \in 1..m PROVE i \in 1..(m + n) /\ c[i] = s[i]
  <2>1. i \in 1..(m + n) /\ i <= m
    BY <1>1
  <2>. QED
    BY <1>1, <2>1
<1>4. ASSUME NEW i \in 1..n PROVE i + m \in 1..(m + n) /\ c[i + m] = t[i]
  <2>1. i + m \in 1..(m + n) /\ ~(i + m <= m) /\ (i + m) - m = i
    BY <1>1
  <2>. QED
    BY <1>1, <2>1
<1>5. Items(c) \subseteq Items(s) \cup Items(t)
  BY <1>1, <1>2 DEF Items
<1>6. Items(s) \subseteq Items(c)
  BY <1>1, <1>3 DEF Items
<1>7. Items(t) \subseteq Items(c)
  BY <1>1, <1>4 DEF Items
<1>. QED
  BY <1>1, <1>2, <1>5, <1>6, <1>7 DEF c, m, n

\* A list followed by one that is all later.
LEMMA DropsConcat ==
  ASSUME NEW s, NEW t, NEW S, NEW T, Drops(s, S), Drops(t, T),
         \A x \in S, y \in T : Down(x) < Down(y)
  PROVE  Drops(s \o t, S \cup T)
<1>. DEFINE c == s \o t
            m == Len(s)
<1>1. s \in Seq(Item) /\ t \in Seq(Item)
  BY DEF Drops
<1>2. /\ c \in Seq(Item) /\ Items(c) = S \cup T
      /\ \A i \in DOMAIN c : \/ i \in DOMAIN s /\ c[i] = s[i]
                             \/ i - m \in DOMAIN t /\ i \notin DOMAIN s /\ c[i] = t[i - m]
  BY <1>1, ConcatIs DEF Drops
<1>3. m \in Nat /\ DOMAIN s = 1..m /\ DOMAIN c \subseteq Nat \ {0}
  BY <1>1, <1>2
<1>. HIDE DEF c, m
<1>4. ASSUME NEW i \in DOMAIN c, NEW j \in DOMAIN c, i < j PROVE Down(c[i]) < Down(c[j])
  <2>1. CASE i \in DOMAIN s /\ c[i] = s[i] /\ j \in DOMAIN s /\ c[j] = s[j]
    BY <1>4, <2>1 DEF Drops, Falling
  <2>2. CASE i \in DOMAIN s /\ c[i] = s[i] /\ j - m \in DOMAIN t /\ c[j] = t[j - m]
    <3>1. s[i] \in S /\ t[j - m] \in T
      BY <2>2 DEF Drops, Items
    <3>. QED
      BY <2>2, <3>1
  <2>3. CASE i - m \in DOMAIN t /\ c[i] = t[i - m] /\ j - m \in DOMAIN t /\ c[j] = t[j - m]
    <3>1. i - m < j - m
      BY <1>3, <1>4
    <3>. QED
      BY <2>3, <3>1 DEF Drops, Falling
  <2>4. ~(i - m \in DOMAIN t /\ i \notin DOMAIN s /\ j \in DOMAIN s)
    BY <1>3, <1>4
  <2>. QED
    BY <1>2, <2>1, <2>2, <2>3, <2>4
<1>. QED
  BY <1>2, <1>4 DEF Drops, Falling, c

LEMMA ClimbsConcat ==
  ASSUME NEW s, NEW t, NEW S, NEW T, Climbs(s, S), Climbs(t, T),
         \A x \in S, y \in T : Up(x) < Up(y)
  PROVE  Climbs(s \o t, S \cup T)
<1>. DEFINE c == s \o t
            m == Len(s)
<1>1. s \in Seq(Item) /\ t \in Seq(Item)
  BY DEF Climbs
<1>2. /\ c \in Seq(Item) /\ Items(c) = S \cup T
      /\ \A i \in DOMAIN c : \/ i \in DOMAIN s /\ c[i] = s[i]
                             \/ i - m \in DOMAIN t /\ i \notin DOMAIN s /\ c[i] = t[i - m]
  BY <1>1, ConcatIs DEF Climbs
<1>3. m \in Nat /\ DOMAIN s = 1..m /\ DOMAIN c \subseteq Nat \ {0}
  BY <1>1, <1>2
<1>. HIDE DEF c, m
<1>4. ASSUME NEW i \in DOMAIN c, NEW j \in DOMAIN c, i < j PROVE Up(c[i]) < Up(c[j])
  <2>1. CASE i \in DOMAIN s /\ c[i] = s[i] /\ j \in DOMAIN s /\ c[j] = s[j]
    BY <1>4, <2>1 DEF Climbs, Rising
  <2>2. CASE i \in DOMAIN s /\ c[i] = s[i] /\ j - m \in DOMAIN t /\ c[j] = t[j - m]
    <3>1. s[i] \in S /\ t[j - m] \in T
      BY <2>2 DEF Climbs, Items
    <3>. QED
      BY <2>2, <3>1
  <2>3. CASE i - m \in DOMAIN t /\ c[i] = t[i - m] /\ j - m \in DOMAIN t /\ c[j] = t[j - m]
    <3>1. i - m < j - m
      BY <1>3, <1>4
    <3>. QED
      BY <2>3, <3>1 DEF Climbs, Rising
  <2>4. ~(i - m \in DOMAIN t /\ i \notin DOMAIN s /\ j \in DOMAIN s)
    BY <1>3, <1>4
  <2>. QED
    BY <1>2, <2>1, <2>2, <2>3, <2>4
<1>. QED
  BY <1>2, <1>4 DEF Climbs, Rising, c

LEMMA Lists ==
  /\ Drops(unregister_hooks, {"filter_ops", "learn_ops", "hooks_done", "dev"})
  /\ Drops(free_pkt_filter_log_state, {"timer", "rpage", "log_wq", "ring", "log"})
  /\ Drops(hcf_free_state, {"hcf_wq", "hcf_tree", "hcf_sync", "hcf_mem", "hcf"})
  /\ Drops(lfw_free_bg_state, {"bg_tree", "bg_sync", "bg_mem", "bg"})
<1>1. Drops(unregister_hooks, {"filter_ops", "learn_ops", "hooks_done", "dev"})
  BY DEF unregister_hooks, Drops, Items, Falling, Down, Item, Acquired
<1>2. Drops(free_pkt_filter_log_state, {"timer", "rpage", "log_wq", "ring", "log"})
  BY DEF free_pkt_filter_log_state, Drops, Items, Falling, Down, Item, Acquired
<1>3. Drops(hcf_free_state, {"hcf_wq", "hcf_tree", "hcf_sync", "hcf_mem", "hcf"})
  BY DEF hcf_free_state, Drops, Items, Falling, Down, Item, Acquired
<1>4. Drops(lfw_free_bg_state, {"bg_tree", "bg_sync", "bg_mem", "bg"})
  BY DEF lfw_free_bg_state, Drops, Items, Falling, Down, Item, Acquired
<1>. QED
  BY <1>1, <1>2, <1>3, <1>4

BgItems == {"bg_tree", "bg_sync", "bg_mem", "bg"}
HcfItems == {"hcf_wq", "hcf_tree", "hcf_sync", "hcf_mem", "hcf"}
LogItems == {"timer", "rpage", "log_wq", "ring", "log"}

\* The labels of lfw_init_state and the two ways out of lfw_mod_init.
LEMMA Labels ==
  /\ Drops(err_free_state, {"state"})
  /\ Drops(err_nl_destroy, {"family", "state"})
  /\ Drops(err_free_bg, BgItems \cup {"family", "state"})
  /\ Drops(err_free_hcf, HcfItems \cup (BgItems \cup {"family", "state"}))
  /\ Drops(lfw_free_state, LogItems \cup HcfItems \cup BgItems \cup {"family", "state"})
  /\ Drops(lfw_mod_exit, Item)
<1>1. Drops(err_free_state, {"state"})
  BY DEF err_free_state, Drops, Items, Falling, Down, Item, Acquired
<1>2. Drops(<<"family">>, {"family"})
  BY DEF Drops, Items, Falling, Down, Item, Acquired
<1>3. Drops(err_nl_destroy, {"family", "state"})
  <2>1. Drops(err_nl_destroy, {"family"} \cup {"state"})
    BY <1>1, <1>2, DropsConcat DEF err_nl_destroy, Down
  <2>2. {"family"} \cup {"state"} = {"family", "state"}
    OBVIOUS
  <2>. QED
    BY <2>1, <2>2
<1>4. Drops(err_free_bg, BgItems \cup {"family", "state"})
  <2>1. \A x \in BgItems, y \in {"family", "state"} : Down(x) < Down(y)
    BY DEF BgItems, Down
  <2>. QED
    BY <1>3, <2>1, Lists, DropsConcat DEF err_free_bg, BgItems
<1>5. Drops(err_free_hcf, HcfItems \cup (BgItems \cup {"family", "state"}))
  <2>1. \A x \in HcfItems, y \in BgItems \cup {"family", "state"} : Down(x) < Down(y)
    BY DEF HcfItems, BgItems, Down
  <2>. QED
    BY <1>4, <2>1, Lists, DropsConcat DEF err_free_hcf, HcfItems
<1>6. Drops(lfw_free_state, LogItems \cup HcfItems \cup BgItems \cup {"family", "state"})
  <2>1. \A x \in LogItems, y \in HcfItems : Down(x) < Down(y)
    BY DEF LogItems, HcfItems, Down
  <2>2. Drops(free_pkt_filter_log_state \o hcf_free_state, LogItems \cup HcfItems)
    BY <2>1, Lists, DropsConcat DEF LogItems, HcfItems
  <2>3. \A x \in LogItems \cup HcfItems, y \in BgItems : Down(x) < Down(y)
    BY DEF LogItems, HcfItems, BgItems, Down
  <2>4. Drops(free_pkt_filter_log_state \o hcf_free_state \o lfw_free_bg_state,
              LogItems \cup HcfItems \cup BgItems)
    BY <2>2, <2>3, Lists, DropsConcat DEF BgItems
  <2>5. \A x \in LogItems \cup HcfItems \cup BgItems, y \in {"family", "state"} : Down(x) < Down(y)
    BY DEF LogItems, HcfItems, BgItems, Down
  <2>6. Drops(<<"family", "state">>, {"family", "state"})
    BY DEF Drops, Items, Falling, Down, Item, Acquired
  <2>. QED
    BY <2>4, <2>5, <2>6, DropsConcat DEF lfw_free_state
<1>7. Drops(lfw_mod_exit, Item)
  <2>. DEFINE H == {"filter_ops", "learn_ops", "hooks_done", "dev"}
              T == LogItems \cup HcfItems \cup BgItems \cup {"family", "state"}
  <2>1. \A x \in H, y \in T : Down(x) < Down(y)
    BY DEF LogItems, HcfItems, BgItems, Down
  <2>2. Drops(lfw_mod_exit, H \cup T)
    <3>. HIDE DEF T
    <3>1. Drops(unregister_hooks, H) /\ Drops(lfw_free_state, T)
      BY <1>6, Lists DEF T
    <3>. HIDE DEF H
    <3>. QED
      BY <2>1, <3>1, DropsConcat DEF lfw_mod_exit
  <2>3. H \cup T = Item
    BY DEF LogItems, HcfItems, BgItems, Item, Acquired
  <2>. QED
    BY <2>2, <2>3
<1>. QED
  BY <1>1, <1>3, <1>4, <1>5, <1>6, <1>7

\* lfw_mod_init, in order.
LEMMA InitList == Climbs(lfw_mod_init, Acquired) /\ Resource = {"text"} \cup Acquired
<1>. DEFINE A == {"state", "family"}
            B == {"bg", "bg_mem", "bg_tree"}
            C == {"hcf", "hcf_mem", "hcf_wq", "hcf_tree"}
            D == {"log", "ring", "log_wq", "rpage", "timer"}
            E == {"dev", "filter_ops", "learn_ops"}
<1>1. Climbs(<<"state", "family">>, A) /\ Climbs(init_bg, B) /\ Climbs(init_hcf, C)
      /\ Climbs(init_log, D) /\ Climbs(register_hooks, E)
  <2>1. Climbs(<<"state", "family">>, A)
    BY DEF Climbs, Items, Rising, Up, Item, Acquired
  <2>2. Climbs(init_bg, B)
    BY DEF Climbs, Items, Rising, Up, Item, Acquired, init_bg
  <2>3. Climbs(init_hcf, C)
    BY DEF Climbs, Items, Rising, Up, Item, Acquired, init_hcf
  <2>4. Climbs(init_log, D)
    BY DEF Climbs, Items, Rising, Up, Item, Acquired, init_log
  <2>5. Climbs(register_hooks, E)
    BY DEF Climbs, Items, Rising, Up, Item, Acquired, register_hooks
  <2>. QED
    BY <2>1, <2>2, <2>3, <2>4, <2>5
<1>2. \A x \in A, y \in B : Up(x) < Up(y)
  BY DEF Up
<1>3. \A x \in A \cup B, y \in C : Up(x) < Up(y)
  BY DEF Up
<1>4. \A x \in A \cup B \cup C, y \in D : Up(x) < Up(y)
  BY DEF Up
<1>5. \A x \in A \cup B \cup C \cup D, y \in E : Up(x) < Up(y)
  BY DEF Up
<1>6. A \cup B \cup C \cup D \cup E = Acquired
  BY DEF Acquired
<1>. HIDE DEF A, B, C, D, E
<1>7. Climbs(<<"state", "family">> \o init_bg, A \cup B)
  BY <1>1, <1>2, ClimbsConcat
<1>8. Climbs(<<"state", "family">> \o init_bg \o init_hcf, A \cup B \cup C)
  BY <1>1, <1>3, <1>7, ClimbsConcat
<1>9. Climbs(<<"state", "family">> \o init_bg \o init_hcf \o init_log, A \cup B \cup C \cup D)
  BY <1>1, <1>4, <1>8, ClimbsConcat
<1>10. Climbs(lfw_mod_init, A \cup B \cup C \cup D \cup E)
  BY <1>1, <1>5, <1>9, ClimbsConcat DEF lfw_mod_init
<1>11. Climbs(lfw_mod_init, Acquired)
  BY <1>6, <1>10
<1>12. Resource = {"text"} \cup Acquired
  BY <1>11 DEF Resource, Climbs, Items
<1>. QED
  BY <1>11, <1>12

\* A failed acquisition undoes exactly those before it.
Undoes(r) ==
  LET T == Items(OnError(r))
  IN  /\ Drops(OnError(r), T) /\ T \subseteq Item /\ Closed(T)
      /\ "learn_ops" \notin T
      /\ T \cap Acquired = {x \in Acquired : Up(x) < Up(r)}

LEMMA UndoesFrom ==
  ASSUME NEW r, NEW T, Drops(OnError(r), T), T \subseteq Item, Closed(T),
         "learn_ops" \notin T, T \cap Acquired = {x \in Acquired : Up(x) < Up(r)}
  PROVE  Undoes(r)
  BY DEF Undoes, Drops

LEMMA ErrorUndoes == \A r \in Acquired \ {"rpage", "timer"} : Undoes(r)
<1>1. Undoes("state")
  <2>1. OnError("state") = <<>>
    BY DEF OnError
  <2>2. Drops(OnError("state"), {})
    <3>1. <<>> \in Seq(Item) /\ DOMAIN <<>> = {}
      OBVIOUS
    <3>. QED
      BY <2>1, <3>1 DEF Drops, Items, Falling
  <2>3. Closed({}) /\ {x \in Acquired : Up(x) < Up("state")} = {}
    BY DEF Closed, Acquired, Up
  <2>. QED
    BY <2>2, <2>3, UndoesFrom
<1>2. Undoes("family")
  <2>. DEFINE T == {"state"}
  <2>1. OnError("family") = err_free_state
    BY DEF OnError
  <2>2. Drops(OnError("family"), T)
    BY <2>1, Labels
  <2>3. /\ T \subseteq Item /\ Closed(T) /\ "learn_ops" \notin T
        /\ T \cap Acquired = {x \in Acquired : Up(x) < Up("family")}
    BY DEF Closed, Item, Acquired, Up, BgItems, HcfItems, LogItems
  <2>. QED
    BY <2>2, <2>3, UndoesFrom
<1>3. Undoes("bg")
  <2>. DEFINE T == {"family", "state"}
  <2>1. OnError("bg") = err_nl_destroy
    BY DEF OnError
  <2>2. Drops(OnError("bg"), T)
    BY <2>1, Labels
  <2>3. /\ T \subseteq Item /\ Closed(T) /\ "learn_ops" \notin T
        /\ T \cap Acquired = {x \in Acquired : Up(x) < Up("bg")}
    BY DEF Closed, Item, Acquired, Up, BgItems, HcfItems, LogItems
  <2>. QED
    BY <2>2, <2>3, UndoesFrom
<1>4. Undoes("bg_mem")
  <2>. DEFINE P == {"bg"}
              T == {"family", "state"}
  <2>1. OnError("bg_mem") = <<"bg">> \o err_nl_destroy
    BY DEF OnError
  <2>2. Drops(<<"bg">>, P)
    BY DEF Drops, Items, Falling, Down, Item, Acquired
  <2>3. \A x \in P, y \in T : Down(x) < Down(y)
    BY DEF Down, BgItems, HcfItems, LogItems
  <2>4. Drops(OnError("bg_mem"), P \cup T)
    <3>1. Drops(err_nl_destroy, T)
      BY Labels
    <3>. HIDE DEF P, T
    <3>2. Drops(<<"bg">> \o err_nl_destroy, P \cup T)
      BY <2>2, <2>3, <3>1, DropsConcat
    <3>. QED
      BY <2>1, <3>2
  <2>5. /\ P \cup T \subseteq Item /\ Closed(P \cup T) /\ "learn_ops" \notin P \cup T
        /\ (P \cup T) \cap Acquired = {x \in Acquired : Up(x) < Up("bg_mem")}
    BY DEF Closed, Item, Acquired, Up, BgItems, HcfItems, LogItems
  <2>. QED
    BY <2>4, <2>5, UndoesFrom
<1>5. Undoes("bg_tree")
  <2>. DEFINE P == {"bg_mem", "bg"}
              T == {"family", "state"}
  <2>1. OnError("bg_tree") = <<"bg_mem", "bg">> \o err_nl_destroy
    BY DEF OnError
  <2>2. Drops(<<"bg_mem", "bg">>, P)
    BY DEF Drops, Items, Falling, Down, Item, Acquired
  <2>3. \A x \in P, y \in T : Down(x) < Down(y)
    BY DEF Down, BgItems, HcfItems, LogItems
  <2>4. Drops(OnError("bg_tree"), P \cup T)
    <3>1. Drops(err_nl_destroy, T)
      BY Labels
    <3>. HIDE DEF P, T
    <3>2. Drops(<<"bg_mem", "bg">> \o err_nl_destroy, P \cup T)
      BY <2>2, <2>3, <3>1, DropsConcat
    <3>. QED
      BY <2>1, <3>2
  <2>5. /\ P \cup T \subseteq Item /\ Closed(P \cup T) /\ "learn_ops" \notin P \cup T
        /\ (P \cup T) \cap Acquired = {x \in Acquired : Up(x) < Up("bg_tree")}
    BY DEF Closed, Item, Acquired, Up, BgItems, HcfItems, LogItems
  <2>. QED
    BY <2>4, <2>5, UndoesFrom
<1>6. Undoes("hcf")
  <2>. DEFINE T == BgItems \cup {"family", "state"}
  <2>1. OnError("hcf") = err_free_bg
    BY DEF OnError
  <2>2. Drops(OnError("hcf"), T)
    BY <2>1, Labels
  <2>3. /\ T \subseteq Item /\ Closed(T) /\ "learn_ops" \notin T
        /\ T \cap Acquired = {x \in Acquired : Up(x) < Up("hcf")}
    BY DEF Closed, Item, Acquired, Up, BgItems, HcfItems, LogItems
  <2>. QED
    BY <2>2, <2>3, UndoesFrom
<1>7. Undoes("hcf_mem")
  <2>. DEFINE P == {"hcf"}
              T == BgItems \cup {"family", "state"}
  <2>1. OnError("hcf_mem") = <<"hcf">> \o err_free_bg
    BY DEF OnError
  <2>2. Drops(<<"hcf">>, P)
    BY DEF Drops, Items, Falling, Down, Item, Acquired
  <2>3. \A x \in P, y \in T : Down(x) < Down(y)
    BY DEF Down, BgItems, HcfItems, LogItems
  <2>4. Drops(OnError("hcf_mem"), P \cup T)
    <3>1. Drops(err_free_bg, T)
      BY Labels
    <3>. HIDE DEF P, T
    <3>2. Drops(<<"hcf">> \o err_free_bg, P \cup T)
      BY <2>2, <2>3, <3>1, DropsConcat
    <3>. QED
      BY <2>1, <3>2
  <2>5. /\ P \cup T \subseteq Item /\ Closed(P \cup T) /\ "learn_ops" \notin P \cup T
        /\ (P \cup T) \cap Acquired = {x \in Acquired : Up(x) < Up("hcf_mem")}
    BY DEF Closed, Item, Acquired, Up, BgItems, HcfItems, LogItems
  <2>. QED
    BY <2>4, <2>5, UndoesFrom
<1>8. Undoes("hcf_wq")
  <2>. DEFINE P == {"hcf_mem", "hcf"}
              T == BgItems \cup {"family", "state"}
  <2>1. OnError("hcf_wq") = <<"hcf_mem", "hcf">> \o err_free_bg
    BY DEF OnError
  <2>2. Drops(<<"hcf_mem", "hcf">>, P)
    BY DEF Drops, Items, Falling, Down, Item, Acquired
  <2>3. \A x \in P, y \in T : Down(x) < Down(y)
    BY DEF Down, BgItems, HcfItems, LogItems
  <2>4. Drops(OnError("hcf_wq"), P \cup T)
    <3>1. Drops(err_free_bg, T)
      BY Labels
    <3>. HIDE DEF P, T
    <3>2. Drops(<<"hcf_mem", "hcf">> \o err_free_bg, P \cup T)
      BY <2>2, <2>3, <3>1, DropsConcat
    <3>. QED
      BY <2>1, <3>2
  <2>5. /\ P \cup T \subseteq Item /\ Closed(P \cup T) /\ "learn_ops" \notin P \cup T
        /\ (P \cup T) \cap Acquired = {x \in Acquired : Up(x) < Up("hcf_wq")}
    BY DEF Closed, Item, Acquired, Up, BgItems, HcfItems, LogItems
  <2>. QED
    BY <2>4, <2>5, UndoesFrom
<1>9. Undoes("hcf_tree")
  <2>. DEFINE P == {"hcf_wq", "hcf_mem", "hcf"}
              T == BgItems \cup {"family", "state"}
  <2>1. OnError("hcf_tree") = <<"hcf_wq", "hcf_mem", "hcf">> \o err_free_bg
    BY DEF OnError
  <2>2. Drops(<<"hcf_wq", "hcf_mem", "hcf">>, P)
    BY DEF Drops, Items, Falling, Down, Item, Acquired
  <2>3. \A x \in P, y \in T : Down(x) < Down(y)
    BY DEF Down, BgItems, HcfItems, LogItems
  <2>4. Drops(OnError("hcf_tree"), P \cup T)
    <3>1. Drops(err_free_bg, T)
      BY Labels
    <3>. HIDE DEF P, T
    <3>2. Drops(<<"hcf_wq", "hcf_mem", "hcf">> \o err_free_bg, P \cup T)
      BY <2>2, <2>3, <3>1, DropsConcat
    <3>. QED
      BY <2>1, <3>2
  <2>5. /\ P \cup T \subseteq Item /\ Closed(P \cup T) /\ "learn_ops" \notin P \cup T
        /\ (P \cup T) \cap Acquired = {x \in Acquired : Up(x) < Up("hcf_tree")}
    BY DEF Closed, Item, Acquired, Up, BgItems, HcfItems, LogItems
  <2>. QED
    BY <2>4, <2>5, UndoesFrom
<1>10. Undoes("log")
  <2>. DEFINE T == HcfItems \cup (BgItems \cup {"family", "state"})
  <2>1. OnError("log") = err_free_hcf
    BY DEF OnError
  <2>2. Drops(OnError("log"), T)
    BY <2>1, Labels
  <2>3. /\ T \subseteq Item /\ Closed(T) /\ "learn_ops" \notin T
        /\ T \cap Acquired = {x \in Acquired : Up(x) < Up("log")}
    BY DEF Closed, Item, Acquired, Up, BgItems, HcfItems, LogItems
  <2>. QED
    BY <2>2, <2>3, UndoesFrom
<1>11. Undoes("ring")
  <2>. DEFINE P == {"log"}
              T == HcfItems \cup (BgItems \cup {"family", "state"})
  <2>1. OnError("ring") = <<"log">> \o err_free_hcf
    BY DEF OnError
  <2>2. Drops(<<"log">>, P)
    BY DEF Drops, Items, Falling, Down, Item, Acquired
  <2>3. \A x \in P, y \in T : Down(x) < Down(y)
    BY DEF Down, BgItems, HcfItems, LogItems
  <2>4. Drops(OnError("ring"), P \cup T)
    <3>1. Drops(err_free_hcf, T)
      BY Labels
    <3>. HIDE DEF P, T
    <3>2. Drops(<<"log">> \o err_free_hcf, P \cup T)
      BY <2>2, <2>3, <3>1, DropsConcat
    <3>. QED
      BY <2>1, <3>2
  <2>5. /\ P \cup T \subseteq Item /\ Closed(P \cup T) /\ "learn_ops" \notin P \cup T
        /\ (P \cup T) \cap Acquired = {x \in Acquired : Up(x) < Up("ring")}
    BY DEF Closed, Item, Acquired, Up, BgItems, HcfItems, LogItems
  <2>. QED
    BY <2>4, <2>5, UndoesFrom
<1>12. Undoes("log_wq")
  <2>. DEFINE P == {"ring", "log"}
              T == HcfItems \cup (BgItems \cup {"family", "state"})
  <2>1. OnError("log_wq") = <<"ring", "log">> \o err_free_hcf
    BY DEF OnError
  <2>2. Drops(<<"ring", "log">>, P)
    BY DEF Drops, Items, Falling, Down, Item, Acquired
  <2>3. \A x \in P, y \in T : Down(x) < Down(y)
    BY DEF Down, BgItems, HcfItems, LogItems
  <2>4. Drops(OnError("log_wq"), P \cup T)
    <3>1. Drops(err_free_hcf, T)
      BY Labels
    <3>. HIDE DEF P, T
    <3>2. Drops(<<"ring", "log">> \o err_free_hcf, P \cup T)
      BY <2>2, <2>3, <3>1, DropsConcat
    <3>. QED
      BY <2>1, <3>2
  <2>5. /\ P \cup T \subseteq Item /\ Closed(P \cup T) /\ "learn_ops" \notin P \cup T
        /\ (P \cup T) \cap Acquired = {x \in Acquired : Up(x) < Up("log_wq")}
    BY DEF Closed, Item, Acquired, Up, BgItems, HcfItems, LogItems
  <2>. QED
    BY <2>4, <2>5, UndoesFrom
<1>13. Undoes("dev")
  <2>. DEFINE T == LogItems \cup HcfItems \cup BgItems \cup {"family", "state"}
  <2>1. OnError("dev") = lfw_free_state
    BY DEF OnError
  <2>2. Drops(OnError("dev"), T)
    BY <2>1, Labels
  <2>3. /\ T \subseteq Item /\ Closed(T) /\ "learn_ops" \notin T
        /\ T \cap Acquired = {x \in Acquired : Up(x) < Up("dev")}
    BY DEF Closed, Item, Acquired, Up, BgItems, HcfItems, LogItems
  <2>. QED
    BY <2>2, <2>3, UndoesFrom
<1>14. Undoes("filter_ops")
  <2>. DEFINE P == {"dev"}
              T == LogItems \cup HcfItems \cup BgItems \cup {"family", "state"}
  <2>1. OnError("filter_ops") = <<"dev">> \o lfw_free_state
    BY DEF OnError
  <2>2. Drops(<<"dev">>, P)
    BY DEF Drops, Items, Falling, Down, Item, Acquired
  <2>3. \A x \in P, y \in T : Down(x) < Down(y)
    BY DEF Down, BgItems, HcfItems, LogItems
  <2>4. Drops(OnError("filter_ops"), P \cup T)
    <3>1. Drops(lfw_free_state, T)
      BY Labels
    <3>. HIDE DEF P, T
    <3>2. Drops(<<"dev">> \o lfw_free_state, P \cup T)
      BY <2>2, <2>3, <3>1, DropsConcat
    <3>. QED
      BY <2>1, <3>2
  <2>5. /\ P \cup T \subseteq Item /\ Closed(P \cup T) /\ "learn_ops" \notin P \cup T
        /\ (P \cup T) \cap Acquired = {x \in Acquired : Up(x) < Up("filter_ops")}
    BY DEF Closed, Item, Acquired, Up, BgItems, HcfItems, LogItems
  <2>. QED
    BY <2>4, <2>5, UndoesFrom
<1>15. Undoes("learn_ops")
  <2>. DEFINE P == {"filter_ops", "hooks_done", "dev"}
              T == LogItems \cup HcfItems \cup BgItems \cup {"family", "state"}
  <2>1. OnError("learn_ops") = <<"filter_ops", "hooks_done", "dev">> \o lfw_free_state
    BY DEF OnError
  <2>2. Drops(<<"filter_ops", "hooks_done", "dev">>, P)
    BY DEF Drops, Items, Falling, Down, Item, Acquired
  <2>3. \A x \in P, y \in T : Down(x) < Down(y)
    BY DEF Down, BgItems, HcfItems, LogItems
  <2>4. Drops(OnError("learn_ops"), P \cup T)
    <3>1. Drops(lfw_free_state, T)
      BY Labels
    <3>. HIDE DEF P, T
    <3>2. Drops(<<"filter_ops", "hooks_done", "dev">> \o lfw_free_state, P \cup T)
      BY <2>2, <2>3, <3>1, DropsConcat
    <3>. QED
      BY <2>1, <3>2
  <2>5. /\ P \cup T \subseteq Item /\ Closed(P \cup T) /\ "learn_ops" \notin P \cup T
        /\ (P \cup T) \cap Acquired = {x \in Acquired : Up(x) < Up("learn_ops")}
    BY DEF Closed, Item, Acquired, Up, BgItems, HcfItems, LogItems
  <2>. QED
    BY <2>4, <2>5, UndoesFrom
<1>. QED
  BY <1>1, <1>2, <1>3, <1>4, <1>5, <1>6, <1>7, <1>8, <1>9, <1>10, <1>11, <1>12, <1>13, <1>14, <1>15 DEF Acquired

\* What is left of a list when its first item is done.
LEMMA TailIs ==
  ASSUME NEW s \in Seq(Item), s # <<>>
  PROVE  /\ Tail(s) \in Seq(Item) /\ Head(s) \in Items(s) /\ Items(s) \subseteq Item
         /\ Items(s) = Items(Tail(s)) \cup {Head(s)}
         /\ Falling(s) => Falling(Tail(s)) /\ \A x \in Items(Tail(s)) : Down(Head(s)) < Down(x)
         /\ Rising(s) => Rising(Tail(s)) /\ \A x \in Items(Tail(s)) : Up(Head(s)) < Up(x)
<1>. DEFINE t == Tail(s)
            h == Head(s)
            n == Len(s)
<1>1. /\ n \in Nat /\ n > 0 /\ DOMAIN s = 1..n /\ DOMAIN t = 1..(n - 1) /\ t \in Seq(Item)
      /\ h = s[1] /\ \A i \in 1..(n - 1) : t[i] = s[i + 1]
  OBVIOUS
<1>2. Items(s) \subseteq Item
  BY DEF Items
<1>. HIDE DEF t, h, n
<1>3. \A i \in 1..(n - 1) : i + 1 \in 1..n /\ t[i] = s[i + 1] /\ 1 < i + 1
  BY <1>1
<1>4. 1 \in 1..n
  BY <1>1
<1>5. ASSUME NEW x \in Items(s) PROVE x \in Items(t) \cup {h}
  <2>1. PICK i \in 1..n : x = s[i]
    BY <1>1 DEF Items
  <2>2. CASE i = 1
    BY <1>1, <2>1, <2>2
  <2>3. CASE i # 1
    <3>1. PICK j : j = i - 1
      OBVIOUS
    <3>2. j \in 1..(n - 1) /\ j + 1 = i
      BY <1>1, <2>3, <3>1
    <3>. QED
      BY <1>1, <2>1, <3>2 DEF Items
  <2>. QED
    BY <2>2, <2>3
<1>6. Items(t) \subseteq Items(s) /\ h \in Items(s)
  BY <1>1, <1>3, <1>4 DEF Items
<1>7. ASSUME Falling(s) PROVE Falling(t) /\ \A x \in Items(t) : Down(h) < Down(x)
  <2>1. ASSUME NEW i \in 1..(n - 1), NEW j \in 1..(n - 1), i < j PROVE Down(t[i]) < Down(t[j])
    <3>1. i + 1 < j + 1
      BY <2>1
    <3>. QED
      BY <1>1, <1>3, <1>7, <3>1 DEF Falling
  <2>2. \A i \in 1..(n - 1) : Down(h) < Down(t[i])
    BY <1>1, <1>3, <1>4, <1>7 DEF Falling
  <2>. QED
    BY <1>1, <2>1, <2>2 DEF Falling, Items
<1>8. ASSUME Rising(s) PROVE Rising(t) /\ \A x \in Items(t) : Up(h) < Up(x)
  <2>1. ASSUME NEW i \in 1..(n - 1), NEW j \in 1..(n - 1), i < j PROVE Up(t[i]) < Up(t[j])
    <3>1. i + 1 < j + 1
      BY <2>1
    <3>. QED
      BY <1>1, <1>3, <1>8, <3>1 DEF Rising
  <2>2. \A i \in 1..(n - 1) : Up(h) < Up(t[i])
    BY <1>1, <1>3, <1>4, <1>8 DEF Rising
  <2>. QED
    BY <1>1, <2>1, <2>2 DEF Rising, Items
<1>. QED
  BY <1>1, <1>2, <1>5, <1>6, <1>7, <1>8 DEF t, h

\* The first item of a list that falls is not in the rest of it, nor is anything
\* that must come before.
LEMMA ReleaseNext ==
  ASSUME NEW s \in Seq(Item), s # <<>>, Falling(s), Closed(Items(s))
  PROVE  /\ Tail(s) \in Seq(Item) /\ Head(s) \in Items(s) /\ Items(s) \subseteq Item
         /\ Items(Tail(s)) = Items(s) \ {Head(s)}
         /\ Falling(Tail(s)) /\ Closed(Items(Tail(s)))
         /\ \A x \in Items(Tail(s)) : Down(Head(s)) < Down(x)
<1>1. PICK h, T, U : h = Head(s) /\ T = Items(s) /\ U = Items(Tail(s))
  OBVIOUS
<1>2. /\ Tail(s) \in Seq(Item) /\ h \in T /\ T \subseteq Item /\ T = U \cup {h}
      /\ Falling(Tail(s)) /\ \A x \in U : Down(h) < Down(x)
  BY <1>1, TailIs
<1>3. \A x : Down(x) \in Int
  BY DEF Down
<1>4. U = T \ {h}
  BY <1>2, <1>3
<1>5. \A x \in U, y \in T : Down(x) < Down(y) => y \in U
  <2>1. ASSUME NEW x \in U, Down(x) < Down(h) PROVE FALSE
    BY <1>2, <1>3, <2>1
  <2>. QED
    BY <1>2, <2>1
<1>6. Closed(U)
  <2>1. Closed(T)
    BY <1>1
  <2>2. U \subseteq T
    BY <1>2
  <2>3. ASSUME "hooks_done" \in U,
               NEW y \in (Acquired \ {"filter_ops", "learn_ops"}) \cup {"hcf_sync"}
        PROVE  y \in U
    <3>1. y \in T
      BY <2>1, <2>2, <2>3 DEF Closed
    <3>2. Down("hooks_done") < Down(y)
      BY <2>3 DEF Down, Acquired
    <3>. QED
      BY <1>5, <2>3, <3>1, <3>2
  <2>4. /\ Down("filter_ops") < Down("hooks_done") /\ Down("learn_ops") < Down("hooks_done")
        /\ Down("timer") < Down("log_wq")
        /\ Down("hcf_sync") < Down("hcf") /\ Down("hcf_sync") < Down("bg_tree")
        /\ Down("hcf_sync") < Down("bg") /\ Down("hcf_sync") < Down("state")
        /\ Down("timer") < Down("log") /\ Down("log_wq") < Down("ring")
        /\ Down("log_wq") < Down("log") /\ Down("log_wq") < Down("family")
        /\ Down("hcf_wq") < Down("hcf") /\ Down("hcf_wq") < Down("hcf_mem")
        /\ Down("hcf_wq") < Down("family") /\ Down("hcf_sync") < Down("hcf_mem")
        /\ Down("family") < Down("state")
    BY DEF Down
  <2>. QED
    BY <1>5, <2>1, <2>2, <2>3, <2>4 DEF Closed
<1>. QED
  BY <1>1, <1>2, <1>4, <1>6

LEMMA AcquireNext ==
  ASSUME NEW s \in Seq(Item), s # <<>>, Rising(s), Rest(Items(s)), Items(s) \subseteq Acquired
  PROVE  /\ Tail(s) \in Seq(Item) /\ Head(s) \in Items(s)
         /\ Items(Tail(s)) = Items(s) \ {Head(s)}
         /\ Rising(Tail(s)) /\ Rest(Items(Tail(s)))
         /\ Acquired \ Items(s) = {x \in Acquired : Up(x) < Up(Head(s))}
<1>1. PICK h, T, U : h = Head(s) /\ T = Items(s) /\ U = Items(Tail(s))
  OBVIOUS
<1>2. /\ Tail(s) \in Seq(Item) /\ h \in T /\ T \subseteq Acquired /\ T = U \cup {h}
      /\ Rising(Tail(s)) /\ \A x \in U : Up(h) < Up(x)
  BY <1>1, TailIs
<1>3. \A x : Up(x) \in Int
  BY DEF Up
<1>4. U = T \ {h}
  BY <1>2, <1>3
<1>5. Rest(U)
  <2>1. ASSUME NEW x \in U, Up(x) < Up(h) PROVE FALSE
    BY <1>2, <1>3, <2>1
  <2>. QED
    BY <1>1, <1>2, <2>1 DEF Rest
<1>6. \A x \in Acquired \ T : Up(x) < Up(h)
  <2>1. \A x \in Acquired : Up(x) = Up(h) => x = h
    <3>1. h \in Acquired
      BY <1>2
    <3>. QED
      BY <3>1 DEF Acquired, Up
  <2>. QED
    BY <1>1, <1>2, <1>3, <2>1 DEF Rest
<1>7. \A x \in T : ~(Up(x) < Up(h))
  BY <1>2, <1>3
<1>. QED
  BY <1>1, <1>2, <1>4, <1>5, <1>6, <1>7

-----------------------------------------------------------------------------
(* What is in place.                                                       *)

Core == TypeOK /\ waits \in BOOLEAN /\ TodoOK /\ HeldOK /\ ActorsOK

\* What keeps what in place: each actor's foothold brings what it uses.
Footholds ==
  /\ "timer" \in held => {"text", "log", "log_wq"} \subseteq held
  /\ "log_wq" \in held => {"text", "ring", "log", "family"} \subseteq held
  /\ "hcf_wq" \in held => {"text", "hcf", "hcf_mem", "family"} \subseteq held
  /\ "family" \in held => {"text", "state"} \subseteq held
  /\ "filter_ops" \in held \/ "learn_ops" \in held =>
       /\ ~Ended
       /\ phase = "loading" => "filter_ops" \notin Items(todo)
       /\ phase = "failing" => "hcf_sync" \in Items(todo)
       /\ phase = "unloading" => "hooks_done" \in Items(todo)
  /\ "learn_ops" \in held => phase \in {"loaded", "unloading"}
  /\ hooks # {} /\ (waits \/ phase # "unloading") =>
       {"text", "bg", "bg_tree", "state", "hcf"} \subseteq held
  /\ "learn" \in hooks /\ (waits \/ phase # "unloading") =>
       ({"text"} \cup Acquired) \ {"filter_ops", "learn_ops", "rpage"} \subseteq held
  /\ phase = "loaded" =>
       {"text"} \cup Acquired \subseteq held \cup {x \in {"rpage"} : x \in gaps}

LEMMA EmptyList == Items(<<>>) = {}
  BY DEF Items

LEMMA Standing ==
  ASSUME Core
  PROVE  Footholds
<1>. DEFINE T == Items(todo)
            Kept == Acquired \ {"bg_tree", "hcf_tree", "rpage"}
<1>1. phase \in Phase
  BY DEF Core, TypeOK
<1>2. \A x \in Kept : x \in held <=> x \in Due
  BY DEF Core, HeldOK, Acquired
<1>3. /\ Due \subseteq held \cup {x \in {"rpage"} : x \in gaps}
      /\ held \subseteq Due \cup {"text", "bg_tree", "hcf_tree"}
      /\ "text" \in held <=> ~Ended
  BY DEF Core, HeldOK
<1>4. CASE phase = "loading"
  <2>1. Due = Acquired \ T /\ Rest(T) /\ T # {} /\ T \subseteq Acquired
    <3>1. todo \in Seq(Item) /\ todo # <<>>
      BY <1>4 DEF Core, TodoOK
    <3>. QED
      BY <1>4, <3>1, TailIs DEF Core, TodoOK, Due
  <2>2. "text" \in held /\ "learn" \notin hooks /\ (hooks # {} => "filter_ops" \notin T)
    BY <1>4, <1>3 DEF Core, ActorsOK, Ended
  <2>3. \A x, y \in Acquired : x \in Due /\ Up(y) < Up(x) => y \in Due
    BY <2>1 DEF Rest
  <2>4. "filter_ops" \in Due <=> "filter_ops" \notin T
    BY <2>1 DEF Acquired
  <2>. HIDE DEF T
  <2>5. "learn_ops" \notin Due
    <3>1. PICK x \in Acquired : x \in T
      BY <2>1
    <3>2. x = "learn_ops" \/ Up(x) < Up("learn_ops")
      BY DEF Acquired, Up
    <3>3. "learn_ops" \in Acquired
      BY DEF Acquired
    <3>. QED
      BY <2>1, <3>1, <3>2, <3>3 DEF Rest
  <2>6. /\ Up("log") < Up("timer") /\ Up("log_wq") < Up("timer")
        /\ Up("ring") < Up("log_wq") /\ Up("log") < Up("log_wq") /\ Up("family") < Up("log_wq")
        /\ Up("hcf") < Up("hcf_wq") /\ Up("hcf_mem") < Up("hcf_wq") /\ Up("family") < Up("hcf_wq")
        /\ Up("state") < Up("family")
        /\ \A x \in {"bg", "bg_tree", "state", "hcf"} : Up(x) < Up("filter_ops")
    BY DEF Up
  <2>7. {"timer", "log", "log_wq", "ring", "family", "hcf", "hcf_mem", "hcf_wq", "state",
         "filter_ops", "learn_ops"} \subseteq Kept /\ Kept \subseteq Acquired
        /\ {"bg", "bg_tree"} \subseteq Acquired
    BY DEF Acquired
  <2>. HIDE DEF Kept
  <2>8. hooks # {} => {"text", "bg", "bg_tree", "state", "hcf"} \subseteq held
    <3>1. hooks # {} => {"bg", "bg_tree", "state", "hcf"} \subseteq Due
      BY <2>2, <2>3, <2>4, <2>6, <2>7
    <3>. QED
      BY <1>3, <2>2, <3>1
  <2>9. ~Ended
    BY <1>4 DEF Ended
  <2>10. /\ "learn_ops" \notin held
         /\ "filter_ops" \in held => "filter_ops" \notin Items(todo)
    BY <1>2, <2>4, <2>5, <2>7 DEF T
  <2>11. /\ "timer" \in held => {"text", "log", "log_wq"} \subseteq held
         /\ "log_wq" \in held => {"text", "ring", "log", "family"} \subseteq held
         /\ "hcf_wq" \in held => {"text", "hcf", "hcf_mem", "family"} \subseteq held
         /\ "family" \in held => {"text", "state"} \subseteq held
    BY <1>2, <2>2, <2>3, <2>6, <2>7
  <2>. QED
    BY <1>4, <2>2, <2>8, <2>9, <2>10, <2>11 DEF Footholds
<1>5. CASE phase = "loaded"
  <2>1. Due = Acquired /\ "text" \in held
    BY <1>3, <1>5, EmptyList DEF Core, TodoOK, Due, Ended
  <2>2. {"text"} \cup Acquired \subseteq held \cup {x \in {"rpage"} : x \in gaps}
    BY <1>3, <2>1
  <2>3. ({"text"} \cup Acquired) \ {"rpage"} \subseteq held
    BY <2>2
  <2>4. {"timer", "log", "log_wq", "ring", "family", "hcf", "hcf_mem", "hcf_wq", "state", "text"}
          \subseteq held
    BY <2>3 DEF Acquired
  <2>5. {"text", "bg", "bg_tree", "state", "hcf"} \subseteq held
    BY <2>3 DEF Acquired
  <2>. QED
    BY <1>5, <2>2, <2>3, <2>4, <2>5 DEF Footholds, Ended
<1>6. CASE phase \in {"failing", "unloading"}
  <2>1. Due = T \cap Acquired /\ Closed(T) /\ "text" \in held
    BY <1>3, <1>6 DEF Core, TodoOK, Due, Ended
  <2>2. \A x \in Kept : x \in held <=> x \in T
    BY <1>2, <2>1
  <2>3. /\ phase = "failing" => "learn_ops" \notin T /\ "learn" \notin hooks
        /\ phase = "failing" /\ hooks # {} => "hcf_sync" \in T
        /\ phase = "unloading" /\ hooks # {} /\ waits => "hooks_done" \in T
    BY DEF Core, TodoOK, ActorsOK
  <2>4. "hooks_done" \in T =>
          Acquired \ {"filter_ops", "learn_ops"} \subseteq T /\ "hcf_sync" \in T
    BY <2>1 DEF Closed
  <2>5. "hcf_sync" \in T => {"bg", "bg_tree", "state", "hcf"} \subseteq T
    BY <2>1 DEF Closed
  <2>. HIDE DEF T
  <2>6. hooks # {} /\ (waits \/ phase # "unloading") =>
          {"text", "bg", "bg_tree", "state", "hcf"} \subseteq held
    <3>1. hooks # {} /\ (waits \/ phase # "unloading") => {"bg", "bg_tree", "state", "hcf"} \subseteq T
      BY <1>6, <2>3, <2>4, <2>5
    <3>2. {"bg", "bg_tree", "state", "hcf"} \subseteq Acquired
      BY DEF Acquired
    <3>. QED
      BY <1>3, <2>1, <3>1, <3>2
  <2>7. "learn" \in hooks /\ (waits \/ phase # "unloading") =>
          ({"text"} \cup Acquired) \ {"filter_ops", "learn_ops", "rpage"} \subseteq held
    <3>1. SUFFICES ASSUME "learn" \in hooks, waits \/ phase # "unloading"
                   PROVE  ({"text"} \cup Acquired) \ {"filter_ops", "learn_ops", "rpage"} \subseteq held
      OBVIOUS
    <3>2. Acquired \ {"filter_ops", "learn_ops"} \subseteq T
      BY <1>6, <2>3, <2>4, <3>1
    <3>. QED
      BY <1>3, <2>1, <3>2
  <2>8. {"timer", "log", "log_wq", "ring", "family", "hcf", "hcf_mem", "hcf_wq", "state",
         "filter_ops", "learn_ops"} \subseteq Kept
    BY DEF Acquired
  <2>. HIDE DEF Kept
  <2>9. /\ "timer" \in held => {"log_wq", "log"} \subseteq held
        /\ "log_wq" \in held => {"ring", "log", "family"} \subseteq held
        /\ "hcf_wq" \in held => {"hcf", "hcf_mem", "family"} \subseteq held
        /\ "family" \in held => "state" \in held
        /\ "filter_ops" \in held \/ "learn_ops" \in held => "hooks_done" \in T
        /\ "learn_ops" \in held => "learn_ops" \in T
    BY <2>1, <2>2, <2>8 DEF Closed
  <2>10. ~Ended /\ phase \notin {"loading", "loaded"}
    BY <1>6 DEF Ended
  <2>. QED
    BY <1>6, <2>1, <2>3, <2>4, <2>6, <2>7, <2>9, <2>10 DEF Footholds, T
<1>7. CASE Ended
  <2>1. Due = {} /\ hooks = {} /\ phase \notin {"loaded", "unloading"}
    BY <1>7, EmptyList DEF Core, TodoOK, ActorsOK, Due, Ended
  <2>2. {"timer", "log_wq", "hcf_wq", "family", "filter_ops", "learn_ops"} \subseteq Kept
    BY DEF Acquired
  <2>. HIDE DEF Kept
  <2>. QED
    BY <1>2, <2>1, <2>2 DEF Footholds
<1>. QED
  BY <1>1, <1>4, <1>5, <1>6, <1>7 DEF Phase, Ended

\* After the end nothing runs any more, but for RCU callbacks.
Quiet ==
  /\ hooks = {} /\ cmd = "none" /\ queued = 0 /\ ~learning /\ ~flushq /\ ~flushing
  /\ {"filter_ops", "learn_ops", "family", "timer"} \cap held = {}

LEMMA EndIsQuiet ==
  ASSUME Core, bad = {}, Ended
  PROVE  Quiet
<1>1. Due = {} /\ hooks = {}
  BY EmptyList DEF Core, TodoOK, ActorsOK, Due, Ended
<1>2. {"filter_ops", "learn_ops", "family", "timer", "log_wq", "hcf_wq"} \cap held = {}
  BY <1>1 DEF Core, HeldOK
<1>3. cmd = "none" /\ ~(queued > 0) /\ ~learning /\ ~flushq /\ ~flushing
  BY <1>2 DEF Core, ActorsOK
<1>4. queued = 0
  BY <1>3, LifecycleAssumption DEF Core, TypeOK
<1>. QED
  BY <1>1, <1>2, <1>3, <1>4 DEF Quiet

LEMMA EndIsClean ==
  ASSUME Core, bad = {}
  PROVE  CleanEnd
<1>1. SUFFICES ASSUME Ended, "command" \notin gaps PROVE held = {} /\ Quiet
  BY DEF CleanEnd, Ended, Quiet
<1>2. Due = {} /\ "text" \notin held
  BY <1>1, EmptyList DEF Core, TodoOK, HeldOK, Due, Ended
<1>3. held = {}
  BY <1>1, <1>2 DEF Core, HeldOK
<1>. QED
  BY <1>1, <1>3, EndIsQuiet

\* A use of r by a that neither OrderIsSafe nor FlushKeepsRing excludes.
Excused(a, r) ==
  /\ phase = "loaded" \/ a \in {"work", "timer", "set_flag", "exit"}
       \/ (a \in Hook /\ (waits \/ phase # "unloading"))
     => r = "rpage" /\ "rpage" \in gaps
  /\ a = "flush" => r = "rpage"

BadOK == OrderIsSafe /\ FlushKeepsRing /\ bad \subseteq [who : Actor, what : Resource, when : Phase]

LEMMA UsesOK ==
  ASSUME Core, bad = {}, NEW a \in Actor, NEW R, R \subseteq Resource, Uses(a, R),
         \A r \in R \ held : Excused(a, r), waits' = waits, gaps \subseteq gaps'
  PROVE  BadOK'
<1>1. phase \in Phase
  BY DEF Core, TypeOK
<1>2. \A u \in bad' : \E r \in R \ held : u = [who |-> a, what |-> r, when |-> phase]
  BY DEF Uses
<1>3. ASSUME NEW u \in bad'
      PROVE  /\ u \in [who : Actor, what : Resource, when : Phase]
             /\ \/ u.when = "loaded"
                \/ u.who \in {"work", "timer", "set_flag", "exit"}
                \/ u.who \in Hook /\ (waits \/ u.when # "unloading")
                => u.what = "rpage" /\ "rpage" \in gaps
             /\ u.who = "flush" => u.what = "rpage"
  <2>1. PICK r \in R \ held : u = [who |-> a, what |-> r, when |-> phase]
    BY <1>2
  <2>2. u.who = a /\ u.what = r /\ u.when = phase
    BY <2>1
  <2>3. Excused(a, r) /\ r \in Resource
    BY <2>1
  <2>. QED
    BY <1>1, <2>1, <2>2, <2>3 DEF Excused
<1>. QED
  BY <1>3 DEF BadOK, OrderIsSafe, FlushKeepsRing, NoPage

\* A step that uses nothing.
LEMMA NothingUsed ==
  ASSUME bad = {}, bad' = bad
  PROVE  BadOK'
  BY DEF BadOK, OrderIsSafe, FlushKeepsRing

\* A step of anybody but the entry points: they stay where they are.
LEMMA SameEntry ==
  ASSUME Core, UNCHANGED <<waits, phase, todo, held, gaps>>
  PROVE  TodoOK' /\ HeldOK' /\ Due' = Due /\ Items(todo)' = Items(todo)
<1>1. Items(todo)' = Items(todo)
  BY DEF Items
<1>2. Due' = Due /\ Ended' = Ended
  BY <1>1 DEF Due, Ended
<1>. QED
  BY <1>1, <1>2 DEF Core, TodoOK, HeldOK

\* No item is on a list twice.
LEMMA FallingDistinct ==
  ASSUME NEW s \in Seq(Item), Falling(s)
  PROVE  \A i, j \in DOMAIN s : i # j => s[i] # s[j]
<1>1. \A x : Down(x) \in Int
  BY DEF Down
<1>2. DOMAIN s = 1..Len(s) /\ Len(s) \in Nat
  OBVIOUS
<1>3. ASSUME NEW i \in DOMAIN s, NEW j \in DOMAIN s, i # j PROVE s[i] # s[j]
  <2>1. i < j \/ j < i
    BY <1>2, <1>3
  <2>2. Down(s[i]) < Down(s[j]) \/ Down(s[j]) < Down(s[i])
    BY <2>1 DEF Falling
  <2>. QED
    BY <1>1, <2>2
<1>. QED
  BY <1>3

LEMMA RisingDistinct ==
  ASSUME NEW s \in Seq(Item), Rising(s)
  PROVE  \A i, j \in DOMAIN s : i # j => s[i] # s[j]
<1>1. \A x : Up(x) \in Int
  BY DEF Up
<1>2. DOMAIN s = 1..Len(s) /\ Len(s) \in Nat
  OBVIOUS
<1>3. ASSUME NEW i \in DOMAIN s, NEW j \in DOMAIN s, i # j PROVE s[i] # s[j]
  <2>1. i < j \/ j < i
    BY <1>2, <1>3
  <2>2. Up(s[i]) < Up(s[j]) \/ Up(s[j]) < Up(s[i])
    BY <2>1 DEF Rising
  <2>. QED
    BY <1>1, <2>2
<1>. QED
  BY <1>3

LEMMA ListItems ==
  ASSUME NEW s \in Seq(Item)
  PROVE  \A i \in DOMAIN s : s[i] \in Resource \cup {"hooks_done", "hcf_sync", "bg_sync"}
<1>1. \A i \in DOMAIN s : s[i] \in Item
  OBVIOUS
<1>. QED
  BY <1>1, InitList DEF Item

-----------------------------------------------------------------------------
(* The steps of the entry points.                                          *)

\* What every step keeps: Core, what may be used, and a clean end.
Kept == Core' /\ BadOK' /\ CleanEnd'

\* lfw_mod_init acquires the next thing.
LEMMA AcquireStep ==
  ASSUME Core, bad = {}, acquire
  PROVE  Kept
<1>. DEFINE h == Head(todo)
            T == Items(todo)
<1>1. /\ phase = "loading" /\ held' = held \cup {h} /\ todo' = Tail(todo)
      /\ phase' = IF Tail(todo) = <<>> THEN "loaded" ELSE "loading"
      /\ UNCHANGED <<waits, hooks, cmd, queued, learning, flushq, flushing, cb, bad, gaps>>
  BY DEF acquire, workVars
<1>2. /\ todo \in Seq(Item) /\ todo # <<>> /\ Rising(todo) /\ Rest(T) /\ T \subseteq Acquired
  BY <1>1 DEF Core, TodoOK
<1>3. /\ todo' \in Seq(Item) /\ h \in T /\ Items(todo') = T \ {h}
      /\ Rising(todo') /\ Rest(Items(todo'))
  BY <1>1, <1>2, AcquireNext
<1>. HIDE DEF h, T
<1>4. phase' \in {"loading", "loaded"} /\ (phase' = "loading" <=> todo' # <<>>)
  BY <1>1
<1>5. TodoOK'
  BY <1>2, <1>3, <1>4 DEF TodoOK, Ended
<1>6. Due' = Due \cup {h} /\ Due = Acquired \ T
  <2>1. Due = Acquired \ T
    BY <1>1 DEF Due, T
  <2>2. Due' = Acquired \ Items(todo')
    BY <1>4 DEF Due
  <2>. QED
    BY <1>2, <1>3, <2>1, <2>2
<1>7. HeldOK'
  <2>1. ~Ended /\ ~Ended'
    BY <1>1, <1>4 DEF Ended
  <2>. QED
    BY <1>1, <1>6, <2>1 DEF Core, HeldOK
<1>8. ActorsOK'
  <2>1. hooks' # {} /\ phase' = "loading" => "filter_ops" \notin Items(todo')
    BY <1>1, <1>3 DEF Core, ActorsOK, T
  <2>2. ~Ended' /\ phase' \notin {"failing", "unloading"}
    BY <1>4 DEF Ended
  <2>3. "learn" \notin hooks
    BY <1>1 DEF Core, ActorsOK
  <2>. QED
    BY <1>1, <1>4, <2>1, <2>2, <2>3 DEF Core, ActorsOK
<1>9. TypeOK'
  <2>1. \A i, j \in DOMAIN todo' : i # j => todo'[i] # todo'[j]
    BY <1>3, RisingDistinct
  <2>2. \A i \in DOMAIN todo' : todo'[i] \in Resource \cup {"hooks_done", "hcf_sync", "bg_sync"}
    BY <1>3, ListItems
  <2>3. held' \subseteq Resource
    BY <1>1, <1>2, <1>3, InitList DEF Core, TypeOK
  <2>. QED
    BY <1>1, <1>4, <2>1, <2>2, <2>3 DEF Core, TypeOK, Phase
<1>10. CleanEnd'
  BY <1>4 DEF CleanEnd
<1>. QED
  BY <1>1, <1>5, <1>7, <1>8, <1>9, <1>10, NothingUsed DEF Kept, Core

\* An acquisition fails: what was acquired before it is undone, except that a
\* missing read page goes unnoticed.
LEMMA FailureStep ==
  ASSUME Core, bad = {}, acquire_fails
  PROVE  Kept
<1>. DEFINE h == Head(todo)
            T == Items(todo)
<1>1. /\ phase = "loading" /\ h \in MayFail
      /\ UNCHANGED <<waits, held, hooks, cmd, queued, learning, flushq, flushing, cb, bad>>
  BY DEF acquire_fails, workVars
<1>2. /\ todo \in Seq(Item) /\ todo # <<>> /\ Rising(todo) /\ Rest(T) /\ T \subseteq Acquired
  BY <1>1 DEF Core, TodoOK
<1>3. /\ Tail(todo) \in Seq(Item) /\ h \in T /\ Items(Tail(todo)) = T \ {h}
      /\ Rising(Tail(todo)) /\ Rest(Items(Tail(todo)))
      /\ Acquired \ T = {x \in Acquired : Up(x) < Up(h)}
  BY <1>2, AcquireNext
<1>4. Due = Acquired \ T
  BY <1>1 DEF Due
<1>5. CASE h = "rpage"
  <2>1. todo' = Tail(todo) /\ gaps' = gaps \cup {"rpage"} /\ phase' = phase
    BY <1>5 DEF acquire_fails
  <2>. HIDE DEF h, T
  <2>2. "timer" \in Items(todo')
    <3>1. Up("rpage") < Up("timer") /\ "timer" \in Acquired /\ "timer" # "rpage"
      BY DEF Up, Acquired
    <3>. QED
      BY <1>2, <1>3, <1>5, <2>1, <3>1 DEF Rest
  <2>3. todo' # <<>>
    BY <2>2, EmptyList
  <2>4. TodoOK'
    BY <1>1, <1>2, <1>3, <2>1, <2>3 DEF TodoOK, Ended
  <2>5. Due' = Due \cup {"rpage"}
    <3>1. Due' = Acquired \ Items(todo')
      BY <1>1, <2>1 DEF Due
    <3>. QED
      BY <1>2, <1>3, <1>4, <1>5, <2>1, <3>1
  <2>6. HeldOK'
    <3>1. Ended' = Ended /\ held' = held
      BY <1>1, <2>1 DEF Ended
    <3>. QED
      BY <2>1, <2>5, <3>1 DEF Core, HeldOK
  <2>7. ActorsOK'
    <3>1. hooks' # {} => "filter_ops" \notin Items(todo')
      BY <1>1, <1>3, <2>1 DEF Core, ActorsOK, T
    <3>. QED
      BY <1>1, <2>1, <3>1 DEF Core, ActorsOK, Ended
  <2>8. TypeOK'
    <3>1. \A i, j \in DOMAIN todo' : i # j => todo'[i] # todo'[j]
      BY <1>3, <2>1, RisingDistinct
    <3>2. \A i \in DOMAIN todo' : todo'[i] \in Resource \cup {"hooks_done", "hcf_sync", "bg_sync"}
      BY <1>3, <2>1, ListItems
    <3>. QED
      BY <1>1, <2>1, <3>1, <3>2 DEF Core, TypeOK, Phase
  <2>9. CleanEnd'
    BY <1>1, <2>1 DEF CleanEnd
  <2>. QED
    BY <1>1, <2>4, <2>6, <2>7, <2>8, <2>9, NothingUsed DEF Kept, Core
<1>6. CASE h # "rpage"
  <2>1. todo' = OnError(h) /\ gaps' = gaps /\ phase' = "failing"
    BY <1>6 DEF acquire_fails
  <2>. HIDE DEF h, T
  <2>2. h \in Acquired \ {"rpage", "timer"}
    BY <1>1, <1>2, <1>3, <1>6, LifecycleAssumption
  <2>3. Undoes(h)
    BY <2>2, ErrorUndoes
  <2>4. /\ todo' \in Seq(Item) /\ Falling(todo') /\ Closed(Items(todo'))
        /\ "learn_ops" \notin Items(todo')
        /\ Items(todo') \cap Acquired = {x \in Acquired : Up(x) < Up(h)}
    BY <2>1, <2>3 DEF Undoes, Drops
  <2>5. TodoOK'
    BY <2>1, <2>4 DEF TodoOK, Ended
  <2>6. Due' = Due
    <3>1. Due' = Items(todo') \cap Acquired
      BY <2>1 DEF Due
    <3>. QED
      BY <1>3, <1>4, <2>4, <3>1
  <2>7. HeldOK'
    <3>1. ~Ended' /\ ~Ended /\ held' = held
      BY <1>1, <2>1 DEF Ended
    <3>. QED
      BY <2>1, <2>6, <3>1 DEF Core, HeldOK
  <2>8. ActorsOK'
    <3>1. "learn" \notin hooks /\ (hooks # {} => "filter_ops" \notin T)
      BY <1>1 DEF Core, ActorsOK, T
    <3>2. hooks # {} => "hcf_sync" \in Items(todo')
      <4>1. "filter_ops" \notin T => "filter_ops" \in Items(todo')
        BY <1>3, <2>4 DEF Acquired
      <4>. QED
        BY <2>4, <3>1, <4>1 DEF Closed
    <3>3. ~Ended'
      BY <2>1 DEF Ended
    <3>. QED
      BY <1>1, <2>1, <3>1, <3>2, <3>3 DEF Core, ActorsOK
  <2>9. TypeOK'
    <3>1. \A i, j \in DOMAIN todo' : i # j => todo'[i] # todo'[j]
      BY <2>4, FallingDistinct
    <3>2. \A i \in DOMAIN todo' : todo'[i] \in Resource \cup {"hooks_done", "hcf_sync", "bg_sync"}
      BY <2>4, ListItems
    <3>. QED
      BY <1>1, <2>1, <3>1, <3>2 DEF Core, TypeOK, Phase
  <2>10. CleanEnd'
    BY <2>1 DEF CleanEnd
  <2>. QED
    BY <1>1, <2>5, <2>7, <2>8, <2>9, <2>10, NothingUsed DEF Kept, Core
<1>. QED
  BY <1>5, <1>6

\* lfw_mod_exit begins.
LEMMA ExitBeginStep ==
  ASSUME Core, bad = {}, exit_begin
  PROVE  Kept
<1>1. /\ phase = "loaded" /\ phase' = "unloading" /\ todo' = lfw_mod_exit
      /\ gaps' = gaps \cup Collides
      /\ UNCHANGED <<waits, held, hooks, cmd, queued, learning, flushq, flushing, cb, bad>>
  BY DEF exit_begin, workVars
<1>2. todo' \in Seq(Item) /\ Items(todo') = Item /\ Falling(todo')
  BY <1>1, Labels DEF Drops
<1>3. Closed(Item)
  BY DEF Closed, Item, Acquired
<1>4. TodoOK'
  BY <1>1, <1>2, <1>3 DEF TodoOK, Ended
<1>5. Due' = Due
  <2>1. Due = Acquired
    BY <1>1, EmptyList DEF Core, TodoOK, Due
  <2>2. Due' = Item \cap Acquired
    BY <1>1, <1>2 DEF Due
  <2>. QED
    BY <2>1, <2>2 DEF Item
<1>6. HeldOK'
  <2>1. ~Ended' /\ ~Ended /\ held' = held /\ gaps \subseteq gaps'
    BY <1>1 DEF Ended
  <2>. QED
    BY <1>5, <2>1 DEF Core, HeldOK
<1>7. ActorsOK'
  <2>1. "hooks_done" \in Items(todo')
    BY <1>2 DEF Item
  <2>2. cmd \in {"set_bogon", "set_history"} => "command" \in gaps'
    BY <1>1 DEF Collides
  <2>. QED
    BY <1>1, <2>1, <2>2 DEF Core, ActorsOK, Ended
<1>8. TypeOK'
  <2>1. \A i, j \in DOMAIN todo' : i # j => todo'[i] # todo'[j]
    BY <1>2, FallingDistinct
  <2>2. \A i \in DOMAIN todo' : todo'[i] \in Resource \cup {"hooks_done", "hcf_sync", "bg_sync"}
    BY <1>2, ListItems
  <2>3. gaps' \subseteq {"command", "rpage"}
    BY <1>1 DEF Core, TypeOK, Collides
  <2>. QED
    BY <1>1, <2>1, <2>2, <2>3 DEF Core, TypeOK, Phase
<1>9. CleanEnd'
  BY <1>1 DEF CleanEnd
<1>. QED
  BY <1>1, <1>4, <1>6, <1>7, <1>8, <1>9, NothingUsed DEF Kept, Core

\* lfw_mod_exit, or an error path, releases the next thing.
LEMMA ReleaseStep ==
  ASSUME Core, bad = {}, release
  PROVE  Kept
<1>. DEFINE h == Head(todo)
            T == Items(todo)
<1>1. /\ phase \in {"failing", "unloading"} /\ todo # <<>> /\ Returns(h)
      /\ Uses("exit", Frees(h)) /\ held' = held \ {h} /\ todo' = Tail(todo)
      /\ cb' = IF h = "bg_tree" THEN cb \cup {"bg"} ELSE cb
      /\ UNCHANGED <<waits, phase, hooks, cmd, queued, learning, flushq, flushing, gaps>>
  BY DEF release, workVars
<1>2. todo \in Seq(Item) /\ Falling(todo) /\ Closed(T)
  BY <1>1 DEF Core, TodoOK
<1>3. /\ todo' \in Seq(Item) /\ h \in T /\ T \subseteq Item /\ Items(todo') = T \ {h}
      /\ Falling(todo') /\ Closed(Items(todo')) /\ \A x \in Items(todo') : Down(h) < Down(x)
  BY <1>1, <1>2, ReleaseNext
<1>4. Due = T \cap Acquired /\ Due' = Items(todo') \cap Acquired
  BY <1>1 DEF Due
<1>5. phase = "failing" => "learn_ops" \notin T
  BY DEF Core, TodoOK
<1>. HIDE DEF h, T
<1>6. TodoOK'
  BY <1>1, <1>3, <1>5 DEF TodoOK, Ended
<1>7. HeldOK'
  <2>1. ~Ended' /\ ~Ended
    BY <1>1 DEF Ended
  <2>2. Due' = Due \ {h} /\ "text" # h
    BY <1>3, <1>4 DEF Item, Acquired
  <2>. QED
    BY <1>1, <2>1, <2>2 DEF Core, HeldOK
<1>8. ActorsOK'
  <2>1. hooks' # {} /\ waits' /\ phase' = "unloading" => "hooks_done" \in Items(todo')
    <3>1. h = "hooks_done" => (waits => hooks = {})
      BY <1>1 DEF Returns
    <3>. QED
      BY <1>1, <1>3, <3>1 DEF Core, ActorsOK, T
  <2>2. cmd' # "none" => "family" \in held'
    <3>1. h = "family" => cmd = "none"
      BY <1>1 DEF Returns
    <3>. QED
      BY <1>1, <3>1 DEF Core, ActorsOK
  <2>3. h = "hcf_wq" => queued = 0 /\ ~learning
    BY <1>1 DEF Returns
  <2>4. h = "log_wq" => ~flushq /\ ~flushing
    BY <1>1 DEF Returns
  <2>5. h = "hcf_tree" => "hcf_wq" \notin held
    <3>1. SUFFICES ASSUME h = "hcf_tree", "hcf_wq" \in held PROVE FALSE
      OBVIOUS
    <3>2. "hcf_wq" \in T
      BY <1>4, <3>1 DEF Core, HeldOK
    <3>3. "hcf_wq" \in Items(todo')
      BY <1>3, <3>1, <3>2
    <3>4. Down("hcf_tree") < Down("hcf_wq")
      BY <1>3, <3>1, <3>3
    <3>. QED
      BY <3>4 DEF Down
  <2>6. (queued > 0 \/ learning => "hcf_wq" \in held) /\ (learning => "hcf_tree" \in held)
        /\ (flushq \/ flushing => "log_wq" \in held)
    BY DEF Core, ActorsOK
  <2>7. /\ queued' > 0 \/ learning' => "hcf_wq" \in held'
        /\ learning' => "hcf_tree" \in held'
        /\ flushq' \/ flushing' => "log_wq" \in held'
    BY <1>1, <2>3, <2>4, <2>5, <2>6
  <2>8. /\ hooks' # {} => ~Ended'
        /\ "learn" \in hooks' => phase' \in {"loaded", "unloading"}
        /\ phase' # "loading"
        /\ hooks' # {} /\ phase' = "failing" => "hcf_sync" \in Items(todo')
    <3>1. h = "hcf_sync" => hooks = {}
      BY <1>1 DEF Returns
    <3>2. hooks # {} /\ phase = "failing" => "hcf_sync" \in T
      BY DEF Core, ActorsOK, T
    <3>3. "learn" \in hooks => phase \in {"loaded", "unloading"}
      BY DEF Core, ActorsOK
    <3>. QED
      BY <1>1, <1>3, <3>1, <3>2, <3>3 DEF Ended
  <2>9. cmd' \in {"set_bogon", "set_history"} /\ phase' # "loaded" => "command" \in gaps'
    BY <1>1 DEF Core, ActorsOK
  <2>. QED
    BY <2>1, <2>2, <2>7, <2>8, <2>9 DEF ActorsOK
<1>9. BadOK'
  <2>1. Frees(h) \subseteq Resource /\ "exit" \in Actor
    BY InitList DEF Frees, Acquired, Actor
  <2>2. ASSUME NEW r \in Frees(h) \ held PROVE Excused("exit", r)
    <3>1. CASE h = "hcf_sync"
      <4>1. "hcf_mem" \in Due
        BY <1>2, <1>3, <1>4, <3>1 DEF Closed, Acquired, T
      <4>2. "hcf_mem" \in held
        BY <4>1 DEF Core, HeldOK
      <4>3. r = "hcf_mem"
        BY <3>1 DEF Frees
      <4>. QED
        BY <2>2, <4>2, <4>3
    <3>2. CASE h # "hcf_sync"
      <4>1. r = h /\ h \in Resource
        BY <3>2 DEF Frees
      <4>2. h \in Due
        BY <1>3, <1>4, <4>1, InitList DEF Item, Acquired
      <4>3. r = "rpage" /\ "rpage" \in gaps
        BY <2>2, <4>1, <4>2 DEF Core, HeldOK
      <4>. QED
        BY <4>3 DEF Excused
    <3>. QED
      BY <3>1, <3>2
  <2>. QED
    BY <1>1, <2>1, <2>2, UsesOK
<1>10. TypeOK'
  <2>1. \A i, j \in DOMAIN todo' : i # j => todo'[i] # todo'[j]
    BY <1>3, FallingDistinct
  <2>2. \A i \in DOMAIN todo' : todo'[i] \in Resource \cup {"hooks_done", "hcf_sync", "bg_sync"}
    BY <1>3, ListItems
  <2>3. held' \subseteq Resource /\ cb' \subseteq {"hcf", "bg"}
    BY <1>1 DEF Core, TypeOK
  <2>. QED
    BY <1>1, <1>9, <2>1, <2>2, <2>3 DEF Core, TypeOK, BadOK
<1>11. CleanEnd'
  BY <1>1 DEF CleanEnd
<1>. QED
  BY <1>1, <1>6, <1>7, <1>8, <1>9, <1>10, <1>11 DEF Kept, Core

\* The code of the module goes.
LEMMA ExitEndStep ==
  ASSUME Core, bad = {}, exit_end
  PROVE  Kept
<1>1. /\ phase \in {"failing", "unloading"} /\ todo = <<>> /\ hooks = {}
      /\ phase' \in {"failed", "gone"} /\ held' = held \ {"text"}
      /\ UNCHANGED <<waits, todo, hooks, cmd, queued, learning, flushq, flushing, cb, bad, gaps>>
  BY DEF exit_end, workVars
<1>2. Due = {} /\ Due' = {}
  BY <1>1, EmptyList DEF Due
<1>3. TodoOK'
  BY <1>1 DEF Core, TodoOK, Ended
<1>4. HeldOK'
  BY <1>1, <1>2 DEF Core, HeldOK, Ended
<1>5. ActorsOK'
  BY <1>1 DEF Core, ActorsOK
<1>6. TypeOK'
  BY <1>1 DEF Core, TypeOK, Phase
<1>7. Core'
  BY <1>1, <1>3, <1>4, <1>5, <1>6 DEF Core
<1>8. (bad = {})'
  BY <1>1
<1>9. CleanEnd'
  <2>1. Core' /\ (bad = {})' => CleanEnd'
    BY EndIsClean, PTL
  <2>. QED
    BY <1>7, <1>8, <2>1
<1>. QED
  BY <1>1, <1>7, <1>9, NothingUsed DEF Kept

-----------------------------------------------------------------------------
(* The others.                                                             *)

\* A hook begins to run.
LEMMA HookBeginStep ==
  ASSUME Core, bad = {}, NEW h \in Hook, hook_begin(h)
  PROVE  Kept
<1>1. /\ Ops(h) \in held /\ hooks' = hooks \cup {h}
      /\ UNCHANGED <<waits, phase, todo, held, cmd, queued, learning, flushq, flushing, cb, bad, gaps>>
  BY DEF hook_begin, seqVars, workVars
<1>2. TodoOK' /\ HeldOK' /\ Items(todo)' = Items(todo)
  BY <1>1, SameEntry
<1>3. /\ Ops(h) \in {"filter_ops", "learn_ops"} /\ (h = "learn" => Ops(h) = "learn_ops")
      /\ Ended' = Ended
  BY <1>1 DEF Ops, Hook, Ended
<1>4. /\ ~Ended
      /\ phase = "loading" => "filter_ops" \notin Items(todo)
      /\ phase = "failing" => "hcf_sync" \in Items(todo)
      /\ phase = "unloading" => "hooks_done" \in Items(todo)
      /\ h = "learn" => phase \in {"loaded", "unloading"}
  BY <1>1, <1>3, Standing DEF Footholds
<1>5. ActorsOK'
  BY <1>1, <1>2, <1>3, <1>4 DEF Core, ActorsOK
<1>6. TypeOK'
  BY <1>1 DEF Core, TypeOK
<1>7. CleanEnd'
  BY <1>1, <1>4 DEF CleanEnd, Ended
<1>. QED
  BY <1>1, <1>2, <1>5, <1>6, <1>7, NothingUsed DEF Kept, Core

\* The filter hook looks the packet up and returns.
LEMMA FilterStep ==
  ASSUME Core, bad = {}, filter_hook
  PROVE  Kept
<1>. DEFINE R == {"text", "bg", "bg_tree", "state", "hcf"}
<1>1. /\ hooks # {} /\ hooks' = hooks \ {"filter"} /\ Uses("filter", R)
      /\ UNCHANGED <<waits, phase, todo, held, cmd, queued, learning, flushq, flushing, cb, gaps>>
  BY DEF filter_hook, seqVars, workVars
<1>2. TodoOK' /\ HeldOK' /\ Items(todo)' = Items(todo)
  BY <1>1, SameEntry
<1>3. BadOK'
  <2>1. "filter" \in Actor /\ R \subseteq Resource
    BY InitList DEF Actor, Hook, Acquired
  <2>2. ASSUME NEW r \in R \ held PROVE Excused("filter", r)
    <3>1. ~(waits \/ phase # "unloading")
      BY <1>1, <2>2, Standing DEF Footholds
    <3>. QED
      BY <3>1 DEF Excused
  <2>. QED
    BY <1>1, <2>1, <2>2, UsesOK
<1>4. ActorsOK'
  BY <1>1, <1>2 DEF Core, ActorsOK, Ended
<1>5. TypeOK'
  BY <1>1, <1>3 DEF Core, TypeOK, BadOK
<1>6. CleanEnd'
  BY <1>1 DEF CleanEnd, Core, ActorsOK, Ended
<1>. QED
  BY <1>1, <1>2, <1>3, <1>4, <1>5, <1>6 DEF Kept, Core

\* The learn hook may leave work in either queue.
LEMMA LearnHookStep ==
  ASSUME Core, bad = {}, learn_hook
  PROVE  Kept
<1>. DEFINE R == {"text", "state", "hcf", "hcf_wq", "log", "log_wq", "ring"}
<1>1. /\ "learn" \in hooks /\ hooks' = hooks \ {"learn"} /\ Uses("learn", R)
      /\ queued' \in {queued, queued + 1} \cap 0..MaxQueued /\ flushq' \in {flushq, TRUE}
      /\ UNCHANGED <<waits, phase, todo, held, cmd, learning, flushing, cb, gaps>>
  BY DEF learn_hook, seqVars
<1>2. TodoOK' /\ HeldOK' /\ Items(todo)' = Items(todo)
  BY <1>1, SameEntry
<1>3. BadOK'
  <2>1. "learn" \in Actor /\ R \subseteq Resource
    BY InitList DEF Actor, Hook, Acquired
  <2>2. ASSUME NEW r \in R \ held PROVE Excused("learn", r)
    <3>1. r \in ({"text"} \cup Acquired) \ {"filter_ops", "learn_ops", "rpage"}
      BY DEF Acquired
    <3>2. ~(waits \/ phase # "unloading")
      BY <1>1, <2>2, <3>1, Standing DEF Footholds
    <3>. QED
      BY <3>2 DEF Excused
  <2>. QED
    BY <1>1, <2>1, <2>2, UsesOK
<1>4. bad' = {} => {"hcf_wq", "log_wq"} \subseteq held
  <2>1. ASSUME NEW r \in R \ held PROVE bad' # {}
    BY <1>1, <2>1 DEF Uses
  <2>. QED
    BY <2>1
<1>5. ActorsOK'
  BY <1>1, <1>2, <1>4 DEF Core, ActorsOK, Ended
<1>6. TypeOK'
  <2>1. {learning', flushq', flushing'} \subseteq BOOLEAN
    BY <1>1 DEF Core, TypeOK
  <2>. QED
    BY <1>1, <1>3, <2>1 DEF Core, TypeOK, BadOK
<1>7. CleanEnd'
  BY <1>1 DEF CleanEnd, Core, ActorsOK
<1>. QED
  BY <1>1, <1>2, <1>3, <1>5, <1>6, <1>7 DEF Kept, Core

\* A command begins; a tree it replaces while the module is not loaded is noted.
LEMMA CmdBeginStep ==
  ASSUME Core, bad = {}, NEW c \in Command, cmd_begin(c)
  PROVE  Kept
<1>. DEFINE R == CASE c = "set_bogon" -> {"bg", "bg_mem"}
                   [] c = "set_history" -> {"hcf", "hcf_mem"}
                   [] c = "set_flag" -> {}
<1>1. /\ "family" \in held /\ cmd' = c /\ Uses(c, R)
      /\ gaps' = IF phase # "loaded" /\ c # "set_flag" THEN gaps \cup {"command"} ELSE gaps
      /\ UNCHANGED <<waits, phase, todo, held, hooks, queued, learning, flushq, flushing, cb>>
  BY DEF cmd_begin, seqVars, workVars
<1>2. c = "set_bogon" \/ c = "set_history" \/ c = "set_flag"
  BY DEF Command
<1>3. R \subseteq {"bg", "bg_mem", "hcf", "hcf_mem"} /\ (c = "set_flag" => R = {})
  BY <1>2
<1>. HIDE DEF R
<1>4. gaps \subseteq gaps' /\ (c # "set_flag" /\ phase # "loaded" => "command" \in gaps')
  BY <1>1
<1>5. TodoOK' /\ Due' = Due /\ Items(todo)' = Items(todo) /\ Ended' = Ended
  <2>1. Items(todo)' = Items(todo)
    BY <1>1 DEF Items
  <2>. QED
    BY <1>1, <2>1 DEF Core, TodoOK, Due, Ended
<1>6. HeldOK'
  BY <1>1, <1>4, <1>5 DEF Core, HeldOK
<1>7. BadOK'
  <2>1. c \in Actor /\ R \subseteq Resource
    BY <1>3, InitList DEF Actor, Acquired
  <2>2. ASSUME NEW r \in R \ held PROVE Excused(c, r)
    <3>1. r \in Acquired /\ r # "rpage" /\ c # "set_flag"
      BY <1>3 DEF Acquired
    <3>2. phase # "loaded"
      BY <2>2, <3>1, Standing DEF Footholds
    <3>. QED
      BY <1>2, <3>1, <3>2 DEF Excused, Hook
  <2>. QED
    BY <1>1, <1>4, <2>1, <2>2, UsesOK
<1>8. ActorsOK'
  <2>1. bad' = {} => bad = {}
    OBVIOUS
  <2>2. c # "none"
    BY <1>2
  <2>. QED
    BY <1>1, <1>2, <1>4, <1>5, <2>2 DEF Core, ActorsOK
<1>9. TypeOK'
  <2>1. gaps' \subseteq {"command", "rpage"}
    BY <1>1 DEF Core, TypeOK
  <2>. QED
    BY <1>1, <1>7, <2>1 DEF Core, TypeOK, BadOK
<1>10. ~Ended
  BY <1>1, EndIsQuiet DEF Quiet
<1>11. CleanEnd'
  BY <1>1, <1>10 DEF CleanEnd, Ended
<1>. QED
  BY <1>1, <1>5, <1>6, <1>7, <1>8, <1>9, <1>11 DEF Kept, Core

\* A command returns; it may have replaced a tree.
LEMMA CmdEndStep ==
  ASSUME Core, bad = {}, cmd_end
  PROVE  Kept
<1>. DEFINE R == CASE cmd = "set_bogon" -> {"bg", "bg_tree"}
                   [] cmd = "set_history" -> {"hcf", "hcf_mem"}
                   [] cmd = "set_flag" -> {"state"}
            N == CASE cmd = "set_bogon" /\ "bg" \in held -> {"bg_tree"}
                   [] cmd = "set_history" /\ "hcf" \in held -> {"hcf_tree"}
                   [] OTHER -> {}
<1>1. /\ cmd # "none" /\ cmd' = "none" /\ Uses(cmd, R) /\ held' = held \cup N
      /\ cb' = IF cmd = "set_bogon" THEN cb \cup {"bg"} ELSE cb
      /\ UNCHANGED <<waits, phase, todo, hooks, queued, learning, flushq, flushing, gaps>>
  BY DEF cmd_end, seqVars, workVars
<1>2. cmd = "set_bogon" \/ cmd = "set_history" \/ cmd = "set_flag"
  BY <1>1 DEF Core, TypeOK, Command
<1>3. /\ R \subseteq {"bg", "bg_tree", "hcf", "hcf_mem", "state"} /\ (cmd = "set_flag" => R = {"state"})
  BY <1>2
<1>4. N \subseteq {"bg_tree", "hcf_tree"} /\ (cmd = "set_flag" => N = {})
  BY <1>2
<1>. HIDE DEF R, N
<1>5. TodoOK' /\ Due' = Due /\ Items(todo)' = Items(todo) /\ Ended' = Ended
  <2>1. Items(todo)' = Items(todo)
    BY <1>1 DEF Items
  <2>. QED
    BY <1>1, <2>1 DEF Core, TodoOK, Due, Ended
<1>6. "command" \notin gaps => N \subseteq Due
  <2>1. SUFFICES ASSUME "command" \notin gaps, cmd # "set_flag" PROVE N \subseteq Due
    BY <1>4
  <2>2. phase = "loaded"
    BY <1>2, <2>1 DEF Core, ActorsOK
  <2>3. Due = Acquired
    BY <2>2, EmptyList DEF Core, TodoOK, Due
  <2>. QED
    BY <1>4, <2>3 DEF Acquired
<1>7. HeldOK'
  <2>1. "text" \in held' <=> "text" \in held
    BY <1>1, <1>4
  <2>. QED
    BY <1>1, <1>4, <1>5, <1>6, <2>1 DEF Core, HeldOK
<1>8. "family" \in held
  BY <1>1 DEF Core, ActorsOK
<1>9. BadOK'
  <2>1. cmd \in Actor /\ R \subseteq Resource
    BY <1>2, <1>3, InitList DEF Actor, Command, Acquired
  <2>2. ASSUME NEW r \in R \ held PROVE Excused(cmd, r)
    <3>1. r \in Acquired /\ r # "rpage"
      BY <1>3 DEF Acquired
    <3>2. phase # "loaded"
      BY <2>2, <3>1, Standing DEF Footholds
    <3>3. cmd # "set_flag"
      BY <1>3, <1>8, <2>2, Standing DEF Footholds
    <3>. QED
      BY <1>2, <3>2, <3>3 DEF Excused, Hook
  <2>. QED
    BY <1>1, <2>1, <2>2, UsesOK
<1>10. ActorsOK'
  BY <1>1, <1>5 DEF Core, ActorsOK
<1>11. TypeOK'
  <2>1. held' \subseteq Resource
    BY <1>1, <1>4, InitList DEF Core, TypeOK, Acquired
  <2>2. cb' \subseteq {"hcf", "bg"}
    BY <1>1 DEF Core, TypeOK
  <2>. QED
    BY <1>1, <1>9, <2>1, <2>2 DEF Core, TypeOK, BadOK
<1>12. ~Ended
  BY <1>1, EndIsQuiet DEF Quiet
<1>13. CleanEnd'
  BY <1>1, <1>12 DEF CleanEnd, Ended
<1>. QED
  BY <1>1, <1>5, <1>7, <1>9, <1>10, <1>11, <1>13 DEF Kept, Core

\* The learn work, the timer, the flush work: each has a foothold.
LEMMA WorkStep ==
  ASSUME Core, bad = {}, LearnStep \/ timer_fires \/ FlushStep
  PROVE  Kept
<1>1. UNCHANGED <<waits, phase, todo, held, hooks, cmd, gaps>>
  BY DEF LearnStep, learn_begin, learn_end, timer_fires, FlushStep, flush_begin, flush_end, seqVars
<1>2. TodoOK' /\ HeldOK' /\ Items(todo)' = Items(todo)
  BY <1>1, SameEntry
<1>3. /\ queued > 0 \/ learning => "hcf_wq" \in held
      /\ learning => "hcf_tree" \in held
      /\ flushq \/ flushing => "log_wq" \in held
  BY DEF Core, ActorsOK
<1>4. Footholds
  BY Standing
<1>5. {"text", "hcf", "hcf_mem", "hcf_tree", "family", "log", "log_wq", "ring", "rpage"}
        \subseteq Resource /\ {"work", "timer", "flush"} \subseteq Actor
  BY InitList DEF Acquired, Actor
<1>6. ~Ended
  <2>1. SUFFICES ASSUME Quiet PROVE FALSE
    BY EndIsQuiet
  <2>. QED
    BY <2>1 DEF Quiet, LearnStep, learn_begin, learn_end, timer_fires, FlushStep, flush_begin,
       flush_end
<1>7. CleanEnd'
  BY <1>1, <1>6 DEF CleanEnd, Ended
<1>8. phase = "loaded" => "rpage" \in held \/ "rpage" \in gaps
  BY <1>4 DEF Footholds, Acquired
<1>9. CASE learn_begin
  <2>1. /\ queued > 0 /\ queued' = queued - 1 /\ learning' = ("hcf_tree" \in held)
        /\ Uses("work", {"text", "hcf"}) /\ UNCHANGED <<flushq, flushing, cb>>
    BY <1>9 DEF learn_begin
  <2>2. "hcf_wq" \in held /\ {"text", "hcf"} \subseteq held
    BY <1>3, <1>4, <2>1 DEF Footholds
  <2>3. BadOK'
    BY <1>1, <1>5, <2>1, <2>2, UsesOK
  <2>4. ActorsOK'
    BY <1>1, <1>2, <1>3, <2>1, <2>2 DEF Core, ActorsOK, Ended
  <2>5. TypeOK'
    <3>1. queued' \in 0..MaxQueued
      BY <2>1, LifecycleAssumption DEF Core, TypeOK
    <3>2. {learning', flushq', flushing'} \subseteq BOOLEAN
      BY <2>1 DEF Core, TypeOK
    <3>. QED
      BY <1>1, <2>1, <2>3, <3>1, <3>2 DEF Core, TypeOK, BadOK
  <2>. QED
    BY <1>1, <1>2, <1>7, <2>3, <2>4, <2>5 DEF Kept, Core
<1>10. CASE learn_end
  <2>. DEFINE R == {"text", "hcf", "hcf_mem", "hcf_tree", "family"}
  <2>1. /\ learning /\ learning' = FALSE /\ Uses("work", R) /\ cb' = cb \cup {"hcf"}
        /\ UNCHANGED <<queued, flushq, flushing>>
    BY <1>10 DEF learn_end
  <2>2. R \subseteq held
    BY <1>3, <1>4, <2>1 DEF Footholds
  <2>3. BadOK'
    BY <1>1, <1>5, <2>1, <2>2, UsesOK
  <2>4. ActorsOK'
    BY <1>1, <1>2, <1>3, <2>1 DEF Core, ActorsOK, Ended
  <2>5. TypeOK'
    BY <1>1, <2>1, <2>3 DEF Core, TypeOK, BadOK
  <2>. QED
    BY <1>1, <1>2, <1>7, <2>3, <2>4, <2>5 DEF Kept, Core
<1>11. CASE timer_fires
  <2>. DEFINE R == {"text", "log", "log_wq"}
  <2>1. /\ "timer" \in held /\ flushq' = TRUE /\ Uses("timer", R)
        /\ UNCHANGED <<queued, learning, flushing, cb>>
    BY <1>11 DEF timer_fires
  <2>2. R \subseteq held
    BY <1>4, <2>1 DEF Footholds
  <2>3. BadOK'
    BY <1>1, <1>5, <2>1, <2>2, UsesOK
  <2>4. ActorsOK'
    BY <1>1, <1>2, <1>3, <2>1, <2>2 DEF Core, ActorsOK, Ended
  <2>5. TypeOK'
    BY <1>1, <2>1, <2>3 DEF Core, TypeOK, BadOK
  <2>. QED
    BY <1>1, <1>2, <1>7, <2>3, <2>4, <2>5 DEF Kept, Core
<1>12. CASE flush_begin
  <2>. DEFINE R == {"text", "log", "ring"}
  <2>1. /\ flushq /\ flushq' = FALSE /\ flushing' = TRUE /\ Uses("flush", R)
        /\ UNCHANGED <<queued, learning, cb>>
    BY <1>12 DEF flush_begin
  <2>2. R \subseteq held /\ "log_wq" \in held
    BY <1>3, <1>4, <2>1 DEF Footholds
  <2>3. BadOK'
    BY <1>1, <1>5, <2>1, <2>2, UsesOK
  <2>4. ActorsOK'
    BY <1>1, <1>2, <1>3, <2>1, <2>2 DEF Core, ActorsOK, Ended
  <2>5. TypeOK'
    BY <1>1, <2>1, <2>3 DEF Core, TypeOK, BadOK
  <2>. QED
    BY <1>1, <1>2, <1>7, <2>3, <2>4, <2>5 DEF Kept, Core
<1>13. CASE flush_end
  <2>. DEFINE R == {"text", "log", "ring", "rpage", "family"}
  <2>1. /\ flushing /\ flushing' = FALSE /\ Uses("flush", R)
        /\ UNCHANGED <<queued, learning, flushq, cb>>
    BY <1>13 DEF flush_end
  <2>2. R \ {"rpage"} \subseteq held
    BY <1>3, <1>4, <2>1 DEF Footholds
  <2>3. \A r \in R \ held : Excused("flush", r)
    BY <1>8, <2>2 DEF Excused, Hook
  <2>4. BadOK'
    <3>1. R \subseteq Resource /\ "flush" \in Actor
      BY <1>5
    <3>. HIDE DEF R
    <3>. QED
      BY <1>1, <2>1, <2>3, <3>1, UsesOK
  <2>5. ActorsOK'
    BY <1>1, <1>2, <1>3, <2>1 DEF Core, ActorsOK, Ended
  <2>6. TypeOK'
    BY <1>1, <2>1, <2>4 DEF Core, TypeOK, BadOK
  <2>. QED
    BY <1>1, <1>2, <1>7, <2>4, <2>5, <2>6 DEF Kept, Core
<1>. QED
  BY <1>9, <1>10, <1>11, <1>12, <1>13 DEF LearnStep, FlushStep

\* An RCU callback: nothing keeps its cache in place, except while the module is
\* loaded.
LEMMA CallbackStep ==
  ASSUME Core, CleanEnd, bad = {}, NEW c \in {"hcf", "bg"}, rcu_callback(c)
  PROVE  Kept
<1>. DEFINE R == {"text", IF c = "hcf" THEN "hcf_mem" ELSE "bg_mem"}
<1>1. /\ cb' = cb \ {c} /\ Uses("callback", R)
      /\ UNCHANGED <<waits, phase, todo, held, hooks, cmd, queued, learning, flushq, flushing, gaps>>
  BY DEF rcu_callback, seqVars, workVars
<1>2. TodoOK' /\ HeldOK' /\ Items(todo)' = Items(todo)
  BY <1>1, SameEntry
<1>3. BadOK'
  <2>1. "callback" \in Actor /\ R \subseteq Resource
    BY InitList DEF Actor, Acquired
  <2>2. ASSUME NEW r \in R \ held PROVE Excused("callback", r)
    <3>1. r \in {"text"} \cup Acquired /\ r # "rpage"
      BY DEF Acquired
    <3>2. phase # "loaded"
      BY <2>2, <3>1, Standing DEF Footholds
    <3>. QED
      BY <3>2 DEF Excused, Hook
  <2>. HIDE DEF R
  <2>. QED
    BY <1>1, <2>1, <2>2, UsesOK
<1>4. ActorsOK'
  BY <1>1, <1>2 DEF Core, ActorsOK, Ended
<1>5. TypeOK'
  BY <1>1, <1>3 DEF Core, TypeOK, BadOK
<1>6. CleanEnd'
  BY <1>1 DEF CleanEnd
<1>. QED
  BY <1>1, <1>2, <1>3, <1>4, <1>5, <1>6 DEF Kept, Core

-----------------------------------------------------------------------------
(* The theorems.                                                           *)

LEMMA InvInit ==
  ASSUME Init
  PROVE  Inv
<1>1. /\ waits \in BOOLEAN /\ phase = "loading" /\ todo = lfw_mod_init /\ held = {"text"}
      /\ hooks = {} /\ cmd = "none" /\ queued = 0 /\ learning = FALSE /\ flushq = FALSE
      /\ flushing = FALSE /\ cb = {} /\ bad = {} /\ gaps = {}
  BY LifecycleAssumption DEF Init
<1>2. todo \in Seq(Item) /\ Items(todo) = Acquired /\ Rising(todo)
  BY <1>1, InitList DEF Climbs
<1>3. todo # <<>>
  BY <1>2, EmptyList DEF Acquired
<1>4. TodoOK
  BY <1>1, <1>2, <1>3 DEF TodoOK, Rest, Ended
<1>5. HeldOK
  <2>1. Due = {}
    BY <1>1, <1>2 DEF Due
  <2>. QED
    BY <1>1, <2>1 DEF HeldOK, Ended
<1>6. ActorsOK
  BY <1>1 DEF ActorsOK
<1>7. TypeOK
  <2>1. \A i, j \in DOMAIN todo : i # j => todo[i] # todo[j]
    BY <1>2, RisingDistinct
  <2>2. \A i \in DOMAIN todo : todo[i] \in Resource \cup {"hooks_done", "hcf_sync", "bg_sync"}
    BY <1>2, ListItems
  <2>3. held \subseteq Resource
    BY <1>1, InitList
  <2>4. queued \in 0..MaxQueued
    BY <1>1, LifecycleAssumption
  <2>. QED
    BY <1>1, <2>1, <2>2, <2>3, <2>4 DEF TypeOK, Phase
<1>8. OrderIsSafe /\ FlushKeepsRing /\ CleanEnd
  BY <1>1 DEF OrderIsSafe, FlushKeepsRing, CleanEnd
<1>. QED
  BY <1>1, <1>4, <1>5, <1>6, <1>7, <1>8 DEF Inv

LEMMA InvNext ==
  ASSUME Inv, [Next]_vars
  PROVE  Inv'
<1>1. Core /\ CleanEnd
  BY DEF Inv, Core
<1>2. CASE Next
  <2>1. bad = {}
    BY <1>2 DEF Next, Defined
  <2>2. ASSUME NEW h \in Hook, hook_begin(h) PROVE Kept
    BY <1>1, <2>1, <2>2, HookBeginStep
  <2>3. ASSUME NEW c \in Command, cmd_begin(c) PROVE Kept
    BY <1>1, <2>1, <2>3, CmdBeginStep
  <2>4. ASSUME NEW c \in {"hcf", "bg"}, rcu_callback(c) PROVE Kept
    BY <1>1, <2>1, <2>4, CallbackStep
  <2>5. ASSUME acquire PROVE Kept
    BY <1>1, <2>1, <2>5, AcquireStep
  <2>6. ASSUME acquire_fails PROVE Kept
    BY <1>1, <2>1, <2>6, FailureStep
  <2>7. ASSUME release PROVE Kept
    BY <1>1, <2>1, <2>7, ReleaseStep
  <2>8. ASSUME exit_end PROVE Kept
    BY <1>1, <2>1, <2>8, ExitEndStep
  <2>9. ASSUME exit_begin PROVE Kept
    BY <1>1, <2>1, <2>9, ExitBeginStep
  <2>10. ASSUME filter_hook PROVE Kept
    BY <1>1, <2>1, <2>10, FilterStep
  <2>11. ASSUME learn_hook PROVE Kept
    BY <1>1, <2>1, <2>11, LearnHookStep
  <2>12. ASSUME cmd_end PROVE Kept
    BY <1>1, <2>1, <2>12, CmdEndStep
  <2>13. ASSUME LearnStep \/ timer_fires \/ FlushStep PROVE Kept
    BY <1>1, <2>1, <2>13, WorkStep
  <2>14. Kept
    BY <1>2, <2>2, <2>3, <2>4, <2>5, <2>6, <2>7, <2>8, <2>9, <2>10, <2>11, <2>12, <2>13
       DEF Next, EntryPoint
  <2>. QED
    BY <2>14 DEF Kept, Core, BadOK, Inv
<1>3. CASE UNCHANGED vars
  <2>1. UNCHANGED <<waits, phase, todo, held, hooks, cmd, queued, learning, flushq, flushing, cb,
                    bad, gaps>>
    BY <1>3 DEF vars, seqVars, workVars
  <2>2. TodoOK' /\ HeldOK' /\ Items(todo)' = Items(todo)
    BY <1>1, <2>1, SameEntry
  <2>3. TypeOK' /\ ActorsOK'
    BY <1>1, <2>1, <2>2 DEF Core, TypeOK, ActorsOK, Ended
  <2>4. OrderIsSafe' /\ FlushKeepsRing' /\ CleanEnd'
    BY <2>1 DEF Inv, OrderIsSafe, FlushKeepsRing, CleanEnd, NoPage
  <2>. QED
    BY <2>1, <2>2, <2>3, <2>4 DEF Inv
<1>. QED
  BY <1>2, <1>3

\* Every reachable state of the module, whatever fails while it is loaded and
\* whatever runs while it is removed, satisfies the inductive invariant.
THEOREM Invariance == Spec => []Inv
<1>1. Init => Inv
  BY InvInit
<1>2. Inv /\ [Next]_vars => Inv'
  BY InvNext
<1>. QED
  BY <1>1, <1>2, PTL DEF Spec

\* Type correctness; no error path has a release twice.
THEOREM TypeCorrect == Spec => []TypeOK
<1>1. Inv => TypeOK
  BY DEF Inv
<1>. QED
  BY <1>1, Invariance, PTL

\* Nobody but hooks that lfw_mod_exit does not wait for, commands, the flush work
\* and RCU callbacks uses what is not there, and those only while it is loading,
\* failing or unloading.
THEOREM OrderOfUseIsSafe == Spec => []OrderIsSafe
<1>1. Inv => OrderIsSafe
  BY DEF Inv
<1>. QED
  BY <1>1, Invariance, PTL

\* free_pkt_filter_log_state takes no more than the read page from the flush work.
THEOREM FlushHasItsRing == Spec => []FlushKeepsRing
<1>1. Inv => FlushKeepsRing
  BY DEF Inv
<1>. QED
  BY <1>1, Invariance, PTL

\* Each goto chain of lfw_mod_init and lfw_mod_exit itself release all that was
\* acquired, unless a command brings a tree meanwhile.
THEOREM EndsAreClean == Spec => []CleanEnd
<1>1. Inv => CleanEnd
  BY DEF Inv
<1>. QED
  BY <1>1, Invariance, PTL

=============================================================================
