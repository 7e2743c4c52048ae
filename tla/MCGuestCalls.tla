---------------------------- MODULE MCGuestCalls ----------------------------
(* GuestCalls with a library that defines f and refers weakly to g, one that
   uses f and a hooked symbol and defines g, and a file that is no library.
   The JNI functions are DestroyJavaVM (0), which throws, and GetEnv (3). *)
EXTENDS GuestCalls

MCFiles == {"libc", "app", "plugin", "exe"}

MCSymbol ==
  [file \in MCFiles |->
     CASE file = "libc" -> [f |-> "defined", g |-> "weak", dlopen |-> "none", property |-> "none"]
       [] file = "app" -> [f |-> "undefined", g |-> "defined", dlopen |-> "undefined", property |-> "none"]
       [] file = "plugin" -> [f |-> "none", g |-> "undefined", dlopen |-> "none", property |-> "none"]
       [] file = "exe" -> [f |-> "none", g |-> "none", dlopen |-> "none", property |-> "none"]]

MCSymHooks == <<"property", "dlopen">>

MCConstructors == [file \in MCFiles |-> IF file = "app" THEN 2 ELSE 0]
=============================================================================
