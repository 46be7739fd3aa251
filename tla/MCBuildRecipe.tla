--------------------------- MODULE MCBuildRecipe ---------------------------
(* The recipe under every host OS Conan Center builds for, on Conan 1 and 2. *)
EXTENDS BuildRecipe

MCOSes == {"Linux", "Macos", "Windows"}
MCConanMajors == {1, 2}
====
