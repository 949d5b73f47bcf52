-------------------------- MODULE MCPluginInstall --------------------------
(***************************************************************************)
(* An npm package with two releases, a package of the container image, two *)
(* tags of an OCI image that hold the same plugin and a :latest image; and *)
(* configurations that enable, disable, override, upgrade and clash.       *)
(***************************************************************************)
EXTENDS PluginInstall

Entry(package) == "package" :> package

Npm == Entry("npm") @@ ("integrity" :> 1) @@ ("pluginConfig" :> [route |-> "a"])
Local == Entry("./local") @@ ("disabled" :> TRUE) @@ ("pluginConfig" :> [menu |-> "a"])
Tag1 == Entry("oci://image:1!p")
Tag2 == Entry("oci://image:2!p")
Latest == Entry("oci://other:latest!q") @@ ("pluginConfig" :> [route |-> "b"])

File(includes, plugins) == [kind |-> "plugins", includes |-> includes, plugins |-> plugins]
Other(kind) == [kind |-> kind, includes |-> <<>>, plugins |-> <<>>]

MCConfigFiles == {
  \* the default file disables the local package, the main list enables it
  File(<< <<Local>> >>, <<Entry("./local") @@ ("disabled" :> FALSE), Npm>>),
  \* another integrity algorithm for the same archive, the local package disabled
  File(<< <<Local>> >>, <<Npm @@ ("disabled" :> FALSE), Tag1>>),
  \* a new tag of the image, a local package that is packed on every run
  File(<< <<Local>>, <<Local @@ ("forceDownload" :> TRUE)>> >>,
       <<Tag2, Entry("./local") @@ ("disabled" :> FALSE)>>),
  \* two plugins whose fragments clash
  File(<<>>, <<Latest, Npm>>),
  File(<<>>, <<Latest>>),
  Other("absent"),
  Other("invalid") }

MCSources == {"npm", "./local", "image:1", "image:2", "other"}

MCSourceOf ==
  ("npm" :> "npm") @@ ("./local" :> "./local") @@ ("oci://image:1!p" :> "image:1")
  @@ ("oci://image:2!p" :> "image:2") @@ ("oci://other:latest!q" :> "other")

MCDirOf ==
  [x \in (DOMAIN MCSourceOf) \X (1 .. MaxVersion) |->
     CASE x[1] = "npm" -> IF x[2] = 1 THEN "npm-1" ELSE "npm-2"
       [] x[1] = "./local" -> IF x[2] = 1 THEN "local-1" ELSE "local-2"
       [] x[1] \in {"oci://image:1!p", "oci://image:2!p"} -> "p"
       [] OTHER -> "q"]

MCDirs == {"npm-1", "npm-2", "local-1", "local-2", "p", "q"}
=============================================================================
