------------------------ MODULE MCFrontendBootstrap ------------------------
(* A plugin with several modules, one with a broken or missing package, a  *)
(* static one, and one with an export that has no prototype.               *)
EXTENDS FrontendBootstrap, TLC

Entry(kind, scope) == [kind |-> kind, scope |-> scope]

Static == <<
  Entry("pluginModule", "internal"),
  Entry("dynamicRoute", "internal") @@ [importName |-> "Page"],
  Entry("appIcon", "internal") @@ [importName |-> "Icon"] >>

Techdocs == <<
  Entry("signInPage", "docs") @@ [importName |-> "SignIn"],
  Entry("pluginModule", "docs"),
  Entry("dynamicRoute", "docs"),
  Entry("menuItem", "docs") @@ [module |-> "Menu", importName |-> "Item",
                                of |-> <<"PluginRoot", "default">>],
  Entry("theme", "docs") @@ [module |-> "Theme", importName |-> "Dark"],
  Entry("techdocsAddon", "docs") @@ [module |-> "Theme", importName |-> "Addon"],
  Entry("routeBindingTarget", "docs") @@ [importName |-> "default", name |-> "docsPlugin"],
  Entry("routeBinding", "docs") @@ [target |-> "docsPlugin", to |-> {"catalogPlugin", "ssoPlugin"}],
  Entry("entityTab", "docs") @@ [path |-> "/docs"] >>

Addon == <<
  Entry("pluginModule", "docs"),
  Entry("techdocsAddon", "docs") @@ [module |-> "Addons", importName |-> "Addon"] >>

Sso == <<
  Entry("pluginModule", "sso"),
  Entry("signInPage", "sso") @@ [importName |-> "SignIn"],
  Entry("mountPoint", "sso") @@ [importName |-> "Gone"],
  Entry("apiFactory", "sso") @@ [importName |-> "Api"],
  Entry("routeBindingTarget", "sso") @@ [importName |-> "ssoPlugin"],
  Entry("routeBinding", "sso") @@ [target |-> "scaffolderPlugin", to |-> {"ssoPlugin"}],
  Entry("routeBinding", "sso") @@ [target |-> "gonePlugin", to |-> {"ssoPlugin"}],
  Entry("providerSetting", "sso") @@ [provider |-> "sso-auth"],
  Entry("providerSetting", "sso") @@ [provider |-> "docs-auth"],
  Entry("entityTab", "sso") @@ [path |-> "/docs"] >>

Bad == <<Entry("pluginModule", "bad"), Entry("signInPage", "bad")>>

MCConfigs == {Static \o Techdocs \o Sso, Static \o Sso \o Addon, Static \o Bad \o Sso}

Package(manifest) == [found |-> TRUE, dist |-> TRUE, manifest |-> manifest]

MCInstallations == {
  <<Package("docs"), Package("sso"), Package("bad")>>,
  <<[Package("docs") EXCEPT !.dist = FALSE], Package("sso"), Package("none")>>,
  <<Package("docs"), Package("broken"), [Package("sso") EXCEPT !.found = FALSE]>> }

MCExports ==
  (<<"internal", "PluginRoot">> :> {"Page", "Icon"})
  @@ (<<"docs", "PluginRoot">> :> {"default", "SignIn"})
  @@ (<<"docs", "Menu">> :> {"Item"})
  @@ (<<"docs", "Theme">> :> {"Dark", "Addon"})
  @@ (<<"docs", "Addons">> :> {"Addon"})
  @@ (<<"sso", "PluginRoot">> :> {"SignIn", "Api", "ssoPlugin"})
  @@ (<<"bad", "PluginRoot">> :> {"namespace"})

MCPluginApis == (<<"internal", "PluginRoot">> :> {}) @@ (<<"sso", "PluginRoot">> :> {"sso-auth"})
                @@ (<<"docs", "Theme">> :> {"docs-auth"})

MCBare == {<<"bad", "PluginRoot">>}
=============================================================================
