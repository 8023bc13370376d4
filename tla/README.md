# TLA+ models of the generated documentation data of gtk-rs-core

The repository's sources under `src/` are the generated data scripts of the
gtk-rs-core documentation site (three site versions: `git`, `stable/0.22`,
`0.20`, `0.18`). They are not the Rust bindings. They are JavaScript files that
a documentation page loads so that its host scripts can show cross-references
and search results. The models here cover what those files *do* when a page
loads them, and what the data they carry must satisfy.

## Inventory

### Components

| Component | Files | State it touches | Operations |
|---|---|---|---|
| Implementors registration shim | `trait.impl/**/trait.*.js` (8 files) | `window.register_implementors`, `window.pending_implementors` | build the crate→entries table; call the hook if defined, else store the table in the pending slot |
| Type-impl registration shim | `type.impl/**/*.js` (6 files) | `window.register_type_impls`, `window.pending_type_impls` | the same on the type_impls slot. Two textual forms: `Object.fromEntries([...])` with a layout comment, and an object literal `{...}` with no comment (0.18 `Class`, git `EnumerationValues`) |
| Search description shard | `search.desc/glib/glib-desc-1-.js` | `searchState` (defined by the search UI) | `searchState.loadedDescShard("glib", 1, text)`. The text holds 103 descriptions separated by `\n`, looked up by position. The call is not guarded |
| Table layout metadata | trailing `//{"start":S,"fragment_lengths":[...]}` of each `Object.fromEntries` file | none at page load | records where the array starts (offset `S`, just past `[`) and the length of each crate entry. The first entry's length excludes the separator; each later entry's length includes its leading comma |
| Host page (external) | not in the repository | installs the hooks; reads the pending slots | spec 4.1: "store the payload under a well-known pending key for later consumption" |
| Description text | the string literal of `search.desc/glib/glib-desc-1-.js` | none | descriptions (103 positions) written as one JS literal with the escape `\n` between neighbours; the UI evaluates it and splits it at newlines |
| Generator, search/render UI, the Rust crates | not in the repository | | non-goals of the spec |

### How they interact

A page loads its data script asynchronously. The page's host script also
runs. Each script runs to completion as one task of the browser's event loop,
and the browser chooses the order. The shim and the host meet only in two
globals per slot: the hook and the pending slot. If the host runs first, the
shim calls the hook. If the shim runs first, it stores the table, and the host
picks it up when it installs the hook. The shim never clears the slot and never
retries.

### What is hard

- **Interleaving.** The data script and the host run in either order, and both
  orders must deliver the table.
- **One slot per kind.** `pending_implementors` holds one value. A second
  script of the same slot that runs before the hook replaces the first table.
- **Liveness.** A stashed table is shown only if the host later picks it up.
- **Key versus URL.** The shard is fetched by the URL built from (crate, n)
  but delivers its data under the key its own arguments name.
- **Positions in the description text.** A description is found only by its
  position. The text repeats descriptions, some may be empty, and a newline
  inside a description would be written with the separator's own escape.
- **Off-by-one in the layout metadata.** `start` differs between the
  `var` (57 / 55) and `const` (59) templates. Fragment lengths include the
  separator except for the first one.

### Properties that make each component correct

- Shim plus host: no table is lost in any order (`PayloadAccountedFor`). The
  composition implements the abstract hand-off, including eventual delivery
  (`HandoffSpec`).
- Description shard: every requested shard is eventually resolved with the
  file fetched from its own URL (`RequestedShardResolved`).
- Description text: the split of the evaluated literal gives back every
  description at its own position only when no description holds a newline
  (`PositionalLookup`, shown violated otherwise).
- Layout metadata: every site file records exactly the layout of its own text
  (`RecordedLayoutMatches`).

## Modules

| Module | Models |
|---|---|
| `HostHandoff` | Abstract contract of spec 4.1. `Load(p)`: a script runs and hands over its table, which the host may receive at once. `Deliver(p)`: the host receives a table that was handed over earlier. Weak fairness on `Deliver`. |
| `RegistrationShim` | The shim of every trait.impl/type.impl file, with the host as its environment. Variables: `hook[k]` (is `window.register_<k>` defined), `pending[k]` (`window.pending_<k>`), `registered[k]` (the calls the host's hook received, in order), `ran`, and `page` (which page is loading). Actions: `ShimRegister(s)` (the `if` branch, lines 3-4), `ShimStash(s)` (the `else` branch, lines 5-6), and `HostInstallHook(k)` (the host, modelled from the spec: it installs the hook and hands it the pending slot's value; the slot is read, not cleared). `Handoff` instantiates `HostHandoff` WITH `loaded <- ran` and `delivered <-` the scripts whose table has been passed to the hook of their own slot. |
| `DocSite` | The site's data: one definition per file, giving its keyword, its slot, its crate keys in file order, and the recorded layout metadata. For each crate it also gives the length of each item's HTML string as the file writes it, escapes included, and whether the items carry the `,0` field. The two object-literal files (`LiteralFile`) keep only their item counts. `Site` maps a script name to its file. |
| `FragmentLayout` | The text of an `Object.fromEntries` file up to the end of its array, as pure operators. `Prefix(decl, name)` is line 1 and line 2 up to `[`. `EntryText` and `ItemText` are a crate entry and an implementation item. `Fragments` is the entries, each later one with its `,`. `Layout` is the comment a text calls for. Reading a text back by its comment is the external generator's job and is not modelled. |
| `DescShard` | The shard file's one statement, `LoadedDescShard(f)`: the script fetched from `f`'s URL delivers `f`'s descriptions under the key `CallOf[f]` that its arguments name. The search UI is modelled from the spec. `DefineSearchState` defines `searchState`; `RequestShard(k)` registers the wait for key `k` and inserts the script. Variables: `searchState`, `requested`, `ran`, and `resolved[k]`, the file whose data was delivered for `k`. |
| `MCDescShard`, `MCDescShardLiveness` | Five shards: glib 0, 1, 2 and gio 0, 1. glib 1 is the repository's file, with its URL key and call key taken from `DocSite!GlibDesc1`. The others name their own key. |
| `DescText` | The shard's data argument, as pure operators. `EscapeDesc` writes a description inside the literal (`\n`, `\\`, `\"` for newline, backslash and quote). `ShardText` joins the escaped descriptions with `\n`. `Unescape` is the string the literal evaluates to, with escapes read left to right. `SplitLines` is the UI's `data.split("\n")`, and `LookupDesc` is the UI's lookup by 0-based position; both are modelled from the spec. |
| `MCDescText` | Every shard of one to three descriptions, each of at most two characters from `Chars`. `MultiLineChars` is {`a`, newline}. |
| `MCRegistrationShim`, `MCHandoff` | Every page of the site: each page loads its one data script. `MCRegistrationShim` also rebuilds each file's crate entries from `DocSite` (`SiteEntries`), with each item's HTML replaced by a placeholder string of the same length. |
| `MCSharedPendingSlot` | A page with two trait.impl scripts (ToVariant and DBusInterfaceExt). |

A table's HTML is abstracted to its length. A payload is identified with the script that
builds it, because the properties only ask which table went where.

## Runs

| Run | Checks | Result |
|---|---|---|
| `site_pages` (`MCRegistrationShim.cfg`) | `PayloadAccountedFor` on all 14 pages and every order of script and host. `RecordedLayoutMatches` on each page's script: the recorded `start` (57/55 for `var`, 59 for `const`) and every fragment length exactly, entries with items included | pass, 140 states |
| `site_handoff` (`MCHandoff.cfg`) | `HandoffSpec`: the refinement, with its liveness | pass |
| `desc_shards` (`MCDescShard.cfg`) | `TypeOK` over every set and order of searches and script runs | pass, 244 states |
| `desc_liveness` (`MCDescShardLiveness.cfg`) | `RequestedShardResolved` | pass |
| `desc_multiline_text` (`MCDescTextMultiLine.cfg`) | `PositionalLookup` when a description may hold a newline | violation: `<<"\n">>` is written as `\n` and read back as two empty descriptions |
| `shared_pending_slot` (`MCSharedPendingSlot.cfg`) | `PayloadAccountedFor` when two scripts share a slot | violation: both scripts stash before the hook exists, and the second overwrites the first |

`shared_pending_slot` is a **spec gap**. The single pending slot is correct only
because every page of this site loads at most one data script per slot. Spec
4.1 does not state that condition. `desc_multiline_text` is a second spec gap.
Spec 3 says that index N corresponds to symbol N. That holds only if no
description contains a newline, because the literal can write a newline only
as the separator's escape. Spec 3 does not state that condition, and the
file cannot show whether it was met, since such a newline would look like one
of its 102 separators.

**Bounds.** The registration model has no counters. Each page's scripts run once, so the
state space is the set of all interleavings, checked exhaustively. Every page
of the site is an initial state, and the layout check is over the real
files: empty entries, entries with one to three items, and items with and
without the `,0` field.

**Fairness.** Each script the page includes eventually runs, and the host
script eventually installs each hook. Both follow from the browser executing
every `<script>` of a page. Deadlock checking is off because a page load
really ends: once every script has run, no step is enabled. In `DescShard`,
only the browser is fair: an inserted shard script is eventually fetched and
run. `RequestShard` is a user's search, so it carries no fairness. Deadlock
checking is off there too, because the user may stop searching. These
fairness assumptions mean that a host that never reads its slot, or a shard
whose fetch is lost, is assumed away rather than checked. Both live in code
outside the repository.

**Mutants.** Each property is shown to catch a plausible slip in the code:

| Property | Slip |
|---|---|
| `PayloadAccountedFor` | the `if` guard is dropped, so calling the undefined hook throws before the store |
| `HandoffSpec` | the file stores its table in the other slot's pending variable |
| `RecordedLayoutMatches` | `start` is taken at the `[` instead of just past it |
| `RequestedShardResolved` | the glib shard 1 file passes shard index 0, numbered from zero unlike its URL |
| `TypeOK` (`DescShard`) | a shard script runs that the UI never inserted, for example the UI inserting a neighbour's URL |

## Plan

Done:

1. `RegistrationShim` + `HostHandoff` + `DocSite` (the core), first sitting.
2. `FragmentLayout` (the layout metadata), first sitting.
3. `DescShard` + `MCDescShard` (the description shard and the search UI's
   side of it), second sitting.
4. `DescText` + `MCDescText` (the description text's one-line
   precondition), third sitting.
5. After review: the properties that held by the model's own construction
   were removed. These were the registration type invariant, the
   once-per-slot check, the round trip of the layout writer and reader, the
   shard's unguarded-call action property, the passing text round trip, the
   shard contract refinement, and the lost-fetch run. The layout check was
   made exact for every entry by transcribing each item's HTML length and its
   `,0` field.

Considered and left out:

- A `DocPage` composing the registration slots and the search shard on one
  page. The two parts touch disjoint globals (`register_*`/`pending_*` versus
  `searchState`), so a composition would only restate that they do not
  interfere. The host's order of steps is not in the repository or the spec.
- A positional lookup from item index to (shard, position). The item-to-
  position table lives in the external search index.
- A lost shard fetch, and an abstract contract for the shard. The fault and
  the UI's waiting are both outside the repository, and the contract adds
  nothing beyond `RequestedShardResolved`.

## Not modelled

- The host page scripts and the search UI, beyond what the data files rely on.
  The files rely on the host installing each hook and reading the pending slot
  (spec 4.1), and on the search UI defining `searchState` and requesting
  shards. Neither is in the repository.
- The documentation generator that writes and merges these files. It is
  external.
- The HTML of the implementation fragments. It is inert markup. Only the
  number of fragments and their lengths matter to the properties.
- A shard that fails to load, and what the UI does then (the script's error
  event, any retry). None of it is in the repository, so the runs assume that
  the browser eventually runs every inserted script.
- Everything else. Each file's only behaviour is modelled: its one shim or
  its one call, its data layout, and its text encoding. The rest of the
  system (the generator, the host scripts, the search index) is outside the
  repository. The components that touch it are therefore `partly` or
  `not_modelled`.
- The Rust crates documented by the site.
