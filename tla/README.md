# TLA+ models of the NPU code generator (`src/codegen/utils.py`)

This project model-checks the code generator that turns the NPU operator
schemas into C++ wrappers and dispatcher registrations. Its core is
`src/codegen/utils.py`, with the structured-kernel argument translation in
`src/scripts/codegen/api/structured.py`. The models are plain TLA+ and are
checked with TLC.

## The system and how its parts interact

| Part | Code | What it does |
|---|---|---|
| Schema loader | `parse_npu_yaml` (46-59) | Reads a schema file and drops every line without `:`. It `yaml.load`s the rest. A missing file gives `{}`. |
| YAML merger | `merge_yaml`, `merge_custom_yaml` (62-89) | Merges the op-plugin schema into the pta schema, with base precedence and an `official`→`supported` rename. It writes the merged file. |
| Wrap-name resolver | `parse_opplugin_yaml` (101-135), `GLOBAL_STRUCTURED_OP_INFO_CACHE` (39) | Pops `custom`/`official`/`symint` and maps each canonical operator name to its wrapper symbol in a process-wide cache. The last declaration wins, and `_symint` is appended for names under `symint`. It warns on a rename. |
| Op-API cache | `update_opapi_info`, `is_opapi`, `filed_tag` (92-99, 414-427) | A process-wide set of the operators that use the op-api runtime branch. |
| Structured-kernel arguments | `structured.py`: `argumenttype_type`, `argument`, `impl_arguments`, `meta_arguments`, `out_arguments` | Translates JIT argument types to the C++ types of the structured-kernel API, and builds the impl, meta and out parameter lists of an operator group. `impl_arguments` puts precomputed parameters in place of the arguments they replace. |
| Code synthesizer | `gen_unstructured` (167-353), `enable_opplugin`, `is_op_valid` (393-401) | Runs once per (target, operator). It emits a declaration, a definition, an anonymous wrapper or a registration. The wrapper calls the op-plugin kernel when the op-plugin directory exists and the resolver cache names one, and otherwise the native kernel. It may add the runtime op-api branch. |

The parts run in this order. The loader feeds both the merger and the
resolver. The resolver is called once per schema (pta, then op-plugin), and
its cache outlives each call. The synthesizer only reads the two
process-wide caches. The driver that calls these functions is not in the
repository. Spec section 6 asks it to finish every cache write before the
first read.

## Modules

| Module | Models | State ↔ code |
|---|---|---|
| `SchemaLoader` | `parse_npu_yaml` as the operator `ParseNpuYaml` | A file is its existence plus a sequence of abstract lines: key, record item, string item, comment. `HasSeparator` is the `':' in line` filter. `Section` is what `yaml.load` gives for one key: absent gives `<<>>`, empty gives `Null`, otherwise the items' funcs. |
| `WrapNameCache` | The abstract promise of `parse_opplugin_yaml`, one document per step | `cache`: the cache after each whole document. `ResolveDocument` applies its declarations, last one wins. `RejectDocument` covers a None document. |
| `WrapNameResolver` | `parse_opplugin_yaml` statement by statement | `ParseOpPluginYaml` covers the pops and the symint set (103-118). `ResolveSupportOp` is one loop iteration with the conflict warning and the cache write (121-133). `RejectNonStrFunc` is the assertion (123). `PopFromNone` is `None.pop` (105). `ReturnSourceEs` is line 135. `cache_at_call` and `written` are history variables. |
| `OpPluginYaml` | Loader composed with resolver | Each run fixes one schema file. The resolver's input is `<<ParseNpuYaml(file)>>`. |
| `GenUnstructured` | `gen_unstructured` | One step is one call, in torchgen's target-major order (`todo`). `native` holds what the code reads of each function: kernel, manual, selected, tensor args. `Skipped` covers the early returns. `ReturnCode` covers the return statement: the resolved kernel (`ResolvedImpl`), the op-api branch (`UseOpApi`) and the format checks. `GenDefinition` and `GenAnonymousDeviceCheck` raise NameError, as the code does. |
| `OpApiCache` | `update_opapi_info` and `filed_tag` over one record list | A record is a string, a non-mapping, or a mapping with the func's name, its `op_api` value and the routing fields. `UpdateOpApiInfo` handles one record. `FiledTag` is one whole call of `filed_tag`. `StripAfterUpdate` says whether the driver (not in the repository) calls `filed_tag` only after every `update_opapi_info`. |
| `StructuredArgs` | `structured.py` | `ArgumenttypeType` and `Argument` are RECURSIVE operators over JIT types (base, optional, list). `ValuetypeType` stands for torchgen's `cpp.valuetype_type`. `impl_arguments` is modelled step by step: `ImplStart` (the `precomputed` test), `ReplaceArg` and `KeepArg` (one loop iteration each), `ExtendReplaced`, and `ImplFinish` (out arguments, then the flattening). A raise is `Raise`. |
| `Pipeline` | Resolver, op-api cache and synthesizer composed over the two caches | `R`, `O` and `G` instance `WrapNameResolver`, `OpApiCache` and `GenUnstructured` on shared variables. `Resolve` and `TagOpApi` are their steps, interleaved in any order, because they touch disjoint state. `Generate` is one synthesizer call. It is guarded by `ResolutionDone`: every document is resolved without an abort, and every record has been offered to `update_opapi_info`. This guard is the spec's caller obligation. The caches start empty (lines 39-40). |
| `YamlMerge` | `merge_yaml` as the RECURSIVE `MergeYaml` over ordered YAML trees; `merge_custom_yaml` as the actions | Mappings are sequences of pairs, in insertion order. `Iterated` is what `for item in x` visits: list items, mapping keys or string characters. A raising merge yields `Error`, and then nothing is written. |

Each `MC*` module gives the constants small concrete values.

## Runs

| Run | cfg | Expect | What it shows |
|---|---|---|---|
| resolver_refines | MCWrapNameResolver.cfg | pass | See [resolver_refines](#resolver_refines). |
| pipeline_dispatch | MCPipeline.cfg | pass | See [pipeline_dispatch](#pipeline_dispatch). |
| gen_definition_raises | MCGenUnstructured_defn.cfg | violation | The definition target raises NameError, because `CppSignature` is not imported (line 203). The same defect recurs at line 251 (`itertools`, for a device-guarded backend). |
| loader_record_symint | MCOpPluginYaml.cfg | pass | See [loader_record_symint](#loader_record_symint). |
| loader_string_symint | MCOpPluginYaml_strings.cfg | violation | A symint entry in string form is dropped by the `:` filter, so the string branch of line 117 is unreachable. |
| loader_empty_file | MCOpPluginYaml_empty.cfg | violation | An existing file that is empty or holds only comments loads as None, and `.pop` raises (line 105). |
| merge_base_preserved | MCYamlMerge.cfg | pass | `BasePreserved`: every merge that is written keeps every key, value and list item of the pta document, at any depth and in order. `AdditionalItemsMerged`: it also holds every key and list item of the op-plugin document, and appends no item the list already holds, also when `official` and `supported` both land on one base key. |
| merge_not_idempotent | MCYamlMerge_idem.cfg | violation | Merging a document that holds `official` with itself adds `supported`. |
| opapi_update_and_strip | MCOpApiCache.cfg | pass | `TypeOK` over every call order of `update_opapi_info` and `filed_tag` (`StripAfterUpdate = FALSE`): the record list and the op-api set stay well formed, and `filed_tag` pops the routing fields and `op_api` but keeps each record's func. |
| structured_impl_args | MCStructuredArgs.cfg | pass | `ImplIsMetaThenOut`: `impl_arguments` equals `meta_arguments` with every precomputed parameter in place of the argument it replaces, followed by `out_arguments`. It raises exactly when they do. `TypeOK` says every translated type is a well-formed C++ type. |
| structured_tensor_list | MCStructuredArgs_lists.cfg | violation | `Tensor?[]` is translated to `ArrayRef<OptionalTensorRef>`, although lists of tensors are rejected as unsupported (lines 58-63). |

### resolver_refines

It checks `ConflictWarnedIffRenamed`: the warning fires exactly when a name
has been given two wrapper symbols, including a change caused only by the
symint suffix, and across calls.

It also checks `ImplementsWrapNameCache`. The step-by-step loop refines the
per-document promise. The refinement mapping uses `cache_at_call` and
exposes the cache only between calls.

### pipeline_dispatch

This run checks the synthesizer over the caches that the resolution really
produces, rather than caches chosen freely.
- `RegisteredWrapperDefined`: every registration names a wrapper that the
  anonymous pass defined.
- `OpApiBranchFromSchema` (spec 8, end to end): an operator's wrapper has
  the runtime op-api branch exactly when the pta records flag it
  `op_api: true` and no op-plugin document declares it.
- `WrapperEventuallyDefined` (liveness, under `FairSpec`): for every
  function with a kernel that is not registered manually, the
  anonymous-definition call is eventually made and returns the wrapper,
  whatever the selector says. The exceptions are an aborted resolution and
  an earlier call that raised NameError (line 203 or 251) and stopped the
  run before this one. The property is about what each call returns, not
  about the files a build keeps: with the definition target requested, a
  run with a kernel to define raises at line 203 sooner or later and then
  emits nothing (spec 7). It holds with the definition target first as
  well as last. It also shows that the generator's wait for the resolution
  never blocks it for good.

The write-before-read order of spec 6 (`ResolutionDone`) is assumed, not
checked: the driver that orders the stages is not in the repository, so
the hazard at line 308 has no property.

A standalone run of `GenUnstructured` with free caches would add nothing.
Each cache here can end with none, one or both names, which gives every
case the synthesizer's properties distinguish.

### loader_record_symint

It checks `SymintDeclarationsHonoured`. When the symint entries are records,
every one that is declared reaches the symint set.

### Mutants

Every passing property has a mutant in `PROJECT.json`. Each mutant is a
plausible code bug, and TLC finds the property violated under it. The
mutants are:
- custom and official swapped;
- the symbol taken from the canonical name;
- the conflict compared before the suffix is added;
- the selector test moved to the anonymous target;
- the kernel named after the schema;
- a stricter line filter;
- additional values winning in the merge;
- the `item not in base_data` test dropped from the list merge;
- `op_api` tested for presence rather than truth;
- `func` popped together with the routing fields;
- `OptionalCType` wrapping the NamedCType instead of its type;
- a replaced argument kept in front of its replacements;
- the selector mutant above also breaks the pipeline's liveness property.

## Bounds and why they are enough

**Resolver.**
- Operators: three funcs. Two of them (`f1`, `f2`) share canonical name `k1` but have different C++ names, so last-writer-wins, conflicts and renames all happen.
- Documents: each document lists at most two entries across custom and official, including the malformed `NotStr`.
- Symint: the lists are None, empty, `[f1]` or `[f3]`.
- Calls: one or two documents, so the cache carries over from pta to op-plugin, plus None documents.
- Size: about 600k states.

**Loader.**
- Files: an optional comment line, then each of custom, official and symint absent or present, with zero or one item. There is also a missing file.
- Why this is enough: it covers every outcome of the filter: absent, None, items, and the empty document.

**Synthesizer** (the run `gen_definition_raises`).
- Operators: two (`o1`, `o2`) with distinct names.
- Inputs: every kernel, manual, selected and tensor-arg combination, every cache content, and every device-guard, plugin and skip-registration flag.
- Targets: the sequence DECL, ANON, REG, DEFN. `gen_definition_raises` uses DEFN alone.

**Pipeline.**
- Operators: the resolver's three funcs and the synthesizer's two functions (`o1` is `k1`, `o2` is `k2`).
- Op-plugin documents: one document with custom `[]`, `[f1]` or `[f3]` and official `[]` or `[f2]`. There is also a None document and one with a malformed func.
- pta records: the lists are `[]`, `[k1 true]`, `[k2 true]`, `[k1 false, k2 true]`, `[k1 false, k1 true]` (one name flagged by its second record only) and `["str", k2 true]` (a plain string entry, which `update_opapi_info` skips).
- Synthesizer inputs: every kernel, manual and selector combination for both functions. `o1` has a tensor argument and `o2` has none. Every device-guard, plugin and skip-registration flag. The targets are DECL, ANON, REG, DEFN.
- Size: about 600k states. The run, liveness included, takes under a minute and a half.

**Op-API cache.**
- Records: lists of up to three records over two names.
- Record kinds: a string, a non-mapping, or a mapping whose `op_api` is absent, true or false.
- Why this is enough: it covers a name flagged twice, a name flagged by one record and not another, and every record kind.

**Structured arguments.**
- Types: JIT types up to two constructors deep over Tensor, Scalar, int, Dimname and bool. These include `Tensor?[]`, `int[]?` and `Scalar?`.
- Groups: an optional `self`, then none, one or two plain arguments, or tensor options. An optional out tensor.
- Precomputed: replacement of `x`, `y` or both, by one or two parameters.

**Merger.**
- Values: None, a string, lists over two items, and a mapping.
- Documents: None, `{}`, or one or two of the keys `official`/`supported`.
- Why this is enough: it covers the rename collision, both kind mismatches and nested merges.

## Fairness and deadlock

The generator is a single-threaded batch program. Once it is started, it
runs until it returns or raises. `Pipeline`'s `FairSpec` therefore adds
`WF_vars(Next)`: the one process never stops while it has a step to take.
Its steps are the resolver's, the op-api updates' and the synthesizer's.
Weak fairness on the whole next-state relation is exactly this guarantee.
It does not force any particular interleaving. No other module states a
liveness property, so the others use `Spec` without fairness.

Every run sets `CHECK_DEADLOCK FALSE`. A run really does stop once its
inputs are consumed, or once a call has raised or the resolution has
aborted. `WrapperEventuallyDefined` tells those legitimate ends apart from
a generator left waiting for good.

## Not modelled, and why

- **The driver of `update_opapi_info` and `filed_tag`.** It is not in the repository. `OpApiCache` leaves the call order to a constant. `Pipeline` takes the write-before-read order from spec 6 (`ResolutionDone`, marked spec-modelled in the map).
- **`arguments` (utils.py 356-378).** Everything it decides happens inside torchgen's `cpp.argument`, which is not in the repository.
- **`precomputed.add`.** `impl_arguments` here has no handling for `precomputed.add`. The `Precompute` type comes from torchgen and is not modelled.
- **`rename_privateuse1_dispatch_key`.** It replaces `DispatchKey.__str__` and `parse` with a `str.replace` between `PrivateUse1` and `NPU`. What it does depends only on the member names of torchgen's enum, which is not in the repository. `NPU` cannot overlap itself, so `parse(str(k)) = k` for every member whose own name does not contain `NPU`. When the rename must happen relative to torchgen's parsing is listed as a hazard.
- **`get_torchgen_dir` and `add_header_to_template_file`.** These are file I/O on torchgen's installed package. The torn-write hazard of line 389 is listed in `PROJECT.json`: the file is opened without `O_TRUNC`, and the 'already patched' test looks only for the include.
- **`torch_npu/utils/__init__.py`.** It is import glue.
- **The operator tests and examples.** They are numeric comparisons.
- **Emitted C++ text.** It is abstracted to the choices that decide dispatch.
- **Device-guard argument selection (264-305).** It is unreachable, because line 251 raises first.

## Divergences seen but not given a run

These behaviours were seen while modelling;
each is listed as a hazard in `PROJECT.json`.

- **The selector (line 178).** It is tested only for REGISTRATION. An operator the selector excludes still gets its anonymous definition. `RegisteredWrapperDefined` still holds.
- **A None section against a list (72-76).** A None base drops the op-plugin list silently (base precedence on scalars allows it), and a None op-plugin value under a base list raises TypeError.
- **A non-list merged into a list (73).** A string merged into a list appends its characters, and a mapping appends its keys.
- **`filed_tag` before `update_opapi_info`.** This loses the op-api flag. `opapi_update_and_strip` reaches that order, but nothing in the repository or the spec says which order the driver must use, so no property is asserted.

## Plan for later work

1. **Larger instances.** A third operator in the synthesizer, or a third document in the resolver, multiplies the state space by about ten; the pipeline already takes over a minute.
2. **A non-list merged into a list (73).** Once the spec says what a string or mapping merged into a list should give, state it over `Iterated` in `YamlMerge`.
