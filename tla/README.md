# A verification development for luabind-vs2010

The repository is a Visual Studio solution around luabind 0.9.1, a library that
exposes C++ classes and functions to Lua, with qlua, which does the same for Qt
objects, and programs that use them. Boost and LuaJIT are vendored. These TLA+
modules model the parts of luabind and qlua whose correctness depends on the
order of events: what is cached, who owns what, what a recursion sees when it
comes back, and which of several owners a table slot belongs to.

Paths are relative to `src/luabind-0.9.1/` unless they begin with `qlua/`.

## 1. Inventory

### Cast graph and class ids
*Code*: `src/inheritance.cpp`, `luabind/detail/inheritance.hpp`,
`make_instance.hpp`, `constructor.hpp`, part of `src/class.cpp` and
`luabind/class.hpp`.
*State*: per Lua state a graph (vertices by class id, edges with a cast
function), a cache of conversions, and a map from C++ types to ids.
*Operations*: `cast` (asked for every argument that is an instance), `insert`,
`class_id_map::put/get_local`, `make_instance`, constructors.
*Hard*: a cached answer is used for other instances with the same key
(source, target, dynamic id, offset to the complete object); ids of types
change when they are registered late; a failed search is remembered too.
*Correct when*: the cache changes no answer, an accepted pointer is one to the
class asked for, the answer is a shortest chain of casts.

### Weak self-references
*Code*: `src/weak_ref.cpp`, `wrapper_base.hpp`, `back_reference.hpp`, on LuaJIT's
`luaL_ref`/`luaL_unref`.
*State*: a table with weak values whose free slots are a linked list through
slot 0; a slot number in each wrapped object.
*Hard*: the collector empties slots behind the free list, and the finalizer that
gives a slot back runs later, after more Lua code.
*Correct when*: a living object's reference yields its own instance.

### Instances, ownership and dependencies
*Code*: `instance_holder.hpp`, `object_rep.cpp`, `adopt_policy.hpp`,
`dependency_policy.hpp`, `shared_ptr_converter.hpp`, `detail/ref.hpp`.
*State*: a holder per instance (an `auto_ptr`, another smart pointer or a raw
pointer, and a plain copy `weak`), strong references and handles in the registry,
and dependencies there too, under keys that are addresses of bytes of the instance.
*Operations*: constructors, converters in both directions, `adopt` in both
directions, `dependency`, `shared_ptr` round trips, `__gc`, `lua_close`.
*Hard*: three parties (scripts, C++, the collector) end lifetimes; `release()` and
`__finalize` may throw half way; an object may be adopted, given back and adopted
again; without `assert` the keys of one instance run into those of the next.
*Correct when*: nothing is deleted twice, an adopted object keeps its Lua part,
a patient outlives its nurse, and what is let go is collected.

### Overload dispatch
*Code*: `luabind/detail/call.hpp`, `make_function.hpp`, `src/function.cpp`, the
`match` functions of the converters in `detail/policy.hpp`.
*State*: functions linked through `next`, kept alive through `keepalive`; for a
call, a recursion with one shared `invoke_context`.
*Hard*: each frame decides after the deeper ones changed the context; the
function that runs may replace the name and collect the chain.
*Correct when*: exactly the one best of all the overloads runs, or none.

### qlua signals
*Code*: `qlua/LuaCallbackDispatcher.*`, `qlua/LuaContext.cpp` (`QtConnect`,
`QtDisconnect`, `AddQObject`, `RemoveObject`).
*State*: methods (never removed) with registry references, Qt's connections, the
registry that cached objects share.
*Hard*: three tables must agree, and `Disconnect` frees the wrong reference.
*Correct when*: a signal calls the functions that are connected to it.

### qlua objects
*Code*: `qlua/LuaContext.cpp` (`AddQObject`, `DeleteObject`, `HandleReturnValue`,
`LuaCBackMethod::Invoke`, `~LuaContext`).
*State*: per object the lists its methods' closures point into, the cached table in
the registry, and per table the delete mode in its userdata.
*Operations*: an object is given to Lua with or without caching and with one of three
delete modes, returned by a method, or passed to a slot; tables are collected.
*Hard*: what the `__gc` of a table drops is kept by object, not by table, and the
collector decides when; the program, Lua and Qt's event loop can all delete.
*Correct when*: a script can call the methods of what it has, each QObject has
one deleter, and one given to Lua for good is deleted, or handed to the event loop,
when its last table goes.

### Lua classes
*Code*: `src/create_class.cpp`, `src/class_rep.cpp`, the tables of `src/class.cpp`,
`detail/constructor.hpp`.
*State*: a member table per class, copied from the bases when the class is made; the
global variable `super`; the `__init` functions on the stack.
*Hard*: `super` is one variable for all constructors that are running. It is cleared by
whichever returns first and not at all by one that raises an error.
*Correct when*: an `__init` that reads `super` finds its own instance and base, an
instance is given one holder, and `super` keeps no finished instance.

### Components that are not modelled, or only in part
They are listed with their reasons in section 6.

### How the parts interact
`invoke` asks the converters for scores; those ask `pointer_holder::get`, which asks
the cast graph. Constructors and `make_instance` make the holders and give them
the ids that key the cache. Constructors of wrapped classes make the weak
reference that `back_reference.hpp` and `adopt_policy.hpp` read; the finalizer of an
instance deletes the object, whose destructor gives the reference back.
Handles, dependencies, strong references and qlua's callbacks are all slots of
the Lua registry, which keeps what they refer to. Everything runs on one thread:
the concurrency is that of the collector's steps and of code called back.

## 2. The modules

| module | models | state in the code |
|---|---|---|
| `CastSearch` | the breadth-first search without a cache, as a function over the states of its loop; a reference definition by paths | none |
| `CastGraphSpec` | abstract: every conversion is answered by a search of the present graph | none |
| `CastGraph` | `cast` by its five paths, `insert`, `register_`, `get_local`, `make_instance`, constructors | `m_vertices`, `m_cache`, `m_classes`, `m_local_id`, the holders |
| `MCCastGraph` | the hierarchies TLC uses | |
| `CastGraph_proof` | theorems about `CastGraph` | |
| `LuaRefs` | reference tables: `luaL_ref`, `luaL_unref`, borders | a Lua table |
| `LuaRefs_proof` | lemmas about `luaL_ref`, `luaL_unref` and the free list | |
| `WeakRefs` | weak self-references and the collector | weak table, `m_impl->ref`, `m_strong_ref` |
| `WeakRefs_proof` | theorems about `WeakRefs` | |
| `InstanceLifetime` | ownership, adoption, dependencies, finalization, `lua_close` | holders, `m_dependency_cnt`, registry keys by address, handles |
| `MCInstanceLifetime` | addresses of instances for TLC | |
| `InstanceLifetime_proof` | theorems about `InstanceLifetime` | |
| `OverloadSpec` | abstract: the best overload of a set is run, once | none |
| `OverloadDispatch` | `add_overload`, `entry_point`, `invoke`, `function_destroy` | `next`, `keepalive`, `invoke_context`, the frames |
| `MCOverloadDispatch` | signatures and arguments TLC uses | |
| `OverloadDispatch_proof` | theorems about `OverloadDispatch` and its refinement | |
| `LuaCallbackDispatcher` | `Connect`, `Disconnect`, cached objects | `luaCBackMethods_`, `cbackToMethodIndex_`, `objRefs_`, registry |
| `LuaCallbackDispatcher_proof` | theorems about `LuaCallbackDispatcher` | |
| `QluaObjects` | tables of QObjects, their delete modes, the program, the event loop, `~LuaContext` | `objMethods_`, the userdata of a table, `QObject`s |
| `MCQluaObjects` | which signal belongs to which object | |
| `QluaObjects_proof` | theorems about `QluaObjects` and what it uses of the callbacks | |
| `LuaClasses` | `register_`'s and `create_class`'s tables, `constructor_dispatcher`, `super_callback` | `m_table`, `super`, the C stack, `object_rep` |
| `MCLuaClasses` | three classes written in Lua on three C++ classes, one with two bases | |
| `LuaClasses_proof` | theorems about `LuaClasses` | |

`LuaRefs` is extended by the two modules whose state lives in such a table.
`QluaObjects` extends `LuaCallbackDispatcher`, with which
it shares the registry and Qt's connections. `CastGraph` refines `CastGraphSpec`, and `OverloadDispatch` refines `OverloadSpec`, by
instances with a refinement mapping at the end of each module.

Conventions. An action is one C++ function called from Lua or from the program,
with everything it calls; where the code calls back into Lua in the middle
(`invoke`, finalizers) the function is split there. Operators whose comment begins
with "mutant" are not part of any specification: each is an error one could make
in the definition after it, used to see that a property notices. Variables marked
"history" record what happened and are read by properties only, with two
exceptions, both restrictions of what scripts and programs do: the constant `Fresh` of
`LuaCallbackDispatcher` reads `wanted` and `discarded`, and `owner` in `QluaObjects`, which
no code keeps, is what the program knows of its objects.

Abstractions that matter:
* A C++ pointer into an object is its offset from the start of the complete
  object; a C++ type is its class id. What the compiler's casts do is the
  constant `CastFunction`; what is assumed of it is `CppAssumption`.
* Integers that are narrowed keep a width: `IntSpan` and `PtrSpan` are the number of
  values of `int` and `ptrdiff_t`. The runs use 8 bits for `int` so that wrapping
  is exact and cheap; `Narrow` is the conversion.
* `lua_objlen` of a table with holes may be any border; `NewRefs` is the set of
  references it leads to.
* Each call with arguments enumerates kinds of parameters and values, not strings.
* `InstanceLifetime` takes from `WeakRefs` that a self-reference yields the instance
  until that is finalized. `WeakRefs` says when this is so (`weakrefs_fullgc`) and
  when it is not (`weakrefs_incremental`).
* `LuaClasses` has one table per class; `m_default_table`, which register_ fills with the
  same members, is not kept apart. A frame is a running `__init` written in Lua. Errors
  are caught around a construction, if anywhere. Classes are made before instances
  (`Loading`), and an `__init` calls that of its base once, by `super` or by name.
* Qt's connections are a set of records, in which the copies of one connection are numbered;
  a disconnect drops all copies, as `QMetaObject::disconnect` does, so that the numbers of the
  copies that are there have no gaps.
* `LuaClasses` builds a table as `register_` does: the class's own members, then one base after
  another (`Registered`, a recursive function of the number of bases copied, each step a
  `CopyTable`). `MembersAreInherited` reads no table to say what should be there: `SearchBases` is a
  recursive search of the hierarchy over two histories, what has been written for each class
  (`written`) and what had been written for the bases of a class when it was made (`seen`).
  `CppBased` is a smallest set.
* The registry of `InstanceLifetime` is a function of addresses. Of the memory layout only this is
  assumed: instances do not overlap (`AddressAssumption`); `RepSize` stands for
  `sizeof(object_rep)`. No two of the instances that are made have the same address: one that takes
  the memory of another comes after that has released its keys.
* `QluaObjects` knows a closure of a method as part of its table only.

## 3. The runs

| run | configuration | shows |
|---|---|---|
| `cast_cache` | a diamond, a wrapper and a plain type, two instances, one local id, one cached answer at a time, `ptrdiff_t` wider than `int` | `TypeOK`, `DynamicIdNamesOneType`, `CacheCoherent`, `AcceptedLandsOnSubobject`, `AnswersAreShortest`, `ImplementsUncached` |
| `cast_win32` | the diamond, two cached answers, `ptrdiff_t` as wide as `int` | **violates** `AcceptedIsConvertible` |
| `weakrefs_fullgc` | three objects, three slots, no Lua code between the phases of a collection | `TypeOK`, `IdentityPreserved`, `AdoptedKeepsItsPart`, `FreeSlotsAreFree` |
| `weakrefs_incremental` | the same with Lua code in between | **violates** `IdentityPreserved` |
| `instances_ownership` | a plain, a wrapped and a shared-held object, three instances, one whose `__finalize` raises an error, any number of adoptions of an instance, `lua_close` | `TypeOK`, `OneOwner`, `AdoptedKeepsItsPart`, `NullOnlyAfterReturn` |
| `instances_dependencies` | three instances next to each other in memory, no `assert`, room for one dependency and two of them added, collector fair | `PatientKeptWhileRunning`, `EverythingCollected` |
| `overloads` | three functions, two names, four signatures, three argument lists, calls fair | `TypeOK`, `NothingDangles`, `ImplementsPromise`, `CallEnds` |
| `signals` | two signals, two functions, four methods, one cached object, six slots; a function is connected to one signal and not again after a disconnect | `TypeOK`, `InvokesAFunction`, `CalledAsOftenAsConnected`, `ReferencesHold` |
| `signals_disconnect` | scripts unrestricted | **violates** `DisconnectedIsSilent` |
| `qlua` | two QObjects, a signal of each, two tables, one function; an object is handed to Lua again only while its table is cached or once there is none | `ObjectsTypeOK`, `HasItsMethods`, `OneDeleter`, `AbandonedIsDeleted` |
| `qlua_tables` | an object is handed to Lua again when nothing refers to its table any more | **violates** `HasItsMethods` |
| `lua_classes` | `Baz` on `Bar` on `Ext` on `Side` and `Foo`, which both have `name` and only the second `__init`; `Qux` on `Foo`; `Bar` and `Baz` use `super`; members of `Bar` written before or after `Baz` is derived; three instances of `Ext`, `Baz` or `Qux` | `TypeOK`, `MembersAreInherited`, `SuperIsMine`, `InitialisedOnce`, `DroppedIsCollected` |

Deadlock is not checked: every model stops when a bound is reached, and the
programs stop when scripts do.

### Bounds, and why they are enough
* `MaxHolders` 2, `MaxLocal` 1, `MaxCached` 1: a wrong cached answer takes one
  instance that fills the entry and one that reads it; a confused id takes two types, of
  which one was met before it was registered. With one entry at a time each key is still
  filled by one instance and read by the other, and every registration comes between the
  two in some behaviour. The diamond is the smallest hierarchy in which one class
  is reached with two pointers.
* `MaxRef` 3 with three objects: one to lose its instance, one to take the slot,
  one to make a hole below the length. An object may be made again after it is gone.
* `MaxReps` 3: an object, its first instance, and two more that adopt or depend.
  `MaxDeps` 2 takes more than one registry key, which is what a lost increment
  needs, and with `RepSize` 1 the second is already that of the neighbour. What a
  dependency within bounds promises is proved for every size. There are no dependencies
  in the ownership run, where nothing reads them, and no adoption in the other.
* `MaxFunctions` 3: a chain with a worse, a best and a tying overload, and room to
  register one during a call. `MaxFrames` is one more than the longest chain, so it
  is never reached unless a chain is circular, and then the call is stuck there,
  where `CallEnds` sees it.
* `MaxMethods` 4: both functions connected twice.
* `MaxTables` 2: the table that is dying and the one made meanwhile, of one object
  or of two. Two methods and four slots let both objects be cached while a function is
  connected; more of them is what `signals` is for.
* `MaxInstances` 3: one kept by a super that an error left behind, one whose `__init`
  runs, and one constructed in an argument of its `super(...)`. Two levels of classes that
  use `super` are what it takes for a closure to be replaced by the next. `Instantiated` leaves
  out `Bar` and `Foo`, whose constructors run as those of the bases of `Baz` and `Ext`.

### Fairness
`CallEnds` needs weak fairness of `Step`: `invoke` is a C++ recursion that nothing
preempts, and the function it runs is assumed to return or throw. It is weak
fairness of one disjunction: code that a call runs may register and collect for
as long as it likes, but a call that can go on does. `EverythingCollected` needs
weak fairness of `Collect(r)` for each instance: scripts allocate while they run
and allocation drives the collector; its premise is that scripts and C++ have
let go for good, and that no instances depend on each other in a circle, which are never
collected by design of the registry keys. `DroppedIsCollected`
needs the same of `Finalize(i)`: an instance that `super` keeps is to be let go when the
constructors that run have returned or failed. `AbandonedIsDeleted` needs it of the tables of
QObjects, where `lua_close` runs the finalizers that are left. It assumes no event loop, and
promises no more than the code can: an object given with `QOBJ_IMMEDIATE_DELETE` is deleted, one
with `QOBJ_DELETE_LATER` is handed to `deleteLater()`. Whether that is carried out is up to the
program. Those of the repository (`qluatest/main.cpp`, `qluavectortest/main.cpp`,
`qlua/test/qlua-test.cpp`) start no event loop, and their `LuaContext` dies at the end of
`main`, so that there it is not. Nothing is assumed of what scripts or
the program do.

### Findings
1. **A remembered failure becomes a success on Win32** (`inheritance.cpp:193`): `put` is
   called with its last two arguments swapped. With a 64-bit `ptrdiff_t` the
   narrowing to `int` makes the score -2, a rejection, by luck; with a 32-bit one, which
   is what every configuration of the solution builds, the second attempt of the same
   conversion is accepted with a pointer one byte before the object.
2. **A weak slot is freed twice** (`weak_ref.cpp:86`): between the collector clearing
   the slot and `~impl` freeing it, another object can take it.
3. **`qlua.disconnect` stops at the first method that is not connected to the signal**
   (`qlua/LuaCallbackDispatcher.cpp:83`).
4. **A second table of a QObject has no methods** (`qlua/LuaContext.cpp:138`): closures are
   made for names whose list was empty, and while the first table awaits the
   collector the lists of the object are not.

What remains after a finding is checked too: `cast_cache` runs the code as it is,
swapped arguments included, with the widths for which it is harmless; `signals` runs
the real `Disconnect`, including the `luaL_unref` of reference 0, under the restriction
that makes line 83 harmless; `qlua` keeps to one table per object.

`super` has a condition of this kind as well, the constant `SuperFirst`: with `FALSE`, an
`__init` that constructs something before it reads `super` no longer finds it, because
every constructor clears `super` when it returns (`class_rep.cpp:170`). The comment
at line 241 knows of it.

Ownership has two. A script may pass to `adopt(_1)` an instance whose `auto_ptr` was released before.
The code does not refuse it: the raw pointers of docs.rst:1659-1661 do throw, but the second
`release()` of an `auto_ptr` does nothing except to set `weak` to the null pointer that is left
(`instance_holder.hpp:114-116`). If C++ still owns the object, it owns it twice from then on; this is
left out of the runs and is the hypothesis `~Careless` of the theorems. If `adopt(result)` has given
it back, the adoption is sound, but the script's instance yields a null pointer afterwards:
`adopt(_1)`, `adopt(result)`, `adopt(_1)`. That is in the model, and `NullOnlyAfterReturn` says that
it takes this and nothing less.

Where code and documentation differ in a way one test shows, no run is spent on it:
* docs.rst:1599-1601 has the `__finalize` of every class of the hierarchy called;
  the code looks up one (`object_rep.cpp:74`), and does not copy it to derived classes.
* docs.rst:1921 has a patient kept alive as long as its nurse, and docs.rst:2458 recommends
  `NDEBUG` for releases, where nothing bounds the keys of an instance any more
  (`object_rep.cpp:48`): the dependency after the `sizeof(object_rep)`-th takes a key of the
  neighbour in memory, and overwrites its patient or is released with it.
* docs.rst:2603-2605 has a later function of the same signature override the earlier; the
  call is ambiguous (`call.hpp:270`).
* `qlua.ownQObjects()` should decide whether returned objects are deleted
  (`LuaContext.h:179-182`, README:81); the mode arrives in the parameter `cache`
  (`LuaContext.cpp:459`), so it decides whether they are cached.
* A C++ class registered without a constructor finds the `__init` of its base in its
  table (`class.cpp:190`).
* The comment of `lua-blob.cpp` promises access to any byte; `subtable_index` and
  `subtable_newindex` (lines 450, 511) compare index + element size with a
  number of elements, so that the upper part of a blob cannot be reached as shorts or wider, and
  an index of 0 wraps around past the comparison.

## 4. What is proved

### `CastGraph_proof`
For all types, layouts, widths and bounds:

* `TypeCorrect`: `Spec => []TypeOK`.
* `IdsAreUnique`: `Spec => []DynamicIdNamesOneType`. By itself this is not
  inductive: `put()` replaces ids that instances still carry. The strengthening
  says, for every instance of a polymorphic class, that its id is its type (a
  constructor's, or a registered type's) or a local id below `m_local_id` that
  belongs to nobody else, and that the map is injective in the same sense.
* `CacheIsCoherent`: `Spec => []CacheCoherent`. Needs the above: two instances with
  one key are of one type and have the same offset (or are plain and convert the same way,
  `PlainCastsAreFixed`), so that the entry of one is right for the other; a registration
  either adds no edge or clears the cache.
* `CacheIsTransparent`: `Narrow(Invalid) < 0` implies `Spec => Abs!AbsSpec`, the property
  `ImplementsUncached`. The hypothesis is exactly what the arguments swapped in line
  193 rest on; finding 1 is what happens without it.

* `AcceptedIsSubobject`: `Narrow(Invalid) < 0` implies `Spec => []AcceptedLandsOnSubobject`.
  It rests on two facts about the search. It ends: a state of the loop with the fewest
  unvisited types, and among those with the fewest entries up to the last visited one, is the
  last of any set of states (`SearchEnds`); so the loop is a function (`SearchExists`, what a
  state leads to is the end of its orbit), and a state that breaks a claim about
  the result is followed by others that break it, up to one where the loop is over. And each
  expansion keeps every entry of the queue on a subobject (`ExpandedLands`). What comes out of
  the cache is what the search finds, by `CacheCoherent`.

Assumptions: `TypesAssumption` (the types are finitely many), `CastGraphAssumption` (ids of
types are below `local_id_base`) and `CppAssumption` (a cast that succeeds takes a subobject to a
subobject, distances fit an `int`, offsets stay clear of the sentinels, plain types convert
the same way everywhere). TLC evaluates all three on the hierarchies of the runs.

The argument is the usual one: an inductive invariant with a step for each action,
lemmas about `Narrow`, about the search (`Searched` depends on the instance and the
edges only) and about `InsertAll`.

### `InstanceLifetime_proof`
For any number of objects, instances and dependencies, any addresses, any set of instances whose
finalizer throws, with and without `lua_close`:

* `TypeCorrect` is not inductive alone: that scripts hold only live instances needs that
  what a `shared_ptr` or the registry keeps is live while Lua runs (`KeptLive`), since both
  can give an instance back to a script.
* `OwnershipIsExclusive` (`OneOwner`), if `~Careless`: `OwnInv` says of each object that it has no
  owner, or one instance, or C++ once, and was deleted at most once, not at all while it is owned.
  It does without cardinalities, which a lemma brings in at the end. Nothing keeps a script from
  adopting an instance whose object has been given away before; if C++ has it, the object has two
  owners, which is what the hypothesis excludes, and no more.
* `AdoptedPartStays` (`AdoptedKeepsItsPart`), on the same condition: `PartInv` adds that
  the only instance of a wrapped object is its own, so that the strong reference made in
  adoption is to the instance that `adopt(result)` will want, however often the object went back
  and forth.
* `NullNeedsRoundTrip` (`NullOnlyAfterReturn`), on the same condition: `NullInv` says that a holder that
  has been released keeps its plain copy as long as its object has not been given back; a second
  release before that would be one of an object C++ owns.
* `PatientsStay` (`PatientKeptWhileRunning`), without a condition on scripts or on the build:
  `PatientsRegistered` says that each patient of a live instance is under one of the keys
  the instance has counted, as long as all counts are within `RepSize`; then keys of different
  instances are different, by `AddressAssumption` and arithmetic, so that neither an addition nor a
  release touches those of another.
* `AssertKeepsPatients`: with `Asserts` all counts are within `RepSize`, and the promise holds
  unconditionally. Without either it does not hold, as the code is (section 3).

Assumed: `InstanceLifetimeAssumption`, which is about the sets given to the module only, and
`AddressAssumption`.

### `OverloadDispatch_proof`
For any number of functions and names, any signatures and argument lists, and a recursion of
any depth:

* `TypeCorrect`: with `ChainInv` and `CallInv` (below), because a call must know that what
  it enters is a registered function before it can score it.
* `LinksStay` (`NothingDangles`): `ChainInv` says that a function links to an older registered one,
  that its `keepalive` is the same, that `chain[f]` is what can be reached from it, and that
  nothing in the chain of a function that is not freed has been freed. The last is what the collector
  preserves: whoever can be collected is not the target of a keepalive, and every
  other member of a chain is the link of some member.
* `OneBestOverload` (`ImplementsPromise`): `Spec => Promised!Spec`. `CallInv` says that on the way
  down what has been tried and what is still linked to make up the chain of the head, with one frame
  for each function tried; that the context holds exactly the best of what was tried
  (`BestOf`, preserved by `Considered`); and that as long as nothing has run, the only best
  function still has its frame, and once it has run it has not. So `Invoke` is `Run` of
  the one best overload, `Finish` and `Throw` are `End`, `Register` and `Assign` are themselves, and
  all else stutters, whatever the code that a call runs does to names and chains.

Assumed: `OverloadAssumption`, with `MaxFunctions <= MaxCandidates`, which the code does not
ensure; and `ScoreAssumption`, that a score is -1 or a cost below `IntMax`. `Score` sums a list
and is not looked into: that would be an induction. TLC evaluates both on the
signatures of the run.

### `LuaRefs_proof` and `WeakRefs_proof`
For any number of objects and slots.

`FreeStack(t, n, L)` says that the freed slots of a table are `L[1]`, ..., `L[n]`, linked
from slot 0 down to a link that is 0 or nil. It is how a property of a linked list is stated
without recursion: `luaL_ref` takes `L[n]` or, if `n` is 0, a slot that is empty
(`RefReturns`, `RefTakes`), and `luaL_unref` pushes one (`UnrefFrees`). The lemmas are used by
the proofs about weak references and about the registry.

* `TypeCorrect` (`TypeOK`), with or without Lua code between the phases of a collection.
* `IdentityIsPreserved` (`IdentityPreserved`), `AdoptedIsKept` (`AdoptedKeepsItsPart`) and
  `FreeListIsSound` (`FreeSlotsAreFree`), if `~Incremental`: finalizers of what a collection condemned
  run before more Lua code does. The invariant (`PartsInv` and `SlotsInv`) says
  of an object that will still free its slot that no other such object has it and that it is
  not in the stack; that the slot holds its instance, or nothing once that is
  condemned; and that only objects nobody will delete outlive their instance. Without the
  hypothesis the theorems are false, which is finding 2.

### `LuaCallbackDispatcher_proof`
For any number of signals, functions, cached objects, methods and slots:

* `TypeCorrect` (`TypeOK`), `SignalsInvokeFunctions` (`InvokesAFunction`) and `SlotsAreOwn` (the
  action property `ReferencesHold`), whatever scripts do. The invariant `RegistryInv` has the
  free stack of the registry, functions in the slots of methods and objects in those of cached
  tables. `Disconnect` frees reference 0: slot 0 then holds 0, which makes the stack empty
  and forgets the slots in it. They are never given out again, as the slots of methods never
  are, and that is why nothing worse than a leak comes of it.
* `FreshFunctionsAreCalled` (`CalledAsOftenAsConnected`), if `Fresh`. `FreshInv` adds that of each
  function either all methods are connected, to one signal, or none is and the function
  is discarded; so the first match that is not connected, at which line 83 stops, is one after
  which there is nothing to disconnect. `signals_disconnect` is the counterexample without `Fresh`.

### `QluaObjects_proof`
For any number of objects and tables; every step of this module is one of the callbacks' or
leaves their variables alone (`DispatcherStep`), so that their theorems hold here too
(`ObjectsSignalsInvoke`, `ObjectsFunctionsAreCalled`).

* `ObjectsTypeCorrect` (`ObjectsTypeOK`): `CachedInv`, the registry refers to the one cached table of an
  object.
* `OwnershipIsKept` (`OneDeleter`): `OwnersInv`, the same without cardinalities. It needs no
  restriction to one table, only that a delete mode is given once to what the
  program owns, which `MayAdd` asks of the program.
* `TablesHaveMethods` (`HasItsMethods`), if `OneTable`: `OneTableInv` says that an object has one table,
  and lists of methods exactly as long as it has it. `qlua_tables` is the counterexample without
  (finding 4).

### `LuaClasses_proof`
For any hierarchy of classes, in C++ with several bases and in Lua with one, any members
and any depth of constructors in constructors:

* `TypeCorrect` (`TypeOK`): an instance is there as long as a frame or `super` refers to it.
* `FirstBaseWins`: the loop of `register_`, which looks at the table it is filling, leaves a class its
  own members and takes every other name from the first base that has it. The loop is a
  recursive function; that it exists and what it is come from its closed form (`CopiedTable`),
  one base more at a time (`CopiedNext`).
* `MembersAreFound` (`MembersAreInherited`), without a condition: what a base is given after a class was
  made is in neither the table nor the search. `SearchBases` is a recursive function over classes. That
  its equation has a solution is a part of the invariant (`SearchSolved`): a class is made after its
  bases, so that its search follows from theirs (`SearchExtends`). The other part is that the
  tables match any solution (`SearchMatches`), for which the solution on the classes there were is
  got from one on the classes there are (`SearchRestricts`).
* `SuperIsOwn` (`SuperIsMine`), if `SuperFirst` and `Chained`. `SuperInv` speaks of every frame that may
  still call super: it has read its own, or it is the innermost and `super` is its own. So it
  does not matter that constructors in arguments, returns and errors change `super`.
* `HolderIsMadeOnce` (`InitialisedOnce`), under the same conditions. `OnceInv` adds that the frames of an
  instance are those of one construction, all but the innermost having called on, and none
  but the first called by the dispatcher (`Chain`), so that an error drops all of
  them or none; and that an instance has no holder while one of its frames has still to
  call its base.

Assumed: `LuaClassesAssumption` and `NilAssumption`, which say what the sets given to the module are, and
the two rules. `SuperFirst` is the one of the comment at `class_rep.cpp:241`. `Chained` is
that an `__init` that calls `Base.__init(self)` calls none that uses `super`, since `super` is set
by the constructor of the class that is being made and by `super(...)` only
(`class_rep.cpp:146`, 226). `MCLuaClasses` assumes it of the classes of the run, so TLC evaluates it.

### Only model-checked
`AnswersAreShortest` compares the search with the paths of casts. For any cast functions it need
not hold: the search drops an edge to a vertex it has visited, whatever pointer it visited it with,
so that what is needed is a fact about C++ hierarchies, which TLC checks on the diamond of
`cast_cache`, and induction over paths. Liveness (`EverythingCollected`, `CallEnds`,
`DroppedIsCollected`, `AbandonedIsDeleted`) is beyond the prover. Everything else that a
passing run checks is also a theorem. The runs that expect a violation show that the
hypotheses `~Incremental`, `Fresh`, `OneTable` and `Narrow(Invalid) < 0` cannot be dropped.
No run is spent on `~Careless`, without which `OneOwner` fails after two adoptions, nor on
`PatientKeptWhileRunning` without `InRoom`, which one dependency too many breaks.

## 5. Plan

Done: sections 2 to 4. Next:

1. An abstract specification of ownership (an object has an owner until it is deleted) that
   `InstanceLifetime` and `QluaObjects` implement, with the refinement proved from the
   invariants there are.
2. A refinement for `LuaRefs`: a table with a free list implements a partial function from
   references to values, for callers that free what they hold.

Worth modelling after that: classes that mix `super` and
`Base.__init` (`class_rep.cpp:146`). The project keeps to a dozen runs; a new one takes the
place of `cast_win32` or `signals_disconnect` when the code they are about is mended.

## 6. Not modelled

* **Class registration, the rest**: static constants (`add_base_class` puts those of a base over
  those of the class, unlike members), attributes of single instances, nested
  scopes: maps filled at start-up. `find_class` returning null for a base that was never
  registered is a crash, excluded by a guard. The registry cached per state
  (`class_registry.cpp:122`) is compiled only with `LUABIND_NOT_THREADSAFE`, which no project of
  the solution defines.
* **qlua, the rest**: conversion of arguments and values by type, `EvalFile`, connections
  between two QObjects, all of whose state is Qt's.
* **Handles, `object`, calls into Lua, exception handlers**: thin wrappers of the Lua API, one
  `luaL_ref` each; the chain of handlers only grows, at start-up.
* **Operators, iterators, containers and other policies**: stateless templates, whose
  correctness is a question of C++ types.
* **lua-blob**: sequential code on one byte array that nothing else uses; reading it gave
  the divergence listed above.
* **visa32, sample programs, scripts**: pass-through or straight-line code.
* **Boost, LuaJIT**: vendored, and by far the largest part of the repository. Of LuaJIT,
  `luaL_ref`, `luaL_unref`, the length of a table and the phases of a collection are
  modelled, as luabind and qlua use them; nothing of Boost.
